------------------------------ MODULE Rulesets ------------------------------
(***************************************************************************)
(* The rulesets of the mechanic trade_iv and how the staff edits and       *)
(* publishes them: MechanicRuleSet and RuleParameter                       *)
(* (apps/mechanics/models.py), their admin screens (admin.py) and the      *)
(* ruleset the seed command creates.                                       *)
(*                                                                         *)
(* A published ruleset is guarded by clean(), which looks at is_published  *)
(* in one query before another one writes; publish() reads the parameters, *)
(* then the row, then writes it.  The staff's requests interleave between  *)
(* those queries.  A ruleset is identified by its version, a parameter by  *)
(* its primary key.  A request chooses what it posts when it writes it.    *)
(***************************************************************************)
EXTENDS Naturals, FiniteSets

CONSTANTS
    Staff,          \* people at the admin, each with one request at a time
    Versions,       \* the rulesets there can be
    Seeded,         \* the one the seed command creates
    Params,         \* primary keys of RuleParameter
    Keys,           \* the keys of the schema, all required
    FloorValues,    \* the values the schema accepts
    BadValue,       \* one it does not
    None,           \* no row
    Lost            \* what RulesetShelf calls a lost guarantee

ASSUME RulesetsAssumption ==
    /\ Versions \subseteq Nat /\ None \notin Versions /\ Seeded \in Versions
    /\ None \notin Params
    /\ BadValue \notin FloorValues

VARIABLES
    status,         \* each ruleset: absent, draft, published or deleted
    param,          \* the row of each primary key, or None
    session,        \* what each member of the staff is doing
    \* History, read by the properties and by no action's guard.
    printed,        \* each ruleset's parameters when it was published, or None
    trusted,        \* rulesets published, and since kept, without interference
    spoiled         \* those that were and are no longer, also once seeded anew

rulesetVars == <<status, param, session, printed, trusted, spoiled>>

Param == [ruleset : Versions, key : Keys, value : FloorValues \cup {BadValue}]

ASSUME NoneAssumption ==
    /\ None \notin Param /\ None \notin [Params -> Param \cup {None}]
    /\ None \notin FloorValues /\ {None, Lost} \cap [Keys -> FloorValues] = {} /\ None # Lost

SessionSteps == {"idle", "params", "check", "update", "write"}

Session == [op : {"publish", "change", "param", "drop"}, step : SessionSteps,
            ruleset : Versions \cup {None}, row : Params \cup {None},
            \* history: of a publication, that nobody was editing its ruleset meanwhile
            alone : BOOLEAN]

Idle == [op |-> "publish", step |-> "idle", ruleset |-> None, row |-> None, alone |-> FALSE]

-----------------------------------------------------------------------------
Exists(r) == status[r] \in {"draft", "published"}
RulesetOf(p) == IF param[p] = None THEN None ELSE param[p].ruleset

\* The parameters of r, by primary key.
Of(r) == [p \in Params |-> IF RulesetOf(p) = r THEN param[p] ELSE None]

\* {p.key: p.value for p in ruleset.parameters.all()}: no order and no uniqueness of
\* (ruleset, key), so any row of a key may give its value.
Readings(r) ==
    {m \in [Keys -> FloorValues \cup {BadValue, None}] :
        \A k \in Keys :
            LET values == {param[p].value : p \in {q \in Params :
                              RulesetOf(q) = r /\ param[q].key = k}}
            IN  IF values = {} THEN m[k] = None ELSE m[k] \in values}

\* validate_parameters: no required key is missing, every value is accepted.
Valid(m) == \A k \in Keys : m[k] \in FloorValues

NoDuplicates(r) ==
    \A p, q \in Params : RulesetOf(p) = r /\ RulesetOf(q) = r /\ param[p].key = param[q].key => p = q

Editing(s) == session[s].step # "idle" /\ session[s].op # "publish"
Publishing(s) == session[s].step # "idle" /\ session[s].op = "publish"
Held(p) == \E s \in Staff : session[s].step # "idle" /\ session[s].row = p

\* The rulesets an editing request can change.
Touches(s, r) ==
    Editing(s) /\ (session[s].ruleset = r \/ (session[s].row # None /\ RulesetOf(session[s].row) = r))

RulesetsInit ==
    /\ status = [r \in Versions |-> "absent"]
    /\ param = [p \in Params |-> None]
    /\ session = [s \in Staff |-> Idle]
    /\ printed = [r \in Versions |-> None]
    /\ trusted = {}
    /\ spoiled = {}

\* A request for the rulesets rs begins: the publications of those are no longer alone.
Starts(s, new, rs) ==
    session' = [q \in Staff |->
        IF q = s THEN new
        ELSE IF Publishing(q) /\ session[q].ruleset \in rs
             THEN [session[q] EXCEPT !.alone = FALSE] ELSE session[q]]

\* ... and the same for what a single statement does to rs.
Disturbs(rs) ==
    session' = [q \in Staff |->
        IF Publishing(q) /\ session[q].ruleset \in rs
        THEN [session[q] EXCEPT !.alone = FALSE] ELSE session[q]]

\* Rulesets somebody takes something from, past the checks.
Distrust(rs) ==
    /\ trusted' = trusted \ rs
    /\ spoiled' = spoiled \cup (trusted \cap rs)

Ends(s) == session' = [session EXCEPT ![s] = Idle]
Goes(s, step) == session' = [session EXCEPT ![s].step = step]
Is(s, op, step) == session[s].op = op /\ session[s].step = step

-----------------------------------------------------------------------------
(* publish_ruleset, an admin action, in autocommit *)

\* The queryset of the action is read; a published ruleset is passed over.
BeginPublish(s, r) ==
    /\ session[s].step = "idle"
    /\ status[r] = "draft"
    /\ session' = [session EXCEPT ![s] =
           [op |-> "publish", step |-> "params", ruleset |-> r, row |-> None,
            alone |-> \A q \in Staff : ~Touches(q, r)]]
    /\ UNCHANGED <<status, param, printed, trusted, spoiled>>

\* Variant: validation only runs for rulesets that have parameters.
AcceptsEmpty(m) == Valid(m) \/ \A k \in Keys : m[k] = None

Accepts(m) == Valid(m)

\* publish(): the parameters are read and validated.
ValidateParams(s) ==
    /\ Is(s, "publish", "params")
    /\ \E m \in Readings(session[s].ruleset) :
           IF Accepts(m) THEN Goes(s, "check") ELSE Ends(s)
    /\ UNCHANGED <<status, param, printed, trusted, spoiled>>

\* clean(): the stored row must be there and not be published.
CheckOriginal(s) ==
    /\ Is(s, "publish", "check")
    /\ IF status[session[s].ruleset] = "draft" THEN Goes(s, "update") ELSE Ends(s)
    /\ UNCHANGED <<status, param, printed, trusted, spoiled>>

\* UPDATE ... SET is_published; with no such row, an error.
Publish(s) ==
    LET r == session[s].ruleset
    IN  /\ Is(s, "publish", "update")
        /\ IF Exists(r)
           THEN /\ status' = [status EXCEPT ![r] = "published"]
                /\ printed' = IF status[r] = "published" THEN printed
                              ELSE [printed EXCEPT ![r] = Of(r)]
                /\ trusted' = IF session[s].alone /\ status[r] # "published"
                              THEN trusted \cup {r} ELSE trusted
           ELSE UNCHANGED <<status, printed, trusted, spoiled>>
        /\ Ends(s)
        /\ UNCHANGED <<param, spoiled>>

-----------------------------------------------------------------------------
(* The change form of a ruleset with its inline parameters, and the form of  *)
(* one parameter: each one transaction, whose first query checks and whose   *)
(* last ones write.                                                          *)

\* Variant: RuleParameter.clean() and delete() have no guard.
OpenAlways(r) == Exists(r)

\* What clean() lets through: the ruleset is not published.
Open(r) == status[r] = "draft"

\* The row a form is about: one of the ruleset, or a new one.
Fresh(p) == param[p] = None /\ ~Held(p)

BeginChange(s, r) ==
    /\ session[s].step = "idle"
    /\ Open(r)
    /\ \E p \in Params : /\ Fresh(p) \/ RulesetOf(p) = r
                         /\ Starts(s, [op |-> "change", step |-> "write", ruleset |-> r,
                                       row |-> p, alone |-> FALSE], {r})
    /\ UNCHANGED <<status, param, printed, trusted, spoiled>>

\* The form of a parameter posts its ruleset, which is the one that is checked: the row
\* may be a parameter of any other.
BeginParam(s, r) ==
    /\ session[s].step = "idle"
    /\ Open(r)
    /\ \E p \in Params : /\ Fresh(p) \/ param[p] # None
                         /\ Starts(s, [op |-> "param", step |-> "write", ruleset |-> r,
                                       row |-> p, alone |-> FALSE], {r, RulesetOf(p)})
    /\ UNCHANGED <<status, param, printed, trusted, spoiled>>

\* RuleParameter.delete(), from its delete view.
BeginDrop(s, r) ==
    /\ session[s].step = "idle"
    /\ Open(r)
    /\ \E p \in Params : /\ RulesetOf(p) = r
                         /\ Starts(s, [op |-> "drop", step |-> "write", ruleset |-> r,
                                       row |-> p, alone |-> FALSE], {r})
    /\ UNCHANGED <<status, param, printed, trusted, spoiled>>

\* A row of another ruleset that the write takes from it.
TakenFrom(p, r) == {RulesetOf(p)} \ {r, None}

\* save() of the ruleset as it was loaded, is_published included, then of the inline row,
\* if it was edited, or its deletion.  A ruleset deleted meanwhile is inserted again.
WriteChange(s) ==
    LET r == session[s].ruleset
        p == session[s].row
    IN  /\ Is(s, "change", "write")
        /\ status' = [status EXCEPT ![r] = "draft"]
        /\ \/ /\ \E row \in [ruleset : {r}, key : Keys, value : FloorValues \cup {BadValue}] \cup {None} :
                     param' = [param EXCEPT ![p] = row]
              /\ Distrust(TakenFrom(p, r))
           \/ UNCHANGED <<param, trusted, spoiled>>
        /\ Ends(s)
        /\ UNCHANGED printed

\* INSERT or UPDATE of one parameter; its ruleset must still be there (foreign key).
WriteParam(s) ==
    LET r == session[s].ruleset
        p == session[s].row
    IN  /\ Is(s, "param", "write")
        /\ IF Exists(r)
           THEN /\ \E k \in Keys, v \in FloorValues \cup {BadValue} :
                       param' = [param EXCEPT ![p] = [ruleset |-> r, key |-> k, value |-> v]]
                /\ Distrust(TakenFrom(p, r))
           ELSE UNCHANGED <<param, trusted, spoiled>>
        /\ Ends(s)
        /\ UNCHANGED <<status, printed>>

WriteDrop(s) ==
    LET p == session[s].row
    IN  /\ Is(s, "drop", "write")
        /\ param' = [param EXCEPT ![p] = None]
        /\ Ends(s)
        /\ UNCHANGED <<status, printed, trusted, spoiled>>

-----------------------------------------------------------------------------
(* Statements that ask nothing first *)

\* The add form of a ruleset: is_published is not on it.
CreateRuleset(r) ==
    /\ status[r] = "absent"
    /\ status' = [status EXCEPT ![r] = "draft"]
    /\ UNCHANGED <<param, session, printed, trusted, spoiled>>

\* "Delete selected" over parameters is a queryset's delete(), not a model's.
DeleteSelected(p) ==
    /\ param[p] # None
    /\ param' = [param EXCEPT ![p] = None]
    /\ Distrust({RulesetOf(p)})
    /\ Disturbs({RulesetOf(p)})
    /\ UNCHANGED <<status, printed>>

\* on_delete=CASCADE
ParamsWithout(r) == [p \in Params |-> IF RulesetOf(p) = r THEN None ELSE param[p]]

\* Deleting a ruleset takes its parameters along, published or not.
DeleteRuleset(r) ==
    /\ Exists(r)
    /\ status' = [status EXCEPT ![r] = "deleted"]
    /\ param' = ParamsWithout(r)
    /\ printed' = [printed EXCEPT ![r] = None]
    /\ Distrust({r})
    /\ Disturbs({r})

\* The seed command, one transaction: version 1 with every parameter, published, also in
\* the place of a deleted one.  It is another row: what the staff was still doing to the old
\* one finds nothing to change, and of an old form the INSERT meets the unique version.
Seed ==
    /\ ~Exists(Seeded)
    /\ \E rows \in [Keys -> Params], values \in [Keys -> FloorValues] :
           /\ \A k \in Keys : Fresh(rows[k])
           /\ \A k, l \in Keys : rows[k] = rows[l] => k = l
           /\ param' = [p \in Params |->
                  IF \E k \in Keys : rows[k] = p
                  THEN LET k == CHOOSE l \in Keys : rows[l] = p
                       IN  [ruleset |-> Seeded, key |-> k, value |-> values[k]]
                  ELSE param[p]]
    /\ status' = [status EXCEPT ![Seeded] = "published"]
    /\ printed' = [printed EXCEPT ![Seeded] = [p \in Params |->
           IF param'[p] # None /\ param'[p].ruleset = Seeded THEN param'[p] ELSE None]]
    /\ session' = [s \in Staff |-> IF session[s].ruleset = Seeded THEN Idle ELSE session[s]]
    /\ trusted' = trusted \cup {Seeded}
    /\ spoiled' = spoiled \cup {r \in {Seeded} : status[r] = "deleted"}

-----------------------------------------------------------------------------
SessionStep(s) ==
    \/ ValidateParams(s) \/ CheckOriginal(s) \/ Publish(s)
    \/ WriteChange(s) \/ WriteParam(s) \/ WriteDrop(s)

Begins(s) ==
    \E r \in Versions :
        BeginPublish(s, r) \/ BeginChange(s, r) \/ BeginParam(s, r) \/ BeginDrop(s, r)

RulesetsNext ==
    \/ \E s \in Staff : Begins(s) \/ SessionStep(s)
    \/ \E r \in Versions : CreateRuleset(r) \/ DeleteRuleset(r)
    \/ \E p \in Params : DeleteSelected(p)
    \/ Seed

RulesetsSpec == RulesetsInit /\ [][RulesetsNext]_rulesetVars

-----------------------------------------------------------------------------
(* Properties *)

\* Every variable has its type.
RulesetsTypeOK ==
    /\ status \in [Versions -> {"absent", "draft", "published", "deleted"}]
    /\ param \in [Params -> Param \cup {None}]
    /\ session \in [Staff -> Session]
    /\ printed \in [Versions -> [Params -> Param \cup {None}] \cup {None}]
    /\ trusted \subseteq Versions /\ spoiled \subseteq Versions
    /\ \A s \in Staff : session[s].step # "idle" => session[s].ruleset \in Versions
    /\ \A s \in Staff : Editing(s) => session[s].row \in Params
    /\ \A p \in Params : param[p] # None => Exists(param[p].ruleset)

\* A ruleset whose publication nobody's edit overlapped keeps, while it is published,
\* the parameters it was published with, and nothing unpublishes it: later edits are
\* refused, each by a check that ran before the write (clean, delete).  It stops being
\* trusted when a request the checks do not see takes a parameter from it.
PublishedStaysPut ==
    \A r \in trusted : status[r] = "published" /\ printed[r] = Of(r)

\* ... and those parameters passed the validation, unless a key has two rows
\* (publish, validate_parameters).
PublishedIsValid ==
    \A r \in trusted : NoDuplicates(r) => \A m \in Readings(r) : Valid(m)

\* To a reader the rulesets are the shelf that RulesetShelf promises: what is guaranteed
\* are the floors of the trusted rulesets that have one row a key.
Shelf == INSTANCE RulesetShelf WITH
    floors <- [r \in Versions |->
        IF r \in spoiled THEN Lost
        ELSE IF r \in trusted /\ NoDuplicates(r) THEN CHOOSE m \in Readings(r) : TRUE ELSE None]

ImplementsShelf == Shelf!ShelfSpec
=============================================================================
