--------------------------- MODULE RulesetsProofs ---------------------------
(***************************************************************************)
(* A ruleset published while nobody edited it keeps what it was published  *)
(* with, for any staff, any rulesets and any parameters.  The checks of    *)
(* clean() and the writes they allow are separate queries; what makes them *)
(* enough is that a request which passed the check of a draft before the   *)
(* publication is seen by it as an edit, and that after it no request      *)
(* passes the check.                                                       *)
(***************************************************************************)
EXTENDS Rulesets, TLAPS

-----------------------------------------------------------------------------
(* The inductive invariant *)

ValidRuleset(r) == NoDuplicates(r) => \A m \in Readings(r) : Valid(m)

\* A ruleset that lost its guarantee is not a draft again.
SpoiledStays == \A r \in spoiled : status[r] \in {"published", "deleted"}

\* A request works on a ruleset that was there when it began.
SessionsKnown == \A s \in Staff : session[s].step # "idle" => status[session[s].ruleset] # "absent"

\* No edit under way is about a ruleset that is, or was, guaranteed ...
EditsUnguaranteed == \A s \in Staff : Editing(s) => session[s].ruleset \notin trusted \cup spoiled

\* ... nor about a row of one, except the form that posts a ruleset of its own.
RowsUnguaranteed ==
    \A s \in Staff, p \in Params :
        Editing(s) /\ session[s].op # "param" /\ session[s].row = p => RulesetOf(p) \notin trusted

AlonePublishing(q, r) == Publishing(q) /\ session[q].alone /\ session[q].ruleset = r

\* A publication that is still alone has no edit of its ruleset beside it ...
AloneUntouched ==
    \A r \in Versions : \A q, s \in Staff : AlonePublishing(q, r) => ~Touches(s, r)

\* ... so what it validated is what is there.
AloneValidated ==
    \A r \in Versions : \A q \in Staff :
        AlonePublishing(q, r) /\ session[q].step \in {"check", "update"} => ValidRuleset(r)

GuaranteeInv == SpoiledStays /\ PublishedStaysPut /\ PublishedIsValid

EditsInv == SessionsKnown /\ EditsUnguaranteed /\ RowsUnguaranteed

AloneInv == AloneUntouched /\ AloneValidated

RulesetsInv == RulesetsTypeOK /\ GuaranteeInv /\ EditsInv /\ AloneInv

-----------------------------------------------------------------------------
(* Types *)

LEMMA IdleTyped == Idle \in Session /\ ~(Idle.step # "idle")
BY DEF Idle, Session, SessionSteps

LEMMA InitTyped == RulesetsInit => RulesetsTypeOK
BY IdleTyped DEF RulesetsInit, RulesetsTypeOK, Editing

\* What the session of everybody becomes, of a type and about a ruleset.
SessionTypeOK ==
    /\ session \in [Staff -> Session]
    /\ \A s \in Staff : session[s].step # "idle" => session[s].ruleset \in Versions
    /\ \A s \in Staff : Editing(s) => session[s].row \in Params

LEMMA EndsTyped ==
    ASSUME SessionTypeOK, NEW s \in Staff, Ends(s)
    PROVE  SessionTypeOK'
BY IdleTyped DEF SessionTypeOK, Ends, Editing

LEMMA GoesTyped ==
    ASSUME SessionTypeOK, NEW s \in Staff, NEW t \in SessionSteps, session[s].step # "idle", Goes(s, t)
    PROVE  SessionTypeOK'
<1>1. [session[s] EXCEPT !.step = t] \in Session
    BY DEF SessionTypeOK, Session
<1>2. session' = [session EXCEPT ![s] = [session[s] EXCEPT !.step = t]]
    BY DEF Goes
<1>3. session' \in [Staff -> Session]
    BY <1>1, <1>2 DEF SessionTypeOK
<1>4. session'[s].ruleset = session[s].ruleset /\ session'[s].op = session[s].op
      /\ session'[s].row = session[s].row
    BY <1>1, <1>2 DEF SessionTypeOK, Session
<1>5. \A q \in Staff : q # s => session'[q] = session[q]
    BY <1>2 DEF SessionTypeOK
<1>6. QED
    BY <1>3, <1>4, <1>5 DEF SessionTypeOK, Editing

\* Losing its "alone" changes nothing else of a publication.
LEMMA DisturbsOnlyAlone ==
    ASSUME SessionTypeOK, NEW q \in Staff, NEW new, new = [session[q] EXCEPT !.alone = FALSE]
    PROVE  /\ new \in Session /\ ~new.alone
           /\ new.op = session[q].op /\ new.step = session[q].step
           /\ new.ruleset = session[q].ruleset /\ new.row = session[q].row
BY DEF SessionTypeOK, Session

LEMMA DisturbsTyped ==
    ASSUME SessionTypeOK, NEW rs, Disturbs(rs)
    PROVE  SessionTypeOK'
<1>1. ASSUME NEW q \in Staff
      PROVE  /\ session'[q] \in Session
             /\ session'[q].op = session[q].op /\ session'[q].step = session[q].step
             /\ session'[q].ruleset = session[q].ruleset /\ session'[q].row = session[q].row
    BY DisturbsOnlyAlone DEF Disturbs, SessionTypeOK
<1>2. session' \in [Staff -> Session]
    BY <1>1 DEF Disturbs
<1>3. QED
    BY <1>1, <1>2 DEF SessionTypeOK, Editing

LEMMA StartsTyped ==
    ASSUME SessionTypeOK, NEW s \in Staff, NEW new \in Session, NEW rs, Starts(s, new, rs),
           new.ruleset \in Versions, new.row \in Params
    PROVE  SessionTypeOK'
<1>1. ASSUME NEW q \in Staff, q # s
      PROVE  /\ session'[q] \in Session
             /\ session'[q].op = session[q].op /\ session'[q].step = session[q].step
             /\ session'[q].ruleset = session[q].ruleset /\ session'[q].row = session[q].row
    BY <1>1, DisturbsOnlyAlone DEF Starts, SessionTypeOK
<1>2. session'[s] = new
    BY DEF Starts
<1>3. session' \in [Staff -> Session]
    BY <1>1, <1>2 DEF Starts
<1>4. QED
    BY <1>1, <1>2, <1>3 DEF SessionTypeOK, Editing

LEMMA TypesApart ==
    RulesetsTypeOK <=>
        /\ SessionTypeOK
        /\ status \in [Versions -> {"absent", "draft", "published", "deleted"}]
        /\ param \in [Params -> Param \cup {None}]
        /\ printed \in [Versions -> [Params -> Param \cup {None}] \cup {None}]
        /\ trusted \subseteq Versions /\ spoiled \subseteq Versions
        /\ \A p \in Params : param[p] # None => Exists(param[p].ruleset)
BY DEF RulesetsTypeOK, SessionTypeOK

LEMMA OfTyped ==
    ASSUME RulesetsTypeOK, NEW r
    PROVE  Of(r) \in [Params -> Param \cup {None}]
BY DEF Of, RulesetsTypeOK

LEMMA PublishTyped ==
    ASSUME RulesetsTypeOK, NEW s \in Staff,
           ValidateParams(s) \/ CheckOriginal(s) \/ Publish(s)
    PROVE  RulesetsTypeOK'
<1>1. SessionTypeOK /\ session[s].step # "idle"
    BY TypesApart DEF Is, ValidateParams, CheckOriginal, Publish
<1>2. SessionTypeOK'
    BY <1>1, EndsTyped, GoesTyped DEF ValidateParams, CheckOriginal, Publish, SessionSteps
<1>3. CASE UNCHANGED <<status, param, printed, trusted, spoiled>>
    BY <1>2, <1>3, TypesApart DEF RulesetsTypeOK, SessionTypeOK, Exists, Editing
<1>4. CASE Publish(s) /\ Exists(session[s].ruleset)
    <2> DEFINE r == session[s].ruleset
    <2>1. r \in Versions /\ Of(r) \in [Params -> Param \cup {None}]
        BY <1>1, OfTyped DEF SessionTypeOK
    <2>2. /\ status' = [status EXCEPT ![r] = "published"]
          /\ printed' = printed \/ printed' = [printed EXCEPT ![r] = Of(r)]
          /\ trusted' \subseteq trusted \cup {r} /\ UNCHANGED <<param, spoiled>>
        BY <1>4 DEF Publish
    <2>3. \A q \in Versions : Exists(q) => Exists(q)'
        BY <2>2 DEF Exists, RulesetsTypeOK
    <2>4. \A p \in Params : param[p] # None => param[p].ruleset \in Versions
        BY DEF RulesetsTypeOK, Param
    <2> HIDE DEF r
    <2>5. QED
        BY <1>2, <2>1, <2>2, <2>3, <2>4, TypesApart DEF RulesetsTypeOK, SessionTypeOK, Editing
<1>5. QED
    BY <1>3, <1>4 DEF ValidateParams, CheckOriginal, Publish

LEMMA BeginTyped ==
    ASSUME RulesetsTypeOK, NEW s \in Staff, Begins(s)
    PROVE  RulesetsTypeOK'
<1>1. PICK r \in Versions : BeginPublish(s, r) \/ BeginChange(s, r) \/ BeginParam(s, r) \/ BeginDrop(s, r)
    BY DEF Begins
<1>2. SessionTypeOK
    BY TypesApart
<1>3. SessionTypeOK'
    <2>1. CASE BeginPublish(s, r)
        <3> DEFINE new == [op |-> "publish", step |-> "params", ruleset |-> r, row |-> None,
                           alone |-> \A q \in Staff : ~Touches(q, r)]
        <3>1. new \in Session
            BY DEF Session, SessionSteps
        <3>2. session' = [session EXCEPT ![s] = new]
            BY <2>1 DEF BeginPublish
        <3>3. new.ruleset = r /\ new.op = "publish"
            OBVIOUS
        <3> HIDE DEF new
        <3>4. QED
            BY <1>2, <3>1, <3>2, <3>3 DEF SessionTypeOK, Editing
    <2>2. ASSUME NEW p \in Params, NEW o \in {"change", "param", "drop"}, NEW rs,
                 Starts(s, [op |-> o, step |-> "write", ruleset |-> r, row |-> p, alone |-> FALSE], rs)
          PROVE  SessionTypeOK'
        <3> DEFINE new == [op |-> o, step |-> "write", ruleset |-> r, row |-> p, alone |-> FALSE]
        <3>1. new \in Session /\ new.ruleset \in Versions /\ new.row \in Params
            BY DEF Session, SessionSteps
        <3> HIDE DEF new
        <3>2. QED
            BY <1>2, <2>2, <3>1, StartsTyped DEF new
    <2>3. QED
        BY <1>1, <2>1, <2>2 DEF BeginChange, BeginParam, BeginDrop
<1>4. UNCHANGED <<status, param, printed, trusted, spoiled>>
    BY <1>1 DEF BeginPublish, BeginChange, BeginParam, BeginDrop
<1>5. QED
    BY <1>3, <1>4 DEF RulesetsTypeOK, SessionTypeOK, Exists, Editing

\* What the three writes have in common: the status of no ruleset but the one of the
\* change form moves, to draft, and only the row in hand changes, to a row of that ruleset
\* or to none.
EditRow(s) == {[ruleset |-> session[s].ruleset, key |-> k, value |-> v] :
                   k \in Keys, v \in FloorValues \cup {BadValue}} \cup {None}

RowBecomes(s, row) ==
    /\ param' = [param EXCEPT ![session[s].row] = row]
    /\ row # None => status'[session[s].ruleset] \in {"draft", "published"}
    /\ \/ session[s].op # "drop" /\ Distrust(TakenFrom(session[s].row, session[s].ruleset))
       \/ session[s].op = "drop" /\ row = None /\ UNCHANGED <<trusted, spoiled>>

LEMMA WriteEffect ==
    ASSUME RulesetsTypeOK, NEW s \in Staff, WriteChange(s) \/ WriteParam(s) \/ WriteDrop(s)
    PROVE  /\ Editing(s) /\ session[s].ruleset \in Versions /\ session[s].row \in Params
           /\ \/ status' = status
              \/ /\ session[s].op = "change"
                 /\ status' = [status EXCEPT ![session[s].ruleset] = "draft"]
           /\ \/ UNCHANGED <<param, trusted, spoiled>>
              \/ \E row \in EditRow(s) : RowBecomes(s, row)
           /\ Ends(s) /\ printed' = printed
<1>1. Editing(s) /\ session[s].ruleset \in Versions /\ session[s].row \in Params
    BY DEF RulesetsTypeOK, Editing, Is, WriteChange, WriteParam, WriteDrop
<1>2. CASE WriteChange(s)
    <2>1. /\ session[s].op = "change" /\ status' = [status EXCEPT ![session[s].ruleset] = "draft"]
          /\ Ends(s) /\ printed' = printed
        BY <1>2 DEF WriteChange, Is
    <2>2. status'[session[s].ruleset] \in {"draft", "published"}
        BY <1>1, <2>1 DEF RulesetsTypeOK
    <2>3. CASE ~UNCHANGED <<param, trusted, spoiled>>
        <3>1. PICK row \in [ruleset : {session[s].ruleset}, key : Keys,
                            value : FloorValues \cup {BadValue}] \cup {None} :
                  /\ param' = [param EXCEPT ![session[s].row] = row]
                  /\ Distrust(TakenFrom(session[s].row, session[s].ruleset))
            BY <1>2, <2>3 DEF WriteChange
        <3>2. row \in EditRow(s)
            BY <3>1 DEF EditRow
        <3>3. RowBecomes(s, row)
            BY <2>1, <2>2, <3>1 DEF RowBecomes
        <3>4. QED
            BY <1>1, <2>1, <3>2, <3>3
    <2>4. QED
        BY <1>1, <2>1, <2>3
<1>3. CASE WriteParam(s)
    <2>1. /\ session[s].op = "param" /\ status' = status
          /\ Ends(s) /\ printed' = printed
        BY <1>3 DEF WriteParam, Is
    <2>2. CASE Exists(session[s].ruleset)
        <3>1. PICK k \in Keys, v \in FloorValues \cup {BadValue} :
                  param' = [param EXCEPT ![session[s].row] =
                                [ruleset |-> session[s].ruleset, key |-> k, value |-> v]]
            BY <1>3, <2>2 DEF WriteParam
        <3> DEFINE row == [ruleset |-> session[s].ruleset, key |-> k, value |-> v]
        <3>2. row \in EditRow(s) /\ param' = [param EXCEPT ![session[s].row] = row]
            BY <3>1 DEF EditRow
        <3>3. Distrust(TakenFrom(session[s].row, session[s].ruleset))
            BY <1>3, <2>2 DEF WriteParam
        <3> HIDE DEF row
        <3>4. RowBecomes(s, row)
            BY <2>1, <2>2, <3>2, <3>3 DEF RowBecomes, Exists
        <3>5. QED
            BY <1>1, <2>1, <3>2, <3>4
    <2>3. CASE ~Exists(session[s].ruleset)
        BY <1>1, <1>3, <2>1, <2>3 DEF WriteParam
    <2>4. QED
        BY <2>2, <2>3
<1>4. CASE WriteDrop(s)
    <2>1. /\ session[s].op = "drop" /\ status' = status
          /\ Ends(s) /\ printed' = printed
        BY <1>4 DEF WriteDrop, Is
    <2>2. RowBecomes(s, None) /\ None \in EditRow(s)
        BY <1>4, <2>1 DEF WriteDrop, RowBecomes, EditRow
    <2>3. QED
        BY <1>1, <2>1, <2>2
<1>5. QED
    BY <1>2, <1>3, <1>4

LEMMA WriteTyped ==
    ASSUME RulesetsTypeOK, NEW s \in Staff, WriteChange(s) \/ WriteParam(s) \/ WriteDrop(s)
    PROVE  RulesetsTypeOK'
<1> DEFINE r == session[s].ruleset
           p == session[s].row
<1>1. r \in Versions /\ p \in Params /\ Ends(s) /\ printed' = printed
    BY WriteEffect
<1>2. SessionTypeOK'
    BY <1>1, TypesApart, EndsTyped
<1>3. status' = status \/ status' = [status EXCEPT ![r] = "draft"]
    BY WriteEffect
<1>4. \A q \in Versions : Exists(q) => Exists(q)'
    BY <1>1, <1>3 DEF RulesetsTypeOK, Exists
<1>5. status' \in [Versions -> {"absent", "draft", "published", "deleted"}]
    BY <1>1, <1>3 DEF RulesetsTypeOK
<1>6. trusted' \subseteq Versions /\ spoiled' \subseteq Versions
    BY WriteEffect DEF RowBecomes, RulesetsTypeOK, Distrust
<1>7. param' \in [Params -> Param \cup {None}]
      /\ \A q \in Params : param'[q] # None => status'[param'[q].ruleset] \in {"draft", "published"}
    <2>1. \A q \in Params : param[q] # None =>
              param[q].ruleset \in Versions /\ status'[param[q].ruleset] \in {"draft", "published"}
        BY <1>4 DEF RulesetsTypeOK, Param, Exists
    <2>2. CASE param' = param
        BY <2>1, <2>2 DEF RulesetsTypeOK
    <2>3. CASE param' # param
        <3>1. PICK row \in EditRow(s) : RowBecomes(s, row)
            BY <2>3, WriteEffect
        <3>4. param' = [param EXCEPT ![p] = row] /\ (row # None => status'[r] \in {"draft", "published"})
            BY <3>1 DEF RowBecomes
        <3>2. row \in Param \cup {None} /\ (row # None => row.ruleset = r)
            BY <1>1, <3>1 DEF EditRow, Param
        <3> HIDE DEF r, p
        <3>3. QED
            BY <1>1, <2>1, <3>4, <3>2 DEF RulesetsTypeOK
    <2>4. QED
        BY <2>2, <2>3
<1>8. QED
    BY <1>1, <1>2, <1>5, <1>6, <1>7 DEF RulesetsTypeOK, SessionTypeOK, Editing, Exists

LEMMA DeleteTyped ==
    ASSUME RulesetsTypeOK, (\E p \in Params : DeleteSelected(p)) \/ (\E r \in Versions : DeleteRuleset(r))
    PROVE  RulesetsTypeOK'
<1>1. \A q \in Params : param[q] # None => param[q].ruleset \in Versions
    BY DEF RulesetsTypeOK, Param
<1>2. ASSUME NEW p \in Params, DeleteSelected(p) PROVE RulesetsTypeOK'
    <2>1. SessionTypeOK'
        BY <1>2, TypesApart, DisturbsTyped DEF DeleteSelected
    <2>2. trusted' \subseteq Versions /\ spoiled' \subseteq Versions
        BY <1>2 DEF RulesetsTypeOK, DeleteSelected, Distrust
    <2>3. param' \in [Params -> Param \cup {None}] /\ UNCHANGED <<status, printed>>
          /\ \A q \in Params : param'[q] # None => param'[q] = param[q]
        BY <1>2 DEF RulesetsTypeOK, DeleteSelected
    <2>4. QED
        BY <1>1, <2>1, <2>2, <2>3, TypesApart DEF RulesetsTypeOK, SessionTypeOK, Editing, Exists
<1>3. ASSUME NEW r \in Versions, DeleteRuleset(r) PROVE RulesetsTypeOK'
    <2>1. SessionTypeOK'
        BY <1>3, TypesApart, DisturbsTyped DEF DeleteRuleset
    <2>2. trusted' \subseteq Versions /\ spoiled' \subseteq Versions
        BY <1>3 DEF RulesetsTypeOK, DeleteRuleset, Distrust
    <2>3. param' \in [Params -> Param \cup {None}]
          /\ \A q \in Params : param'[q] # None => param'[q] = param[q] /\ param[q].ruleset # r
        BY <1>3 DEF RulesetsTypeOK, DeleteRuleset, ParamsWithout, RulesetOf
    <2>4. /\ status' \in [Versions -> {"absent", "draft", "published", "deleted"}]
          /\ \A q \in Versions \ {r} : status'[q] = status[q]
          /\ printed' \in [Versions -> [Params -> Param \cup {None}] \cup {None}]
        BY <1>3 DEF RulesetsTypeOK, DeleteRuleset
    <2>5. QED
        BY <1>1, <2>1, <2>2, <2>3, <2>4 DEF RulesetsTypeOK, SessionTypeOK, Editing, Exists
<1>4. QED
    BY <1>2, <1>3

\* What the seed command writes: one fresh row for each key, and nothing else changes.
SeedRows(rows, values) ==
    /\ \A k \in Keys : Fresh(rows[k]) /\ rows[k] \in Params
    /\ \A k, l \in Keys : rows[k] = rows[l] => k = l
    /\ \A k \in Keys :
           param'[rows[k]] = [ruleset |-> Seeded, key |-> k, value |-> values[k]]
    /\ \A p \in Params : (\A k \in Keys : rows[k] # p) => param'[p] = param[p]

LEMMA SeedEffect ==
    ASSUME Seed
    PROVE  /\ \E rows \in [Keys -> Params], values \in [Keys -> FloorValues] : SeedRows(rows, values)
           /\ \E f : param' = [p \in Params |-> f[p]]
<1>1. PICK rows \in [Keys -> Params], values \in [Keys -> FloorValues] :
           /\ \A k \in Keys : Fresh(rows[k])
           /\ \A k, l \in Keys : rows[k] = rows[l] => k = l
           /\ param' = [p \in Params |->
                  IF \E k \in Keys : rows[k] = p
                  THEN LET k == CHOOSE l \in Keys : rows[l] = p
                       IN  [ruleset |-> Seeded, key |-> k, value |-> values[k]]
                  ELSE param[p]]
    BY DEF Seed
<1>2. ASSUME NEW k \in Keys
      PROVE  param'[rows[k]] = [ruleset |-> Seeded, key |-> k, value |-> values[k]]
    <2> DEFINE l == CHOOSE m \in Keys : rows[m] = rows[k]
    <2>1. l \in Keys /\ rows[l] = rows[k]
        OBVIOUS
    <2>2. l = k
        BY <1>1, <2>1
    <2>3. param'[rows[k]] = [ruleset |-> Seeded, key |-> l, value |-> values[l]]
        BY <1>1
    <2> HIDE DEF l
    <2>4. QED
        BY <2>2, <2>3
<1>3. ASSUME NEW p \in Params, \A k \in Keys : rows[k] # p PROVE param'[p] = param[p]
    BY <1>1, <1>3
<1>4. SeedRows(rows, values)
    BY <1>1, <1>2, <1>3 DEF SeedRows
<1>5. param' = [p \in Params |-> param'[p]]
    BY <1>1
<1>6. QED
    BY <1>4, <1>5

LEMMA SeedTyped ==
    ASSUME RulesetsTypeOK, Seed
    PROVE  RulesetsTypeOK'
<1>1. PICK rows \in [Keys -> Params], values \in [Keys -> FloorValues] : SeedRows(rows, values)
    BY SeedEffect
<1>2. ASSUME NEW p \in Params
      PROVE  /\ param'[p] \in Param \cup {None}
             /\ param'[p] # None => param'[p].ruleset = Seeded \/ param'[p] = param[p]
    <2>1. CASE \E k \in Keys : rows[k] = p
        <3>1. PICK k \in Keys : rows[k] = p
            BY <2>1
        <3>2. values[k] \in FloorValues \cup {BadValue} /\ Seeded \in Versions
            BY RulesetsAssumption
        <3>3. param'[p] = [ruleset |-> Seeded, key |-> k, value |-> values[k]]
            BY <1>1, <3>1 DEF SeedRows
        <3>4. QED
            BY <3>2, <3>3 DEF Param
    <2>2. CASE ~\E k \in Keys : rows[k] = p
        BY <1>1, <2>2 DEF SeedRows, RulesetsTypeOK
    <2>3. QED
        BY <2>1, <2>2
<1>3. param' \in [Params -> Param \cup {None}]
    BY <1>2, SeedEffect
<1>4. /\ status' = [status EXCEPT ![Seeded] = "published"]
      /\ printed' = [printed EXCEPT ![Seeded] = [p \in Params |->
             IF param'[p] # None /\ param'[p].ruleset = Seeded THEN param'[p] ELSE None]]
      /\ session' = [s \in Staff |-> IF session[s].ruleset = Seeded THEN Idle ELSE session[s]]
      /\ trusted' = trusted \cup {Seeded}
      /\ spoiled' = spoiled \cup {r \in {Seeded} : status[r] = "deleted"}
    BY DEF Seed
<1>5. \A r \in Versions : Exists(r) => Exists(r)'
    BY <1>4 DEF Exists, RulesetsTypeOK
<1>6. \A p \in Params : param[p] # None => param[p].ruleset \in Versions
    BY DEF RulesetsTypeOK, Param
<1>7. ASSUME NEW p \in Params, param'[p] # None
      PROVE  status'[param'[p].ruleset] \in {"draft", "published"}
    <2>1. CASE param'[p].ruleset = Seeded
        BY <1>4, <2>1, RulesetsAssumption DEF RulesetsTypeOK
    <2>2. CASE param'[p] = param[p]
        BY <1>5, <1>6, <1>7, <2>2 DEF RulesetsTypeOK, Exists
    <2>3. QED
        BY <1>2, <1>7, <2>1, <2>2
<1>8. printed' \in [Versions -> [Params -> Param \cup {None}] \cup {None}]
    BY <1>3, <1>4 DEF RulesetsTypeOK
<1>9. SessionTypeOK'
    BY <1>4, IdleTyped, TypesApart DEF SessionTypeOK, Editing
<1>10. trusted' \subseteq Versions /\ spoiled' \subseteq Versions
    BY <1>4, RulesetsAssumption DEF RulesetsTypeOK
<1>11. status' \in [Versions -> {"absent", "draft", "published", "deleted"}]
    BY <1>4 DEF RulesetsTypeOK
<1>12. QED
    BY <1>3, <1>7, <1>8, <1>9, <1>10, <1>11 DEF RulesetsTypeOK, SessionTypeOK, Editing, Exists

LEMMA StepTyped == RulesetsTypeOK /\ [RulesetsNext]_rulesetVars => RulesetsTypeOK'
<1> SUFFICES ASSUME RulesetsTypeOK, [RulesetsNext]_rulesetVars PROVE RulesetsTypeOK'
    OBVIOUS
<1>1. CASE UNCHANGED rulesetVars
    BY <1>1 DEF rulesetVars, RulesetsTypeOK, Editing, Exists
<1>2. CASE \E r \in Versions : CreateRuleset(r)
    BY <1>2 DEF CreateRuleset, RulesetsTypeOK, Editing, Exists
<1>3. QED
    BY <1>1, <1>2, PublishTyped, BeginTyped, WriteTyped, DeleteTyped, SeedTyped
       DEF RulesetsNext, SessionStep

\* Every variable keeps its type, and no parameter belongs to a ruleset that is not there
\* (the foreign key of RuleParameter, on_delete=CASCADE).
THEOREM RulesetsTyped == RulesetsSpec => []RulesetsTypeOK
BY InitTyped, StepTyped, PTL DEF RulesetsSpec

-----------------------------------------------------------------------------
(* What depends on the rows of one ruleset *)

RowsStay(r) ==
    \A p \in Params :
        /\ RulesetOf(p)' = r <=> RulesetOf(p) = r
        /\ RulesetOf(p) = r => param'[p] = param[p]

LEMMA RowsGiveAll ==
    ASSUME NEW r, RowsStay(r)
    PROVE  /\ Of(r)' = Of(r)
           /\ Readings(r)' = Readings(r)
           /\ ValidRuleset(r)' <=> ValidRuleset(r)
<1>1. Of(r)' = Of(r)
    BY DEF RowsStay, Of
<1>2. ASSUME NEW k \in Keys
      PROVE  {param[p].value : p \in {q \in Params : RulesetOf(q) = r /\ param[q].key = k}}' =
             {param[p].value : p \in {q \in Params : RulesetOf(q) = r /\ param[q].key = k}}
    <2>1. {q \in Params : RulesetOf(q) = r /\ param[q].key = k}' =
          {q \in Params : RulesetOf(q) = r /\ param[q].key = k}
        BY DEF RowsStay
    <2>2. \A q \in {p \in Params : RulesetOf(p) = r /\ param[p].key = k} : param'[q] = param[q]
        BY DEF RowsStay
    <2>3. QED
        BY <2>1, <2>2
<1>3. Readings(r)' = Readings(r)
    BY <1>2 DEF Readings
<1>4. NoDuplicates(r)' <=> NoDuplicates(r)
    BY DEF RowsStay, NoDuplicates
<1>5. QED
    BY <1>1, <1>3, <1>4 DEF ValidRuleset, Valid

LEMMA NothingMoves ==
    ASSUME param' = param, NEW r
    PROVE  RowsStay(r)
BY DEF RowsStay, RulesetOf

\* With one row a key, a reading is determined.
LEMMA OneReading ==
    ASSUME NEW r, NoDuplicates(r), NEW m \in Readings(r), NEW n \in Readings(r)
    PROVE  m = n
<1> DEFINE rows(k) == {q \in Params : RulesetOf(q) = r /\ param[q].key = k}
           values(k) == {param[p].value : p \in rows(k)}
<1>1. ASSUME NEW k \in Keys PROVE m[k] = n[k]
    <2>1. CASE values(k) = {}
        BY <2>1 DEF Readings
    <2>2. CASE values(k) # {}
        <3>1. m[k] \in values(k) /\ n[k] \in values(k)
            BY <2>2 DEF Readings
        <3>2. \A p, q \in rows(k) : p = q
            BY DEF NoDuplicates
        <3> HIDE DEF rows
        <3>3. QED
            BY <3>1, <3>2
    <2>3. QED
        BY <2>1, <2>2
<1>2. QED
    BY <1>1 DEF Readings

\* There is always something to read.
LEMMA SomeReading ==
    ASSUME RulesetsTypeOK, NEW r \in Versions
    PROVE  \E m : m \in Readings(r)
<1> DEFINE rows(k) == {q \in Params : RulesetOf(q) = r /\ param[q].key = k}
           values(k) == {param[p].value : p \in rows(k)}
           m == [k \in Keys |-> IF values(k) = {} THEN None ELSE CHOOSE v \in values(k) : TRUE]
<1>1. ASSUME NEW k \in Keys, NEW p \in rows(k) PROVE param[p].value \in FloorValues \cup {BadValue, None}
    BY RulesetsAssumption DEF RulesetsTypeOK, Param, RulesetOf
<1>2. ASSUME NEW k \in Keys
      PROVE  /\ m[k] \in FloorValues \cup {BadValue, None}
             /\ IF values(k) = {} THEN m[k] = None ELSE m[k] \in values(k)
    <2>1. CASE values(k) = {}
        BY <2>1
    <2>2. CASE values(k) # {}
        <3>1. (CHOOSE v \in values(k) : TRUE) \in values(k)
            BY <2>2
        <3>2. m[k] \in values(k)
            BY <2>2, <3>1
        <3>3. PICK p \in rows(k) : m[k] = param[p].value
            BY <3>2
        <3>4. QED
            BY <1>1, <2>2, <3>2, <3>3
    <2>3. QED
        BY <2>1, <2>2
<1>3. m \in [Keys -> FloorValues \cup {BadValue, None}]
    BY <1>2
<1> HIDE DEF m
<1>4. m \in Readings(r)
    BY <1>2, <1>3 DEF Readings
<1>5. QED
    BY <1>4

LEMMA ValidTyped ==
    ASSUME NEW r, NEW m \in Readings(r), Valid(m)
    PROVE  m \in [Keys -> FloorValues]
BY DEF Readings, Valid

-----------------------------------------------------------------------------
(* The guarantee *)

\* Rulesets nobody makes a guarantee of, and whose rows stay, keep theirs.
LEMMA GuaranteeStays ==
    ASSUME GuaranteeInv, RulesetsTypeOK, trusted' \subseteq trusted,
           \A r \in spoiled' : status'[r] \in {"published", "deleted"},
           \A r \in trusted' : RowsStay(r) /\ status'[r] = status[r] /\ printed'[r] = printed[r]
    PROVE  GuaranteeInv'
<1>1. ASSUME NEW r \in trusted'
      PROVE  status'[r] = "published" /\ printed'[r] = Of(r)' /\ ValidRuleset(r)'
    BY RowsGiveAll DEF GuaranteeInv, PublishedStaysPut, PublishedIsValid, ValidRuleset
<1>2. QED
    BY <1>1 DEF GuaranteeInv, SpoiledStays, PublishedStaysPut, PublishedIsValid, ValidRuleset

LEMMA DistrustSpoils ==
    ASSUME GuaranteeInv, NEW rs, Distrust(rs)
    PROVE  /\ trusted' \subseteq trusted
           /\ spoiled' \subseteq spoiled \cup trusted
           /\ trusted' \cup spoiled' \subseteq trusted \cup spoiled
           /\ \A r \in trusted' : r \notin rs
           /\ \A r \in spoiled' : status[r] \in {"published", "deleted"}
BY DEF GuaranteeInv, SpoiledStays, PublishedStaysPut, Distrust

\* Ending a request, or taking it a step further, leaves the others what they are.
LEMMA EndsSession ==
    ASSUME RulesetsTypeOK, NEW s \in Staff, Ends(s)
    PROVE  /\ ~Editing(s)' /\ ~Publishing(s)' /\ session'[s].step = "idle"
           /\ \A q \in Staff \ {s} : session'[q] = session[q]
BY DEF RulesetsTypeOK, Ends, Idle, Editing, Publishing

LEMMA GoesSession ==
    ASSUME RulesetsTypeOK, NEW s \in Staff, NEW t \in SessionSteps, Goes(s, t)
    PROVE  /\ session'[s].op = session[s].op /\ session'[s].ruleset = session[s].ruleset
           /\ session'[s].row = session[s].row /\ session'[s].alone = session[s].alone
           /\ session'[s].step = t
           /\ \A q \in Staff \ {s} : session'[q] = session[q]
BY DEF RulesetsTypeOK, Goes, Session

LEMMA AloneStays ==
    ASSUME RulesetsInv,
           \A r \in Versions : \A q \in Staff : AlonePublishing(q, r)' =>
               /\ AlonePublishing(q, r) /\ RowsStay(r)
               /\ \A s \in Staff : Touches(s, r)' => Touches(s, r)
               /\ session'[q].step \in {"check", "update"} =>
                      session[q].step \in {"check", "update"} \/ ValidRuleset(r)
    PROVE  AloneInv'
<1>1. AloneUntouched'
    BY DEF RulesetsInv, AloneInv, AloneUntouched
<1>2. AloneValidated'
    BY RowsGiveAll DEF RulesetsInv, AloneInv, AloneValidated
<1>3. QED
    BY <1>1, <1>2 DEF AloneInv

LEMMA PublishStepInv ==
    ASSUME RulesetsInv, NEW s \in Staff, ValidateParams(s) \/ CheckOriginal(s)
    PROVE  (GuaranteeInv /\ EditsInv /\ AloneInv)'
<1> USE DEF RulesetsInv
<1> DEFINE r == session[s].ruleset
<1>1. /\ UNCHANGED <<status, param, printed, trusted, spoiled>>
      /\ Publishing(s) /\ ~Editing(s) /\ r \in Versions
    BY DEF ValidateParams, CheckOriginal, Is, Publishing, Editing, RulesetsTypeOK
<1>2. \A q : RowsStay(q)
    BY <1>1, NothingMoves
<1>3. GuaranteeInv'
    BY <1>1, <1>2, GuaranteeStays DEF GuaranteeInv, SpoiledStays
<1>4. \A q \in Staff \ {s} : session'[q] = session[q]
    BY EndsSession, GoesSession DEF ValidateParams, CheckOriginal, SessionSteps
<1>5. \/ session'[s].step = "idle"
      \/ /\ session'[s].op = "publish" /\ session'[s].ruleset = r
         /\ session'[s].alone = session[s].alone
         /\ session'[s].step \in {"check", "update"}
         /\ \/ \E m \in Readings(r) : Valid(m)
            \/ session[s].step = "check"
    <2>1. CASE ValidateParams(s)
        <3>1. PICK m \in Readings(r) : IF Accepts(m) THEN Goes(s, "check") ELSE Ends(s)
            BY <2>1 DEF ValidateParams
        <3>2. session[s].op = "publish"
            BY <2>1 DEF ValidateParams, Is
        <3>3. QED
            BY <3>1, <3>2, EndsSession, GoesSession DEF SessionSteps, Accepts
    <2>2. CASE CheckOriginal(s)
        BY <2>2, EndsSession, GoesSession DEF SessionSteps, CheckOriginal, Is
    <2>3. QED
        BY <2>1, <2>2
<1>6. ~Editing(s)'
    BY <1>5 DEF Editing
<1>7. EditsInv'
    BY <1>1, <1>4, <1>5, <1>6 DEF EditsInv, SessionsKnown, EditsUnguaranteed, RowsUnguaranteed, Editing,
                           RulesetOf, Publishing
<1>8. \A q \in Staff, t \in Versions : Touches(q, t)' => Touches(q, t)
    BY <1>1, <1>4, <1>6 DEF Touches, Editing, RulesetOf
<1>9. ASSUME NEW t \in Versions, NEW q \in Staff, AlonePublishing(q, t)'
      PROVE  /\ AlonePublishing(q, t)
             /\ session'[q].step \in {"check", "update"} =>
                      session[q].step \in {"check", "update"} \/ ValidRuleset(t)
    <2>1. CASE q = s
        BY <1>1, <1>5, <1>9, <2>1, OneReading DEF AlonePublishing, Publishing, ValidRuleset
    <2>2. CASE q # s
        BY <1>4, <1>9, <2>2 DEF AlonePublishing, Publishing
    <2>3. QED
        BY <2>1, <2>2
<1>10. AloneInv'
    BY <1>2, <1>8, <1>9, AloneStays
<1>11. QED
    BY <1>3, <1>7, <1>10

LEMMA BeginPublishInv ==
    ASSUME RulesetsInv, NEW s \in Staff, NEW r \in Versions, BeginPublish(s, r)
    PROVE  (GuaranteeInv /\ EditsInv /\ AloneInv)'
<1> USE DEF RulesetsInv
<1>1. UNCHANGED <<status, param, printed, trusted, spoiled>> /\ status[r] = "draft"
    BY DEF BeginPublish
<1>2. \A q : RowsStay(q)
    BY <1>1, NothingMoves
<1>3. GuaranteeInv'
    BY <1>1, <1>2, GuaranteeStays DEF GuaranteeInv, SpoiledStays
<1>4. /\ session'[s] = [op |-> "publish", step |-> "params", ruleset |-> r, row |-> None,
                        alone |-> \A q \in Staff : ~Touches(q, r)]
      /\ \A q \in Staff \ {s} : session'[q] = session[q]
    BY DEF BeginPublish, RulesetsTypeOK
<1>5. ~Editing(s)' /\ session'[s].step = "params" /\ session'[s].ruleset = r
    BY <1>4 DEF Editing
<1>6. EditsInv'
    BY <1>1, <1>4, <1>5 DEF EditsInv, SessionsKnown, EditsUnguaranteed, RowsUnguaranteed, Editing, RulesetOf
<1>7. \A q \in Staff, t \in Versions : Touches(q, t)' => Touches(q, t)
    BY <1>1, <1>4, <1>5 DEF Touches, Editing, RulesetOf
<1>8. ASSUME NEW q \in Staff, NEW t \in Versions, AlonePublishing(q, t)', q # s
      PROVE  AlonePublishing(q, t)
    BY <1>4, <1>8 DEF AlonePublishing, Publishing
<1>9. ASSUME NEW t \in Versions, AlonePublishing(s, t)'
      PROVE  \A q \in Staff : ~Touches(q, t)
    BY <1>4, <1>9 DEF AlonePublishing
<1>10. AloneUntouched'
    BY <1>7, <1>8, <1>9 DEF AloneInv, AloneUntouched
<1>11. AloneValidated'
    BY <1>2, <1>4, <1>5, <1>8, RowsGiveAll DEF AloneInv, AloneValidated
<1>12. QED
    BY <1>3, <1>6, <1>10, <1>11 DEF AloneInv

\* A request for an edit has passed the check: the ruleset it posts is a draft.
LEMMA BeginEditInv ==
    ASSUME RulesetsInv, NEW s \in Staff, NEW r \in Versions,
           BeginChange(s, r) \/ BeginParam(s, r) \/ BeginDrop(s, r)
    PROVE  (GuaranteeInv /\ EditsInv /\ AloneInv)'
<1> USE DEF RulesetsInv
<1>1. UNCHANGED <<status, param, printed, trusted, spoiled>> /\ status[r] = "draft"
    BY DEF BeginChange, BeginParam, BeginDrop, Open
<1>2. \A q : RowsStay(q)
    BY <1>1, NothingMoves
<1>3. GuaranteeInv'
    BY <1>1, <1>2, GuaranteeStays DEF GuaranteeInv, SpoiledStays
<1>4. PICK p \in Params, o \in {"change", "param", "drop"} :
          /\ Starts(s, [op |-> o, step |-> "write", ruleset |-> r, row |-> p, alone |-> FALSE],
                    {r, RulesetOf(p)} \cap Versions)
          /\ o # "param" => RulesetOf(p) \in {None, r}
    <2>1. ASSUME NEW new, NEW rs, NEW ts, rs \cap Versions = ts \cap Versions, Starts(s, new, rs)
          PROVE  Starts(s, new, ts \cap Versions)
        <3>1. ASSUME NEW q \in Staff, Publishing(q)
              PROVE  session[q].ruleset \in rs <=> session[q].ruleset \in ts \cap Versions
            BY <2>1, <3>1 DEF Publishing, RulesetsTypeOK
        <3>2. QED
            BY <2>1, <3>1 DEF Starts
    <2>2. CASE BeginChange(s, r)
        <3>1. PICK p \in Params :
                  /\ Fresh(p) \/ RulesetOf(p) = r
                  /\ Starts(s, [op |-> "change", step |-> "write", ruleset |-> r,
                                row |-> p, alone |-> FALSE], {r})
            BY <2>2 DEF BeginChange
        <3>2. RulesetOf(p) \in {None, r} /\ {r, RulesetOf(p)} \cap Versions = {r} \cap Versions
            BY <3>1, RulesetsAssumption DEF Fresh, RulesetOf
        <3>3. QED
            BY <2>1, <3>1, <3>2
    <2>3. CASE BeginParam(s, r)
        <3>1. PICK p \in Params :
                  Starts(s, [op |-> "param", step |-> "write", ruleset |-> r,
                             row |-> p, alone |-> FALSE], {r, RulesetOf(p)})
            BY <2>3 DEF BeginParam
        <3>2. QED
            BY <2>1, <3>1
    <2>4. CASE BeginDrop(s, r)
        <3>1. PICK p \in Params :
                  /\ RulesetOf(p) = r
                  /\ Starts(s, [op |-> "drop", step |-> "write", ruleset |-> r,
                                row |-> p, alone |-> FALSE], {r})
            BY <2>4 DEF BeginDrop
        <3>2. {r, RulesetOf(p)} \cap Versions = {r} \cap Versions
            BY <3>1
        <3>3. QED
            BY <2>1, <3>1, <3>2
    <2>5. QED
        BY <2>2, <2>3, <2>4
<1>5. session'[s] = [op |-> o, step |-> "write", ruleset |-> r, row |-> p, alone |-> FALSE]
    BY <1>4 DEF Starts
<1>6. ASSUME NEW q \in Staff \ {s}
      PROVE  /\ session'[q].op = session[q].op /\ session'[q].step = session[q].step
             /\ session'[q].ruleset = session[q].ruleset /\ session'[q].row = session[q].row
             /\ session'[q].alone => session[q].alone
             /\ Publishing(q) /\ session[q].ruleset \in {r, RulesetOf(p)} \cap Versions => ~session'[q].alone
    BY <1>4, DisturbsOnlyAlone, TypesApart DEF Starts
<1>7. r \notin trusted \cup spoiled
    BY <1>1 DEF GuaranteeInv, SpoiledStays, PublishedStaysPut
<1>8. ASSUME NEW q \in Staff, Editing(q)', q # s PROVE Editing(q)
    BY <1>6, <1>8 DEF Editing
<1>9. EditsInv'
    <2>1. SessionsKnown'
        BY <1>1, <1>5, <1>6 DEF EditsInv, SessionsKnown
    <2>2. EditsUnguaranteed'
        BY <1>1, <1>5, <1>6, <1>7, <1>8 DEF EditsInv, EditsUnguaranteed
    <2>3. o # "param" => RulesetOf(p) \notin trusted
        BY <1>4, <1>7, RulesetsAssumption DEF RulesetsTypeOK
    <2>4. RowsUnguaranteed'
        BY <1>1, <1>5, <1>6, <1>8, <2>3 DEF EditsInv, RowsUnguaranteed, RulesetOf
    <2>5. QED
        BY <2>1, <2>2, <2>4 DEF EditsInv
<1>10. ASSUME NEW t \in Versions, NEW q \in Staff, AlonePublishing(q, t)'
       PROVE  /\ AlonePublishing(q, t) /\ t \notin {r, RulesetOf(p)}
              /\ session'[q].step = session[q].step
    <2>1. q # s
        BY <1>5, <1>10 DEF AlonePublishing, Publishing
    <2>2. QED
        BY <1>6, <1>10, <2>1 DEF AlonePublishing, Publishing
<1>11. ASSUME NEW t \in Versions \ {r, RulesetOf(p)}, NEW q \in Staff, Touches(q, t)'
       PROVE  Touches(q, t)
    <2>1. q # s
        BY <1>1, <1>5, <1>11 DEF Touches, RulesetOf
    <2>2. QED
        BY <1>1, <1>6, <1>8, <1>11, <2>1 DEF Touches, RulesetOf
<1>12. AloneInv'
    BY <1>2, <1>10, <1>11, AloneStays
<1>13. QED
    BY <1>3, <1>9, <1>12

LEMMA PublishInv ==
    ASSUME RulesetsInv, NEW s \in Staff, Publish(s)
    PROVE  (GuaranteeInv /\ EditsInv /\ AloneInv)'
<1> USE DEF RulesetsInv
<1> DEFINE r == session[s].ruleset
<1>1. /\ r \in Versions /\ param' = param /\ spoiled' = spoiled
      /\ Publishing(s) /\ ~Editing(s) /\ session[s].step = "update"
    BY DEF Publish, Is, Publishing, Editing, RulesetsTypeOK
<1>2. \A q : RowsStay(q)
    BY <1>1, NothingMoves
<1>3. ~Editing(s)' /\ ~Publishing(s)' /\ session'[s].step = "idle"
      /\ \A q \in Staff \ {s} : session'[q] = session[q]
    BY EndsSession DEF Publish
<1>4. AloneInv'
    BY <1>1, <1>2, <1>3, AloneStays DEF AlonePublishing, Publishing, Touches, Editing, RulesetOf
<1>5. \/ UNCHANGED <<status, printed, trusted>>
      \/ /\ status[r] = "draft"
         /\ status' = [status EXCEPT ![r] = "published"]
         /\ printed' = [printed EXCEPT ![r] = Of(r)]
         /\ trusted' = IF session[s].alone THEN trusted \cup {r} ELSE trusted
    <2>1. CASE status[r] = "draft"
        BY <2>1 DEF Publish, Exists
    <2>2. CASE status[r] = "published"
        <3>1. status' = [status EXCEPT ![r] = "published"] /\ UNCHANGED <<printed, trusted>>
            BY <2>2 DEF Publish, Exists
        <3>2. status' = status
            BY <1>1, <2>2, <3>1 DEF RulesetsTypeOK
        <3>3. QED
            BY <3>1, <3>2
    <2>3. CASE ~Exists(r)
        BY <2>3 DEF Publish
    <2>4. QED
        BY <2>1, <2>2, <2>3 DEF Exists
<1>6. CASE UNCHANGED <<status, printed, trusted>>
    <2>1. GuaranteeInv'
        BY <1>1, <1>2, <1>6, GuaranteeStays DEF GuaranteeInv, SpoiledStays
    <2>2. EditsInv'
        BY <1>1, <1>3, <1>6 DEF EditsInv, SessionsKnown, EditsUnguaranteed, RowsUnguaranteed, Editing, RulesetOf
    <2>3. QED
        BY <1>4, <2>1, <2>2
<1>7. CASE /\ status[r] = "draft"
           /\ status' = [status EXCEPT ![r] = "published"]
           /\ printed' = [printed EXCEPT ![r] = Of(r)]
           /\ trusted' = IF session[s].alone THEN trusted \cup {r} ELSE trusted
    <2>1. r \notin trusted \cup spoiled
        BY <1>7 DEF GuaranteeInv, SpoiledStays, PublishedStaysPut
    <2>2. r \in trusted' =>
              /\ ValidRuleset(r)
              /\ \A q \in Staff : ~Touches(q, r)
        <3>1. r \in trusted' => AlonePublishing(s, r)
            BY <1>1, <1>7, <2>1 DEF AlonePublishing
        <3>2. QED
            BY <1>1, <3>1 DEF AloneInv, AloneUntouched, AloneValidated
    <2> HIDE DEF r
    <2>3. \A q \in Versions \ {r} : status'[q] = status[q] /\ printed'[q] = printed[q]
        BY <1>7 DEF RulesetsTypeOK
    <2>4. status'[r] = "published" /\ printed'[r] = Of(r)
        BY <1>1, <1>7 DEF RulesetsTypeOK
    <2>5. ASSUME NEW q \in trusted'
          PROVE  status'[q] = "published" /\ printed'[q] = Of(q)' /\ ValidRuleset(q)'
        <3>1. q = r \/ q \in trusted \cap (Versions \ {r})
            BY <1>7, <2>1 DEF RulesetsTypeOK
        <3>2. Of(q)' = Of(q) /\ (ValidRuleset(q)' <=> ValidRuleset(q))
            BY <1>2, RowsGiveAll
        <3>3. CASE q = r
            <4>1. Of(q) = Of(r) /\ (ValidRuleset(q) <=> ValidRuleset(r))
                BY <3>3
            <4>2. ValidRuleset(q)'
                BY <2>2, <3>2, <3>3, <4>1
            <4>3. QED
                BY <2>4, <3>2, <3>3, <4>1, <4>2
        <3>4. CASE q \in trusted \cap (Versions \ {r})
            BY <2>3, <3>2, <3>4 DEF GuaranteeInv, PublishedStaysPut, PublishedIsValid, ValidRuleset
        <3>5. QED
            BY <3>1, <3>3, <3>4
    <2>6. GuaranteeInv'
        <3>1. SpoiledStays'
            BY <1>1, <1>7, <2>1, <2>3, <2>4 DEF GuaranteeInv, SpoiledStays, RulesetsTypeOK
        <3>2. QED
            BY <2>5, <3>1 DEF GuaranteeInv, PublishedStaysPut, PublishedIsValid, ValidRuleset
    <2>7. EditsInv'
        <3>1. SessionsKnown'
            BY <1>1, <1>3, <2>3, <2>4 DEF EditsInv, SessionsKnown, RulesetsTypeOK
        <3>2. \A q \in Staff : Editing(q)' => Editing(q) /\ session'[q] = session[q]
            BY <1>3 DEF Editing
        <3>3. EditsUnguaranteed'
            BY <1>1, <1>7, <2>2, <3>2 DEF EditsInv, EditsUnguaranteed, Touches
        <3>4. RowsUnguaranteed'
            BY <1>1, <1>7, <2>2, <3>2, RulesetsAssumption
               DEF EditsInv, RowsUnguaranteed, Touches, RulesetOf
        <3>5. QED
            BY <3>1, <3>3, <3>4 DEF EditsInv
    <2>8. QED
        BY <1>4, <2>6, <2>7
<1>8. QED
    BY <1>5, <1>6, <1>7

LEMMA CreateInv ==
    ASSUME RulesetsInv, NEW r \in Versions, CreateRuleset(r)
    PROVE  (GuaranteeInv /\ EditsInv /\ AloneInv)'
<1> USE DEF RulesetsInv
<1>1. UNCHANGED <<param, session, printed, trusted, spoiled>>
      /\ status[r] = "absent" /\ status' = [status EXCEPT ![r] = "draft"]
    BY DEF CreateRuleset
<1>2. \A q : RowsStay(q)
    BY <1>1, NothingMoves
<1>3. r \notin trusted \cup spoiled
    BY <1>1 DEF GuaranteeInv, SpoiledStays, PublishedStaysPut
<1>4. \A q \in Versions \ {r} : status'[q] = status[q]
    BY <1>1 DEF RulesetsTypeOK
<1>5. GuaranteeInv'
    BY <1>1, <1>2, <1>3, <1>4, GuaranteeStays DEF GuaranteeInv, SpoiledStays, RulesetsTypeOK
<1>6. EditsInv'
    BY <1>1 DEF EditsInv, SessionsKnown, EditsUnguaranteed, RowsUnguaranteed, Editing, RulesetOf, RulesetsTypeOK
<1>7. AloneInv'
    BY <1>1, <1>2, AloneStays DEF AlonePublishing, Publishing, Touches, Editing, RulesetOf
<1>8. QED
    BY <1>5, <1>6, <1>7

\* The write of an edit: what it changes is about rulesets nobody guarantees, or about one
\* from which the guarantee goes.
LEMMA WriteInv ==
    ASSUME RulesetsInv, NEW s \in Staff, WriteChange(s) \/ WriteParam(s) \/ WriteDrop(s)
    PROVE  (GuaranteeInv /\ EditsInv /\ AloneInv)'
<1> USE DEF RulesetsInv
<1> DEFINE r == session[s].ruleset
           p == session[s].row
<1>1. /\ Editing(s) /\ r \in Versions /\ p \in Params
      /\ status' = status \/ status' = [status EXCEPT ![r] = "draft"]
      /\ Ends(s) /\ printed' = printed
    BY WriteEffect
<1>2. ~Editing(s)' /\ ~Publishing(s)' /\ session'[s].step = "idle"
      /\ \A q \in Staff \ {s} : session'[q] = session[q]
    BY <1>1, EndsSession
<1>3. r \notin trusted \cup spoiled
    BY <1>1 DEF EditsInv, EditsUnguaranteed
<1>4. \/ UNCHANGED <<param, trusted, spoiled>>
      \/ /\ \E row \in Param \cup {None} :
                param' = [param EXCEPT ![p] = row] /\ (row # None => row.ruleset = r)
         /\ \/ Distrust(TakenFrom(p, r))
            \/ UNCHANGED <<trusted, spoiled>> /\ RulesetOf(p) \notin trusted
    <2>1. ASSUME NEW row \in EditRow(s), RowBecomes(s, row)
          PROVE  /\ row \in Param \cup {None}
                 /\ param' = [param EXCEPT ![p] = row] /\ (row # None => row.ruleset = r)
                 /\ \/ Distrust(TakenFrom(p, r))
                    \/ UNCHANGED <<trusted, spoiled>> /\ RulesetOf(p) \notin trusted
        <3>1. row \in Param \cup {None} /\ (row # None => row.ruleset = r)
            BY <1>1 DEF EditRow, Param
        <3>2. QED
            BY <1>1, <2>1, <3>1 DEF RowBecomes, EditsInv, RowsUnguaranteed
    <2>2. QED
        BY <2>1, WriteEffect
<1> HIDE DEF r, p
<1>5. \A t \in Versions \ {r} : status'[t] = status[t]
    BY <1>1 DEF RulesetsTypeOK
<1>6. ASSUME NEW q \in Params
      PROVE  \/ param'[q] = param[q]
             \/ q = p /\ RulesetOf(q)' \in {r, None}
    BY <1>1, <1>4 DEF RulesetOf, RulesetsTypeOK
<1>7. ASSUME NEW t \in Versions \ {r, RulesetOf(p)} PROVE RowsStay(t)
    BY <1>6, RulesetsAssumption DEF RowsStay, RulesetOf
<1>8. /\ trusted' \subseteq trusted
      /\ trusted' \cup spoiled' \subseteq trusted \cup spoiled
      /\ \A t \in spoiled' : status[t] \in {"published", "deleted"}
      /\ \A t \in trusted' : RowsStay(t)
    <2>1. CASE UNCHANGED <<param, trusted, spoiled>>
        BY <2>1, NothingMoves DEF GuaranteeInv, SpoiledStays
    <2>2. CASE Distrust(TakenFrom(p, r))
        <3>1. \A t \in trusted' : t \in Versions \ {r, RulesetOf(p)}
            <4>1. ASSUME NEW t \in trusted' PROVE t \notin TakenFrom(p, r) /\ t \in trusted
                BY <2>2, DistrustSpoils
            <4>2. QED
                BY <1>3, <4>1, RulesetsAssumption DEF TakenFrom, RulesetsTypeOK
        <3>2. QED
            BY <1>7, <2>2, <3>1, DistrustSpoils
    <2>3. CASE UNCHANGED <<trusted, spoiled>> /\ RulesetOf(p) \notin trusted
        BY <1>3, <1>7, <2>3 DEF GuaranteeInv, SpoiledStays, RulesetsTypeOK
    <2>4. QED
        BY <1>4, <2>1, <2>2, <2>3
<1>9. \A t \in trusted' \cup spoiled' : t \in Versions \ {r}
    BY <1>3, <1>8 DEF RulesetsTypeOK
<1>10. GuaranteeInv'
    BY <1>1, <1>5, <1>8, <1>9, GuaranteeStays
<1>11. ASSUME NEW q \in Staff, Editing(q)' PROVE Editing(q) /\ session'[q] = session[q] /\ q # s
    BY <1>2, <1>11 DEF Editing
<1>12. EditsInv'
    <2>1. SessionsKnown'
        BY <1>1, <1>2 DEF EditsInv, SessionsKnown, RulesetsTypeOK
    <2>2. EditsUnguaranteed'
        BY <1>8, <1>11 DEF EditsInv, EditsUnguaranteed
    <2>3. \A q \in Params : RulesetOf(q) \notin trusted => RulesetOf(q)' \notin trusted'
        <3>1. None \notin trusted' /\ r \notin trusted'
            BY <1>3, <1>8, RulesetsAssumption DEF RulesetsTypeOK
        <3>2. QED
            BY <1>6, <1>8, <3>1 DEF RulesetOf
    <2>4. RowsUnguaranteed'
        BY <1>11, <2>3 DEF EditsInv, RowsUnguaranteed
    <2>5. QED
        BY <2>1, <2>2, <2>4 DEF EditsInv
<1>13. ASSUME NEW t \in Versions, NEW q \in Staff, AlonePublishing(q, t)'
       PROVE  AlonePublishing(q, t) /\ t \notin {r, RulesetOf(p)} /\ session'[q] = session[q]
    <2>1. q # s /\ session'[q] = session[q] /\ AlonePublishing(q, t)
        BY <1>2, <1>13 DEF AlonePublishing, Publishing
    <2>2. ~Touches(s, t)
        BY <2>1 DEF AloneInv, AloneUntouched
    <2>3. t \notin {r, RulesetOf(p)}
        BY <1>1, <2>2, RulesetsAssumption DEF Touches, r, p
    <2>4. QED
        BY <2>1, <2>3
<1>14. ASSUME NEW t \in Versions \ {r, RulesetOf(p)}, NEW q \in Staff, Touches(q, t)'
       PROVE  Touches(q, t)
    <2>1. Editing(q) /\ session'[q] = session[q]
        BY <1>11, <1>14 DEF Touches
    <2>2. session[q].row \in Params
        BY <2>1 DEF RulesetsTypeOK
    <2>3. QED
        BY <1>7, <1>14, <2>1, <2>2 DEF Touches, RowsStay
<1>15. AloneInv'
    BY <1>7, <1>13, <1>14, AloneStays
<1>16. QED
    BY <1>10, <1>12, <1>15

\* A statement without a check, on the ruleset r, which is disturbed and distrusted.
LEMMA DeleteInv ==
    ASSUME RulesetsInv, NEW r, Distrust({r}), Disturbs({r}),
           \A t \in Versions \ {r} : status'[t] = status[t] /\ printed'[t] = printed[t] /\ RowsStay(t),
           \A p \in Params : param'[p] # param[p] => param'[p] = None,
           r \in Versions => status'[r] \in {status[r], "deleted"}
    PROVE  (GuaranteeInv /\ EditsInv /\ AloneInv)'
<1> USE DEF RulesetsInv
<1>1. /\ trusted' \subseteq trusted
      /\ trusted' \cup spoiled' \subseteq trusted \cup spoiled
      /\ \A t \in spoiled' : status[t] \in {"published", "deleted"}
      /\ \A t \in trusted' : t \in Versions \ {r}
    BY DistrustSpoils DEF RulesetsTypeOK
<1>2. spoiled' \subseteq Versions
    BY <1>1 DEF RulesetsTypeOK
<1>3. GuaranteeInv'
    <2>1. \A t \in spoiled' : status'[t] \in {"published", "deleted"}
        BY <1>1, <1>2
    <2>2. QED
        BY <1>1, <2>1, GuaranteeStays
<1>4. ASSUME NEW q \in Staff
      PROVE  /\ session'[q].op = session[q].op /\ session'[q].step = session[q].step
             /\ session'[q].ruleset = session[q].ruleset /\ session'[q].row = session[q].row
             /\ session'[q].alone => session[q].alone
             /\ Publishing(q) /\ session[q].ruleset = r => ~session'[q].alone
    BY DisturbsOnlyAlone, TypesApart DEF Disturbs
<1>5. \A q \in Staff : Editing(q)' <=> Editing(q)
    BY <1>4 DEF Editing
<1>6. EditsInv'
    <2>1. SessionsKnown'
        BY <1>4 DEF EditsInv, SessionsKnown, RulesetsTypeOK
    <2>2. EditsUnguaranteed'
        BY <1>1, <1>4, <1>5 DEF EditsInv, EditsUnguaranteed
    <2>3. \A q \in Params : RulesetOf(q) \notin trusted => RulesetOf(q)' \notin trusted'
        BY <1>1, RulesetsAssumption DEF RulesetOf, RulesetsTypeOK
    <2>4. RowsUnguaranteed'
        BY <1>4, <1>5, <2>3 DEF EditsInv, RowsUnguaranteed
    <2>5. QED
        BY <2>1, <2>2, <2>4 DEF EditsInv
<1>7. ASSUME NEW t \in Versions, NEW q \in Staff, AlonePublishing(q, t)'
       PROVE  AlonePublishing(q, t) /\ t # r /\ session'[q].step = session[q].step
    BY <1>4, <1>7 DEF AlonePublishing, Publishing
<1>8. ASSUME NEW t \in Versions \ {r}, NEW q \in Staff, Touches(q, t)'
      PROVE  Touches(q, t)
    <2>1. Editing(q) /\ session'[q].row = session[q].row /\ session'[q].ruleset = session[q].ruleset
        BY <1>4, <1>5, <1>8 DEF Touches
    <2>2. session[q].row \in Params
        BY <2>1 DEF RulesetsTypeOK
    <2>3. QED
        BY <1>8, <2>1, <2>2 DEF Touches, RowsStay
<1>9. AloneInv'
    BY <1>7, <1>8, AloneStays
<1>10. QED
    BY <1>3, <1>6, <1>9

LEMMA DeleteSelectedInv ==
    ASSUME RulesetsInv, NEW p \in Params, DeleteSelected(p)
    PROVE  (GuaranteeInv /\ EditsInv /\ AloneInv)'
<1> DEFINE r == RulesetOf(p)
<1>1. Distrust({r}) /\ Disturbs({r}) /\ UNCHANGED <<status, printed>>
      /\ param' = [param EXCEPT ![p] = None]
    BY DEF DeleteSelected
<1>2. ASSUME NEW t \in Versions \ {r} PROVE RowsStay(t)
    BY <1>1, RulesetsAssumption DEF RulesetsInv, RulesetsTypeOK, RowsStay, RulesetOf
<1>3. \A q \in Params : param'[q] # param[q] => param'[q] = None
    BY <1>1 DEF RulesetsInv, RulesetsTypeOK
<1> HIDE DEF r
<1>4. QED
    BY <1>1, <1>2, <1>3, DeleteInv

LEMMA DeleteRulesetInv ==
    ASSUME RulesetsInv, NEW r \in Versions, DeleteRuleset(r)
    PROVE  (GuaranteeInv /\ EditsInv /\ AloneInv)'
<1>1. /\ Distrust({r}) /\ Disturbs({r})
      /\ status' = [status EXCEPT ![r] = "deleted"] /\ printed' = [printed EXCEPT ![r] = None]
      /\ param' = [p \in Params |-> IF RulesetOf(p) = r THEN None ELSE param[p]]
    BY DEF DeleteRuleset, ParamsWithout
<1>2. ASSUME NEW t \in Versions \ {r} PROVE RowsStay(t)
    BY <1>1, RulesetsAssumption DEF RulesetsInv, RulesetsTypeOK, RowsStay, RulesetOf
<1>3. \A q \in Params : param'[q] # param[q] => param'[q] = None
    BY <1>1 DEF RulesetsInv, RulesetsTypeOK
<1>4. status'[r] = "deleted"
      /\ \A t \in Versions \ {r} : status'[t] = status[t] /\ printed'[t] = printed[t]
    BY <1>1 DEF RulesetsInv, RulesetsTypeOK
<1>5. QED
    BY <1>1, <1>2, <1>3, <1>4, DeleteInv

\* The seeded ruleset has one row for each key, each with a value that is accepted.
LEMMA SeedIsValid ==
    ASSUME RulesetsTypeOK, Seed
    PROVE  /\ NoDuplicates(Seeded)' /\ \A m \in Readings(Seeded)' : Valid(m)
           /\ \A r \in Versions \ {Seeded} : RowsStay(r)
           /\ \A p \in Params : Held(p) => param'[p] = param[p]
<1>1. PICK rows \in [Keys -> Params], values \in [Keys -> FloorValues] : SeedRows(rows, values)
    BY SeedEffect
<1>2. \A p \in Params : param[p] # None => param[p].ruleset # Seeded
    BY DEF Seed, RulesetsTypeOK
<1>3. ASSUME NEW p \in Params
      PROVE  \/ \E k \in Keys : /\ p = rows[k] /\ param[p] = None /\ ~Held(p)
                                /\ param'[p] = [ruleset |-> Seeded, key |-> k, value |-> values[k]]
             \/ param'[p] = param[p]
    BY <1>1 DEF SeedRows, Fresh
<1>4. ASSUME NEW k \in Keys
      PROVE  [ruleset |-> Seeded, key |-> k, value |-> values[k]] \in Param
    BY RulesetsAssumption DEF Param
<1>5. ASSUME NEW p \in Params, RulesetOf(p)' = Seeded
      PROVE  p = rows[param'[p].key] /\ param'[p].key \in Keys /\ param'[p].value \in FloorValues
    <2>1. param'[p] # None /\ param'[p].ruleset = Seeded
        BY <1>5, RulesetsAssumption DEF RulesetOf
    <2>2. PICK k \in Keys : /\ p = rows[k]
                            /\ param'[p] = [ruleset |-> Seeded, key |-> k, value |-> values[k]]
        BY <1>2, <1>3, <2>1
    <2>3. QED
        BY <2>2
<1>6. ASSUME NEW k \in Keys
      PROVE  RulesetOf(rows[k])' = Seeded /\ param'[rows[k]].key = k
    <2>1. param'[rows[k]] = [ruleset |-> Seeded, key |-> k, value |-> values[k]]
        BY <1>1 DEF SeedRows
    <2>2. param'[rows[k]] # None
        BY <1>4, <2>1, NoneAssumption
    <2>3. QED
        BY <2>1, <2>2 DEF RulesetOf
<1>7. NoDuplicates(Seeded)'
    <2> SUFFICES ASSUME NEW p \in Params, NEW q \in Params, RulesetOf(p)' = Seeded,
                        RulesetOf(q)' = Seeded, param'[p].key = param'[q].key
                 PROVE  p = q
        BY DEF NoDuplicates
    <2>1. QED
        BY <1>5
<1>8. ASSUME NEW m \in Readings(Seeded)', NEW k \in Keys PROVE m[k] \in FloorValues
    <2> DEFINE found == {q \in Params : RulesetOf(q)' = Seeded /\ param'[q].key = k}
               vals == {param'[p].value : p \in found}
    <2>1. rows[k] \in found
        BY <1>6
    <2>2. vals # {} /\ vals \subseteq FloorValues
        BY <1>5, <2>1
    <2>3. IF vals = {} THEN m[k] = None ELSE m[k] \in vals
        BY DEF Readings
    <2> HIDE DEF vals
    <2>4. QED
        BY <2>2, <2>3
<1>9. ASSUME NEW r \in Versions \ {Seeded} PROVE RowsStay(r)
    <2>1. ASSUME NEW p \in Params
          PROVE  /\ RulesetOf(p)' = r <=> RulesetOf(p) = r
                 /\ RulesetOf(p) = r => param'[p] = param[p]
        <3>1. CASE param'[p] = param[p]
            BY <3>1 DEF RulesetOf
        <3>2. CASE \E k \in Keys : p = rows[k] /\ param[p] = None
            BY <1>6, <3>2, RulesetsAssumption DEF RulesetOf
        <3>3. QED
            BY <1>3, <3>1, <3>2
    <2>2. QED
        BY <2>1 DEF RowsStay
<1>10. QED
    BY <1>3, <1>7, <1>8, <1>9 DEF Valid

LEMMA SeedInv ==
    ASSUME RulesetsInv, Seed
    PROVE  (GuaranteeInv /\ EditsInv /\ AloneInv)'
<1> USE DEF RulesetsInv
<1>1. /\ ~Exists(Seeded) /\ status' = [status EXCEPT ![Seeded] = "published"]
      /\ printed' = [printed EXCEPT ![Seeded] = [p \in Params |->
             IF param'[p] # None /\ param'[p].ruleset = Seeded THEN param'[p] ELSE None]]
      /\ session' = [s \in Staff |-> IF session[s].ruleset = Seeded THEN Idle ELSE session[s]]
      /\ trusted' = trusted \cup {Seeded}
      /\ spoiled' \subseteq spoiled \cup {Seeded}
    BY DEF Seed
<1>2. Seeded \in Versions /\ Seeded \notin trusted
    BY <1>1, RulesetsAssumption DEF GuaranteeInv, PublishedStaysPut, Exists
<1>3. /\ status'[Seeded] = "published"
      /\ printed'[Seeded] = Of(Seeded)'
      /\ \A r \in Versions \ {Seeded} : status'[r] = status[r] /\ printed'[r] = printed[r]
    BY <1>1, <1>2, RulesetsAssumption DEF RulesetsTypeOK, Of, RulesetOf
<1>4. ValidRuleset(Seeded)'
    BY SeedIsValid DEF ValidRuleset
<1>5. ASSUME NEW r \in trusted
      PROVE  status'[r] = "published" /\ printed'[r] = Of(r)' /\ ValidRuleset(r)'
    <2>1. r \in Versions \ {Seeded}
        BY <1>2 DEF RulesetsTypeOK
    <2>2. RowsStay(r)
        BY <2>1, SeedIsValid
    <2>3. QED
        BY <1>3, <2>1, <2>2, RowsGiveAll
           DEF GuaranteeInv, PublishedStaysPut, PublishedIsValid, ValidRuleset
<1>6. GuaranteeInv'
    <2>1. SpoiledStays'
        BY <1>1, <1>2, <1>3 DEF GuaranteeInv, SpoiledStays, RulesetsTypeOK
    <2>2. PublishedStaysPut'
        BY <1>1, <1>3, <1>5 DEF PublishedStaysPut
    <2>3. PublishedIsValid'
        BY <1>1, <1>4, <1>5 DEF PublishedIsValid, ValidRuleset
    <2>4. QED
        BY <2>1, <2>2, <2>3 DEF GuaranteeInv
<1>7. ASSUME NEW q \in Staff, session'[q].step # "idle"
      PROVE  /\ session'[q] = session[q] /\ session[q].ruleset \in Versions \ {Seeded}
             /\ \A p \in Params : session[q].row = p => param'[p] = param[p]
    <2>1. session'[q] = session[q] /\ session[q].ruleset \in Versions \ {Seeded}
        BY <1>1, <1>7, IdleTyped DEF RulesetsTypeOK
    <2>2. QED
        BY <1>7, <2>1, SeedIsValid DEF Held
<1>8. ASSUME NEW q \in Staff, Editing(q)', NEW p \in Params, session[q].row = p
      PROVE  RulesetOf(p)' = RulesetOf(p) /\ RulesetOf(p) # Seeded
    <2>1. param'[p] = param[p]
        BY <1>7, <1>8 DEF Editing
    <2>2. QED
        BY <1>1, <2>1, RulesetsAssumption DEF RulesetOf, RulesetsTypeOK, Exists
<1>9. EditsInv'
    <2>1. SessionsKnown'
        BY <1>1, <1>3, <1>7 DEF EditsInv, SessionsKnown
    <2>2. EditsUnguaranteed'
        BY <1>1, <1>7 DEF EditsInv, EditsUnguaranteed, Editing
    <2>3. RowsUnguaranteed'
        <3>1. ASSUME NEW q \in Staff, Editing(q)'
              PROVE  session'[q] = session[q] /\ Editing(q)
            BY <1>7, <3>1 DEF Editing
        <3>2. QED
            BY <1>1, <1>8, <3>1 DEF EditsInv, RowsUnguaranteed
    <2>4. QED
        BY <2>1, <2>2, <2>3 DEF EditsInv
<1>10. ASSUME NEW t \in Versions, NEW q \in Staff, AlonePublishing(q, t)'
       PROVE  AlonePublishing(q, t) /\ RowsStay(t) /\ session'[q].step = session[q].step
    <2>1. session'[q] = session[q] /\ session[q].ruleset # Seeded
        BY <1>7, <1>10 DEF AlonePublishing, Publishing
    <2>2. AlonePublishing(q, t) /\ t # Seeded
        BY <1>10, <2>1 DEF AlonePublishing, Publishing
    <2>3. QED
        BY <2>1, <2>2, SeedIsValid
<1>11. ASSUME NEW t \in Versions, NEW q \in Staff, Touches(q, t)'
       PROVE  Touches(q, t)
    <2>1. Editing(q)' /\ Editing(q) /\ session'[q] = session[q] /\ session[q].row \in Params
        BY <1>7, <1>11 DEF Touches, Editing, RulesetsTypeOK
    <2>2. QED
        BY <1>8, <1>11, <2>1 DEF Touches
<1>12. AloneInv'
    BY <1>10, <1>11, AloneStays
<1>13. QED
    BY <1>6, <1>9, <1>12

-----------------------------------------------------------------------------
(* The invariant of the specification *)

LEMMA InitInv == RulesetsInit => RulesetsInv
<1> SUFFICES ASSUME RulesetsInit PROVE RulesetsInv
    OBVIOUS
<1>1. \A s \in Staff : session[s].step = "idle"
    BY DEF RulesetsInit, Idle
<1>2. trusted = {} /\ spoiled = {}
    BY DEF RulesetsInit
<1>3. GuaranteeInv
    BY <1>2 DEF GuaranteeInv, SpoiledStays, PublishedStaysPut, PublishedIsValid
<1>4. EditsInv
    BY <1>1 DEF EditsInv, SessionsKnown, EditsUnguaranteed, RowsUnguaranteed, Editing
<1>5. AloneInv
    BY <1>1 DEF AloneInv, AloneUntouched, AloneValidated, AlonePublishing, Publishing
<1>6. QED
    BY <1>3, <1>4, <1>5, InitTyped DEF RulesetsInv

LEMMA StepInv == RulesetsInv /\ [RulesetsNext]_rulesetVars => RulesetsInv'
<1> SUFFICES ASSUME RulesetsInv, [RulesetsNext]_rulesetVars PROVE RulesetsInv'
    OBVIOUS
<1>1. RulesetsTypeOK'
    BY StepTyped DEF RulesetsInv
<1>2. CASE UNCHANGED rulesetVars
    <2>1. \A r : RowsStay(r)
        BY <1>2, NothingMoves DEF rulesetVars
    <2>2. GuaranteeInv'
        BY <1>2, <2>1, GuaranteeStays DEF rulesetVars, RulesetsInv, GuaranteeInv, SpoiledStays
    <2>3. EditsInv'
        BY <1>2 DEF rulesetVars, RulesetsInv, EditsInv, SessionsKnown, EditsUnguaranteed, RowsUnguaranteed,
                    Editing, RulesetOf
    <2>4. AloneInv'
        BY <1>2, <2>1, AloneStays DEF rulesetVars, AlonePublishing, Publishing, Touches, Editing, RulesetOf
    <2>5. QED
        BY <1>1, <2>2, <2>3, <2>4 DEF RulesetsInv
<1>3. CASE RulesetsNext
    <2>1. (GuaranteeInv /\ EditsInv /\ AloneInv)'
        BY <1>3, BeginPublishInv, BeginEditInv, PublishStepInv, PublishInv, WriteInv, CreateInv,
           DeleteRulesetInv, DeleteSelectedInv, SeedInv
           DEF RulesetsNext, Begins, SessionStep
    <2>2. QED
        BY <1>1, <2>1 DEF RulesetsInv
<1>4. QED
    BY <1>2, <1>3

LEMMA RulesetsInvHolds == RulesetsSpec => []RulesetsInv
BY InitInv, StepInv, PTL DEF RulesetsSpec

\* A published ruleset that nobody was editing keeps its parameters and stays published,
\* however the staff's requests interleave between the query of clean() and the write it
\* allowed (MechanicRuleSet.clean, RuleParameter.clean and delete).
THEOREM PublishedRulesetsStay == RulesetsSpec => []PublishedStaysPut
<1>1. RulesetsInv => PublishedStaysPut
    BY DEF RulesetsInv, GuaranteeInv
<1>2. QED
    BY <1>1, RulesetsInvHolds, PTL

\* ... and, with one row a key, those parameters are the ones validate_parameters accepted,
\* although publish() read them in an earlier query than the one that publishes.
THEOREM PublishedRulesetsValid == RulesetsSpec => []PublishedIsValid
<1>1. RulesetsInv => PublishedIsValid
    BY DEF RulesetsInv, GuaranteeInv
<1>2. QED
    BY <1>1, RulesetsInvHolds, PTL

-----------------------------------------------------------------------------
(* The shelf *)

\* The floors the shelf guarantees, of this state.
ShelfFloors ==
    [r \in Versions |->
        IF r \in spoiled THEN Lost
        ELSE IF r \in trusted /\ NoDuplicates(r) THEN CHOOSE m \in Readings(r) : TRUE ELSE None]

LEMMA FloorsAreFunctions ==
    /\ ShelfFloors = [r \in Versions |-> ShelfFloors[r]]
    /\ ShelfFloors' = [r \in Versions |-> ShelfFloors'[r]]
BY DEF ShelfFloors

FloorsAccepted ==
    \A r \in trusted \ spoiled : NoDuplicates(r) => ShelfFloors[r] \in [Keys -> FloorValues]

LEMMA FloorsAreGuarantees == RulesetsInv => FloorsAccepted
<1> SUFFICES ASSUME RulesetsInv, NEW r \in trusted \ spoiled, NoDuplicates(r)
             PROVE  ShelfFloors[r] \in [Keys -> FloorValues]
    BY DEF FloorsAccepted
<1>1. r \in Versions /\ r \notin spoiled
    BY DEF RulesetsInv, RulesetsTypeOK, GuaranteeInv, SpoiledStays
<1>2. (CHOOSE m \in Readings(r) : TRUE) \in Readings(r)
    BY <1>1, SomeReading DEF RulesetsInv
<1>3. Valid(CHOOSE m \in Readings(r) : TRUE)
    BY <1>2 DEF RulesetsInv, GuaranteeInv, PublishedIsValid
<1>4. QED
    BY <1>1, <1>2, <1>3, ValidTyped DEF ShelfFloors

LEMMA FloorsStay ==
    ASSUME NEW r \in Versions, r \in trusted' <=> r \in trusted, r \in spoiled' <=> r \in spoiled,
           r \in trusted => RowsStay(r)
    PROVE  ShelfFloors'[r] = ShelfFloors[r]
<1>1. CASE r \in trusted
    <2>1. Readings(r)' = Readings(r)
        BY <1>1, RowsGiveAll
    <2>2. NoDuplicates(r)' <=> NoDuplicates(r)
        BY <1>1 DEF RowsStay, NoDuplicates
    <2>3. QED
        BY <2>1, <2>2 DEF ShelfFloors
<1>2. CASE r \notin trusted
    BY <1>2 DEF ShelfFloors
<1>3. QED
    BY <1>1, <1>2

LEMMA ShelfStays ==
    ASSUME UNCHANGED <<trusted, spoiled>>, \A r \in Versions \cap trusted : RowsStay(r)
    PROVE  ShelfFloors' = ShelfFloors
<1>1. \A r \in Versions : ShelfFloors'[r] = ShelfFloors[r]
    BY FloorsStay
<1>2. QED
    BY <1>1 DEF ShelfFloors

\* A statement that distrusts a ruleset, if it was trusted, loses its guarantee.
LEMMA DistrustLoses ==
    ASSUME RulesetsInv, NEW r, Distrust({r}), \A t \in trusted \ {r} : RowsStay(t)
    PROVE  IF r \in trusted THEN r \in Versions /\ ShelfFloors' = [ShelfFloors EXCEPT ![r] = Lost]
                            ELSE ShelfFloors' = ShelfFloors
<1>1. trusted \subseteq Versions
    BY DEF RulesetsInv, RulesetsTypeOK
<1>2. CASE r \in trusted
    <2>1. ShelfFloors'[r] = Lost
        BY <1>1, <1>2 DEF Distrust, ShelfFloors
    <2>2. \A t \in Versions \ {r} : ShelfFloors'[t] = ShelfFloors[t]
        BY <1>2, FloorsStay DEF Distrust
    <2>3. QED
        BY <1>1, <1>2, <2>1, <2>2, FloorsAreFunctions
<1>3. CASE r \notin trusted
    BY <1>1, <1>3, ShelfStays DEF Distrust
<1>4. QED
    BY <1>2, <1>3

LEMMA PublishIssues ==
    ASSUME RulesetsInv, RulesetsInv', NEW s \in Staff, Publish(s)
    PROVE  Shelf!ShelfNext \/ UNCHANGED <<status, ShelfFloors>>
<1> DEFINE r == session[s].ruleset
<1>1. r \in Versions /\ param' = param /\ spoiled' = spoiled
    BY DEF Publish, Is, RulesetsInv, RulesetsTypeOK
<1>2. \A t : RowsStay(t)
    BY <1>1, NothingMoves
<1>3. CASE ~Exists(r)
    <2>1. UNCHANGED <<status, trusted>>
        BY <1>3 DEF Publish
    <2>2. QED
        BY <1>1, <1>2, <2>1, ShelfStays
<1>4. CASE status[r] = "published"
    <2>1. trusted' = trusted /\ status' = [status EXCEPT ![r] = "published"]
        BY <1>4 DEF Publish, Exists
    <2>2. status' = status
        BY <1>1, <1>4, <2>1 DEF RulesetsInv, RulesetsTypeOK
    <2>3. QED
        BY <1>1, <1>2, <2>1, <2>2, ShelfStays
<1>5. CASE status[r] = "draft"
    <2>1. /\ status' = [status EXCEPT ![r] = "published"]
          /\ trusted' = trusted \/ trusted' = trusted \cup {r}
        BY <1>5 DEF Publish, Exists
    <2>2. r \notin trusted \cup spoiled
        BY <1>5 DEF RulesetsInv, GuaranteeInv, SpoiledStays, PublishedStaysPut
    <2> HIDE DEF r
    <2>3. ShelfFloors[r] = None
        BY <1>1, <2>2 DEF ShelfFloors
    <2>4. ShelfFloors'[r] \in [Keys -> FloorValues] \cup {None}
        <3>1. \A t \in trusted' \ spoiled' :
                  NoDuplicates(t)' => ShelfFloors'[t] \in [Keys -> FloorValues]
            <4>1. FloorsAccepted'
                BY FloorsAreGuarantees, PTL
            <4>2. QED
                BY <4>1 DEF FloorsAccepted
        <3>2. \A t \in Versions \ spoiled' :
                  ~(t \in trusted' /\ NoDuplicates(t)') => ShelfFloors'[t] = None
            BY DEF ShelfFloors
        <3>3. QED
            BY <1>1, <2>2, <3>1, <3>2
    <2>5. \A t \in Versions \ {r} : ShelfFloors'[t] = ShelfFloors[t]
        BY <1>1, <1>2, <2>1, FloorsStay
    <2>6. ShelfFloors' = [ShelfFloors EXCEPT ![r] = ShelfFloors'[r]]
        BY <2>5, FloorsAreFunctions
    <2>7. Shelf!Issue(r)
        BY <1>5, <2>1, <2>3, <2>4, <2>6 DEF Shelf!Issue, Shelf!Becomes, Shelf!Guarantees, ShelfFloors
    <2>8. QED
        BY <1>1, <2>7 DEF Shelf!ShelfNext, Shelf!Issue
<1>6. QED
    BY <1>3, <1>4, <1>5 DEF Exists

\* The write of the change form takes no row from a guaranteed ruleset; that of a parameter
\* can, and then the guarantee is lost.
LEMMA WriteWithdraws ==
    ASSUME RulesetsInv, NEW s \in Staff, WriteChange(s)
    PROVE  Shelf!ShelfNext \/ UNCHANGED <<status, ShelfFloors>>
<1> DEFINE r == session[s].ruleset
           p == session[s].row
<1>1. /\ Editing(s) /\ session[s].op = "change" /\ r \in Versions /\ p \in Params
      /\ status' = [status EXCEPT ![r] = "draft"]
    BY WriteEffect DEF RulesetsInv, WriteChange, Is
<1>2. /\ r \notin trusted \cup spoiled /\ status[r] # "absent"
      /\ RulesetOf(p) \notin trusted
    BY <1>1 DEF RulesetsInv, EditsInv, SessionsKnown, EditsUnguaranteed, RowsUnguaranteed, Editing
<1>3. UNCHANGED <<trusted, spoiled>>
      /\ \/ param' = param
         \/ \E row \in Param \cup {None} :
                param' = [param EXCEPT ![p] = row] /\ (row # None => row.ruleset = r)
    <2>1. ASSUME NEW row \in EditRow(s), RowBecomes(s, row)
          PROVE  /\ row \in Param \cup {None} /\ UNCHANGED <<trusted, spoiled>>
                 /\ param' = [param EXCEPT ![p] = row] /\ (row # None => row.ruleset = r)
        BY <1>1, <1>2, <2>1 DEF EditRow, Param, RowBecomes, Distrust, TakenFrom
    <2>2. QED
        BY <2>1, WriteEffect DEF RulesetsInv
<1> HIDE DEF r, p
<1>4. ASSUME NEW t \in trusted PROVE RowsStay(t)
    <2>1. t # r /\ t # RulesetOf(p) /\ t \in Versions
        BY <1>2, <1>4 DEF RulesetsInv, RulesetsTypeOK
    <2>2. QED
        BY <1>1, <1>3, <2>1, RulesetsAssumption DEF RowsStay, RulesetOf, RulesetsInv, RulesetsTypeOK
<1>5. ShelfFloors' = ShelfFloors
    BY <1>3, <1>4, ShelfStays
<1>6. ShelfFloors[r] = None
    BY <1>1, <1>2 DEF ShelfFloors
<1>7. CASE status[r] = "draft"
    BY <1>1, <1>5, <1>7 DEF RulesetsInv, RulesetsTypeOK
<1>8. CASE status[r] = "published"
    <2>1. Shelf!Withdraw(r)
        BY <1>1, <1>5, <1>6, <1>8 DEF Shelf!Withdraw, Shelf!Becomes, ShelfFloors
    <2>2. QED
        BY <1>1, <2>1 DEF Shelf!ShelfNext, Shelf!Withdraw
<1>9. CASE status[r] = "deleted"
    <2>1. Shelf!Draft(r)
        BY <1>1, <1>5, <1>6, <1>9 DEF Shelf!Draft, Shelf!Becomes, ShelfFloors
    <2>2. QED
        BY <1>1, <2>1 DEF Shelf!ShelfNext, Shelf!Draft
<1>10. QED
    BY <1>1, <1>2, <1>7, <1>8, <1>9 DEF RulesetsInv, RulesetsTypeOK

LEMMA LoseStep ==
    ASSUME RulesetsInv, NEW r \in trusted, status' = status,
           ShelfFloors' = [ShelfFloors EXCEPT ![r] = Lost]
    PROVE  Shelf!ShelfNext
<1>1. r \in Versions /\ status[r] = "published"
    BY DEF RulesetsInv, RulesetsTypeOK, GuaranteeInv, PublishedStaysPut
<1>2. Shelf!LoseGuarantee(r)
    BY <1>1 DEF Shelf!LoseGuarantee, ShelfFloors
<1>3. QED
    BY <1>1, <1>2 DEF Shelf!ShelfNext, Shelf!LoseGuarantee

LEMMA WriteLoses ==
    ASSUME RulesetsInv, NEW s \in Staff, WriteParam(s) \/ WriteDrop(s)
    PROVE  Shelf!ShelfNext \/ UNCHANGED <<status, ShelfFloors>>
<1> DEFINE r == session[s].ruleset
           p == session[s].row
<1>1. Editing(s) /\ r \in Versions /\ p \in Params /\ status' = status
    BY WriteEffect DEF RulesetsInv, WriteParam, WriteDrop
<1>2. r \notin trusted \cup spoiled
    BY <1>1 DEF RulesetsInv, EditsInv, EditsUnguaranteed
<1>3. CASE UNCHANGED <<param, trusted, spoiled>>
    BY <1>1, <1>3, NothingMoves, ShelfStays
<1>4. ASSUME NEW row \in EditRow(s), RowBecomes(s, row)
      PROVE  Shelf!ShelfNext \/ UNCHANGED <<status, ShelfFloors>>
    <2>1. /\ param' = [param EXCEPT ![p] = row] /\ (row # None => row.ruleset = r)
          /\ \/ Distrust(TakenFrom(p, r))
             \/ UNCHANGED <<trusted, spoiled>> /\ RulesetOf(p) \notin trusted
        BY <1>1, <1>4 DEF EditRow, RowBecomes, RulesetsInv, EditsInv, RowsUnguaranteed
    <2> HIDE DEF r, p
    <2>2. ASSUME NEW t \in Versions \ {r, RulesetOf(p)} PROVE RowsStay(t)
        BY <1>1, <2>1, RulesetsAssumption DEF RowsStay, RulesetOf, RulesetsInv, RulesetsTypeOK
    <2>3. CASE RulesetOf(p) \in trusted
        <3>1. TakenFrom(p, r) = {RulesetOf(p)} /\ RulesetOf(p) \in Versions
            BY <1>2, <2>3, RulesetsAssumption DEF TakenFrom, RulesetsInv, RulesetsTypeOK
        <3>2. Distrust({RulesetOf(p)})
            BY <2>1, <2>3, <3>1
        <3>3. \A t \in trusted \ {RulesetOf(p)} : RowsStay(t)
            BY <1>2, <2>2 DEF RulesetsInv, RulesetsTypeOK
        <3>4. QED
            BY <1>1, <2>3, <3>2, <3>3, DistrustLoses, LoseStep
    <2>4. CASE RulesetOf(p) \notin trusted
        <3>1. UNCHANGED <<trusted, spoiled>>
            BY <2>1, <2>4 DEF Distrust, TakenFrom
        <3>2. \A t \in Versions \cap trusted : RowsStay(t)
            BY <1>2, <2>2, <2>4
        <3>3. QED
            BY <1>1, <3>1, <3>2, ShelfStays
    <2>5. QED
        BY <2>3, <2>4
<1>5. QED
    BY <1>3, <1>4, WriteEffect DEF RulesetsInv

LEMMA DeleteLoses ==
    ASSUME RulesetsInv, NEW p \in Params, DeleteSelected(p)
    PROVE  Shelf!ShelfNext \/ UNCHANGED <<status, ShelfFloors>>
<1> DEFINE r == RulesetOf(p)
<1>1. Distrust({r}) /\ status' = status /\ param' = [param EXCEPT ![p] = None]
    BY DEF DeleteSelected
<1>2. ASSUME NEW t \in trusted \ {r} PROVE RowsStay(t)
    BY <1>1, RulesetsAssumption DEF RulesetsInv, RulesetsTypeOK, RowsStay, RulesetOf
<1> HIDE DEF r
<1>3. QED
    BY <1>1, <1>2, DistrustLoses, LoseStep

LEMMA DeleteDiscards ==
    ASSUME RulesetsInv, NEW r \in Versions, DeleteRuleset(r)
    PROVE  Shelf!ShelfNext
<1>1. /\ Distrust({r}) /\ status' = [status EXCEPT ![r] = "deleted"]
      /\ status[r] \in {"draft", "published"}
      /\ param' = [p \in Params |-> IF RulesetOf(p) = r THEN None ELSE param[p]]
    BY DEF DeleteRuleset, ParamsWithout, Exists
<1>2. ASSUME NEW t \in trusted \ {r} PROVE RowsStay(t)
    BY <1>1, RulesetsAssumption DEF RulesetsInv, RulesetsTypeOK, RowsStay, RulesetOf
<1>3. IF r \in trusted THEN ShelfFloors' = [ShelfFloors EXCEPT ![r] = Lost]
                       ELSE ShelfFloors' = ShelfFloors
    BY <1>1, <1>2, DistrustLoses
<1>4. r \notin trusted => ShelfFloors[r] \in {None, Lost}
    BY DEF ShelfFloors
<1>5. PICK f \in {ShelfFloors[r], Lost} \ [Keys -> FloorValues] :
          ShelfFloors' = [ShelfFloors EXCEPT ![r] = f]
    <2>1. None \notin [Keys -> FloorValues] /\ Lost \notin [Keys -> FloorValues]
        BY NoneAssumption
    <2>2. CASE r \in trusted
        BY <1>3, <2>1, <2>2
    <2>3. CASE r \notin trusted
        <3>1. ShelfFloors' = [ShelfFloors EXCEPT ![r] = ShelfFloors[r]]
            BY <1>3, <2>3, FloorsAreFunctions
        <3>2. QED
            BY <1>4, <2>1, <2>3, <3>1
    <2>4. QED
        BY <2>2, <2>3
<1>6. Shelf!Discard(r)
    BY <1>1, <1>5 DEF Shelf!Discard, Shelf!Becomes, Shelf!Guarantees, ShelfFloors
<1>7. QED
    BY <1>6 DEF Shelf!ShelfNext, Shelf!Discard

LEMMA SeedOpens ==
    ASSUME RulesetsInv, RulesetsInv', Seed
    PROVE  Shelf!ShelfNext
<1>1. /\ status[Seeded] \in {"absent", "deleted"}
      /\ status' = [status EXCEPT ![Seeded] = "published"]
      /\ trusted' = trusted \cup {Seeded}
      /\ spoiled' = spoiled \cup {r \in {Seeded} : status[r] = "deleted"}
    BY RulesetsAssumption DEF Seed, Exists, RulesetsInv, RulesetsTypeOK
<1>2. Seeded \in Versions
    BY RulesetsAssumption
<1>3. ASSUME NEW t \in Versions \ {Seeded} PROVE ShelfFloors'[t] = ShelfFloors[t]
    <2>1. RowsStay(t)
        BY SeedIsValid DEF RulesetsInv
    <2>2. QED
        BY <1>1, <1>3, <2>1, FloorsStay
<1>4. ShelfFloors' = [ShelfFloors EXCEPT ![Seeded] = ShelfFloors'[Seeded]]
    BY <1>3, FloorsAreFunctions
<1>5. ASSUME status[Seeded] = "absent" PROVE ShelfFloors'[Seeded] \in [Keys -> FloorValues]
    <2>1. FloorsAccepted'
        BY FloorsAreGuarantees, PTL
    <2>2. Seeded \notin spoiled'
        BY <1>1, <1>5 DEF RulesetsInv, GuaranteeInv, SpoiledStays
    <2>3. QED
        BY <1>1, <2>1, <2>2, SeedIsValid DEF FloorsAccepted, RulesetsInv
<1>6. Shelf!Open
    <2>1. CASE status[Seeded] = "absent"
        BY <1>1, <1>4, <1>5, <2>1 DEF Shelf!Open, Shelf!Becomes, Shelf!Guarantees, ShelfFloors
    <2>2. CASE status[Seeded] = "deleted"
        <3>1. ShelfFloors'[Seeded] = Lost
            BY <1>1, <1>2, <2>2 DEF ShelfFloors
        <3>2. QED
            BY <1>1, <1>4, <2>2, <3>1 DEF Shelf!Open, Shelf!Becomes, ShelfFloors
    <2>3. QED
        BY <1>1, <2>1, <2>2
<1>7. QED
    BY <1>6 DEF Shelf!ShelfNext, Shelf!Open

LEMMA CreateDrafts ==
    ASSUME RulesetsInv, NEW r \in Versions, CreateRuleset(r)
    PROVE  Shelf!ShelfNext
<1>1. UNCHANGED <<param, trusted, spoiled>>
      /\ status[r] = "absent" /\ status' = [status EXCEPT ![r] = "draft"]
    BY DEF CreateRuleset
<1>2. ShelfFloors' = ShelfFloors
    BY <1>1, NothingMoves, ShelfStays
<1>3. Shelf!Draft(r)
    BY <1>1, <1>2 DEF Shelf!Draft, Shelf!Becomes, ShelfFloors
<1>4. QED
    BY <1>3 DEF Shelf!ShelfNext, Shelf!Draft

LEMMA ShelfStep ==
    RulesetsInv /\ RulesetsInv' /\ [RulesetsNext]_rulesetVars => [Shelf!ShelfNext]_<<status, ShelfFloors>>
<1> SUFFICES ASSUME RulesetsInv, RulesetsInv', [RulesetsNext]_rulesetVars
             PROVE  Shelf!ShelfNext \/ UNCHANGED <<status, ShelfFloors>>
    OBVIOUS
<1>1. CASE UNCHANGED <<status, param, trusted, spoiled>>
    BY <1>1, NothingMoves, ShelfStays
<1>2. ASSUME NEW s \in Staff, Begins(s) \/ ValidateParams(s) \/ CheckOriginal(s)
      PROVE  UNCHANGED <<status, param, trusted, spoiled>>
    BY <1>2 DEF Begins, BeginPublish, BeginChange, BeginParam, BeginDrop, ValidateParams, CheckOriginal
<1>3. QED
    BY <1>1, <1>2, PublishIssues, WriteWithdraws, WriteLoses, DeleteLoses, DeleteDiscards, SeedOpens,
       CreateDrafts DEF RulesetsNext, SessionStep, rulesetVars

\* To who reads rulesets, the admin screens and the seed are the shelf of RulesetShelf: an
\* issued ruleset keeps its guaranteed floors until it is deleted or loses the guarantee to
\* a statement without checks (docs/adr/0002, MechanicRuleSet, RuleParameter).
THEOREM ShelfImplemented == RulesetsSpec => ImplementsShelf
<1>1. RulesetsInit => Shelf!ShelfInit
    BY DEF RulesetsInit, Shelf!ShelfInit
<1>2. RulesetsInv /\ RulesetsInv' /\ [RulesetsNext]_rulesetVars =>
          [Shelf!ShelfNext]_<<status, [r \in Versions |->
              IF r \in spoiled THEN Lost
              ELSE IF r \in trusted /\ NoDuplicates(r) THEN CHOOSE m \in Readings(r) : TRUE ELSE None]>>
    BY ShelfStep DEF ShelfFloors
<1>3. QED
    BY RulesetsInvHolds, <1>1, <1>2, PTL
       DEF RulesetsSpec, ImplementsShelf, Shelf!ShelfSpec, Shelf!shelfVars

=============================================================================
