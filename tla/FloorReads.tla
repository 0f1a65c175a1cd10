----------------------------- MODULE FloorReads -----------------------------
(***************************************************************************)
(* Who reads the rulesets while the staff edits them: a trade              *)
(* observation being registered alone or in a bulk upload                  *)
(* (trades/services.py) and a scenario of the IV calculator with its cache *)
(* (compute_scenario_cached, calculators/services.py), all of them through *)
(* resolve_trade_floor (mechanics/services.py).  Resolving is two queries, *)
(* the ruleset in force and then its parameters.  What the staff does is   *)
(* RulesetShelf, which Rulesets implements: of a ruleset that is not       *)
(* guaranteed a reader may find any parameters.                            *)
(*                                                                         *)
(* A registration asks for the floor of one key; for the rest it is the    *)
(* module Trades.  The calculations all have the same inputs, so the cache *)
(* has one entry for each version its key can hold.                        *)
(***************************************************************************)
EXTENDS RulesetShelf

CONSTANTS
    Readers,        \* registrations and calculations, each one after another
    BadValue,       \* a value int() refuses
    ScenarioKey,    \* the key the scenario asks for
    DefaultFloor    \* the floor of a missing parameter, in _floor_from_params

ASSUME ReadersAssumption ==
    /\ Versions \subseteq Nat /\ Seeded \in Versions /\ None # Lost
    /\ BadValue \notin FloorValues /\ None \notin FloorValues \cup Versions
    /\ ScenarioKey \in Keys
    /\ DefaultFloor \in FloorValues

VARIABLES
    window,         \* effective_from and effective_to of each ruleset against the clock
    reader,         \* each reader: what it is, how far it is, what it has read
    cache,          \* the cached result of each version in the key, or None
    lapsed          \* history: a ruleset in force was followed by an older one or none

readVars == <<window, reader, cache, lapsed>>
vars == <<shelfVars, readVars>>

Windows == {"future", "current", "past"}

\* What an observation stores or a calculation answers.  The floor is kept if its ruleset
\* was guaranteed when it was read; nothing is promised of the others.
Answer == [ruleset : Versions \cup {None}, floor : FloorValues \cup {None}]

NoAnswer == [ruleset |-> None, floor |-> None]

ReaderSteps == {"waiting", "resolve", "floor", "ruleset", "reread", "insert", "lookup",
                "again", "compute", "store", "done", "failed"}

Kinds == {"single", "bulk", "calculator"}

Reader == [kind : Kinds, key : Keys, step : ReaderSteps,
           version : Versions \cup {None},      \* the ruleset resolved first, while needed
           answer : Answer,
           began : Nat]                         \* history: InForce when it began

ASSUME AnswerAssumption == None \notin Answer

-----------------------------------------------------------------------------
Active == {r \in Versions : status[r] = "published" /\ window[r] = "current"}

\* filter(is_published, effective_from, effective_to).order_by("-version").first()
NewestActive == {r \in Active : \A q \in Active : q <= r}

InForce == IF NewestActive = {} THEN 0 ELSE CHOOSE r \in NewestActive : TRUE

\* _floor_from_params
FloorOf(m, k) == IF m[k] = None THEN DefaultFloor ELSE m[k]

\* What reading the parameters of r can find.
Readings(r) ==
    IF Guaranteed(r) THEN {floors[r]} ELSE [Keys -> FloorValues \cup {BadValue, None}]

Read(r, floor) == [ruleset |-> r, floor |-> IF Guaranteed(r) THEN floor ELSE None]

Exists(r) == status[r] \in {"draft", "published"}

Init ==
    /\ ShelfInit
    /\ window = [r \in Versions |-> "future"]
    /\ reader \in [Readers ->
           {[kind |-> "single", key |-> k, step |-> "waiting", version |-> None,
             answer |-> NoAnswer, began |-> 0] : k \in Keys}]
    /\ cache = [r \in Versions |-> None]
    /\ lapsed = FALSE

ToStep(x, step) == reader' = [reader EXCEPT ![x].step = step]

-----------------------------------------------------------------------------
(* Reading *)

\* A request, of any kind; what the one before it left is forgotten here, but not by the
\* cache.
Start(x) ==
    /\ reader[x].step \in {"waiting", "done", "failed"}
    /\ \E c \in Kinds : \E k \in IF c = "calculator" THEN {ScenarioKey} ELSE Keys :
           reader' = [reader EXCEPT ![x] =
               [kind |-> c, key |-> k, step |-> "resolve", version |-> None,
                answer |-> NoAnswer, began |-> InForce]]
    /\ UNCHANGED cache

\* resolve_trade_floor, its first query.  Without a ruleset in force a calculation fails;
\* a registration goes on without ruleset or floor.
Resolve(x) ==
    /\ reader[x].step = "resolve"
    /\ IF NewestActive # {}
       THEN \E r \in NewestActive :
                reader' = [reader EXCEPT ![x].version = r, ![x].step = "floor"]
       ELSE ToStep(x, CASE reader[x].kind = "calculator" -> "failed"
                        [] reader[x].kind = "bulk"       -> "insert"
                        [] reader[x].kind = "single"     -> "ruleset")
    /\ UNCHANGED cache

\* ... and its second.  A value that int() refuses fails the request.  A calculation only
\* wants the version, for its cache key.
ReadFloor(x) ==
    LET r == reader[x].version
        k == reader[x].key
    IN  /\ reader[x].step = "floor"
        /\ \E m \in Readings(r) :
               IF FloorOf(m, k) = BadValue THEN ToStep(x, "failed")
               ELSE reader' = [reader EXCEPT
                   ![x].version = IF reader[x].kind = "calculator" THEN @ ELSE None,
                   ![x].answer = IF reader[x].kind = "calculator" THEN @
                                 ELSE Read(r, FloorOf(m, k)),
                   ![x].step = CASE reader[x].kind = "calculator" -> "lookup"
                                 [] reader[x].kind = "bulk"       -> "insert"
                                 [] reader[x].kind = "single"     -> "ruleset"]
        /\ UNCHANGED cache

\* register_observation without a resolved floor resolves a second time, for the ruleset.
ResolveAgain(x) ==
    /\ reader[x].step = "ruleset"
    /\ \E r \in IF NewestActive = {} THEN {None} ELSE NewestActive :
           reader' = [reader EXCEPT ![x].answer.ruleset = r,
                                  ![x].step = IF r = None THEN "insert" ELSE "reread"]
    /\ UNCHANGED cache

\* ... whose parameters are read too, for a floor that only matters if int() refuses it.
ReadFloorAgain(x) ==
    /\ reader[x].step = "reread"
    /\ \E m \in Readings(reader[x].answer.ruleset) :
           ToStep(x, IF FloorOf(m, reader[x].key) = BadValue THEN "failed" ELSE "insert")
    /\ UNCHANGED cache

\* The INSERT; its ruleset must be there (foreign key), or, more than the code allows, one
\* of its version seeded anew.
InsertObservation(x) ==
    /\ reader[x].step = "insert"
    /\ LET r == reader[x].answer.ruleset
       IN  ToStep(x, IF r = None \/ Exists(r) THEN "done" ELSE "failed")
    /\ UNCHANGED cache

-----------------------------------------------------------------------------
(* compute_scenario_cached *)

\* Variant: the key holds no version.
KeyWithoutVersion(x) == CHOOSE r \in Versions : TRUE

CacheKey(x) == reader[x].version

Lookup(x) ==
    /\ reader[x].step = "lookup"
    /\ reader' = IF cache[CacheKey(x)] # None
                 THEN [reader EXCEPT ![x].answer = cache[CacheKey(x)], ![x].step = "done",
                                      ![x].version = None]
                 ELSE [reader EXCEPT ![x].step = "again"]
    /\ UNCHANGED cache

\* compute_scenario resolves again, ruleset and floor.
Recompute(x) ==
    /\ reader[x].step = "again"
    /\ IF NewestActive = {} THEN ToStep(x, "failed")
       ELSE \E r \in NewestActive :
                reader' = [reader EXCEPT ![x].answer.ruleset = r, ![x].step = "compute"]
    /\ UNCHANGED cache

\* Variant: the result states the version of the cache key.
StatedFromKey(x) == reader[x].version

Stated(x) == reader[x].answer.ruleset

Compute(x) ==
    LET k == reader[x].key
    IN  /\ reader[x].step = "compute"
        /\ \E m \in Readings(reader[x].answer.ruleset) :
               IF FloorOf(m, k) = BadValue THEN ToStep(x, "failed")
               ELSE reader' = [reader EXCEPT ![x].answer = Read(Stated(x), FloorOf(m, k)),
                                             ![x].step = "store"]
        /\ UNCHANGED cache

Store(x) ==
    /\ reader[x].step = "store"
    /\ cache' = [cache EXCEPT ![CacheKey(x)] = reader[x].answer]
    /\ reader' = [reader EXCEPT ![x].step = "done", ![x].version = None]

\* CALC_CACHE_TIMEOUT
Expire(r) ==
    /\ cache[r] # None
    /\ cache' = [cache EXCEPT ![r] = None]
    /\ UNCHANGED reader

-----------------------------------------------------------------------------
(* The rulesets meanwhile *)

\* on_delete=SET_NULL of an observation's ruleset.
ForgetDeleted ==
    reader' = [x \in Readers |->
        IF /\ reader[x].kind # "calculator" /\ reader[x].step = "done"
           /\ reader[x].answer.ruleset # None /\ status'[reader[x].answer.ruleset] = "deleted"
        THEN [reader[x] EXCEPT !.answer.ruleset = None] ELSE reader[x]]

\* The seeded ruleset is in force at once.
StaffNext ==
    /\ ShelfNext
    /\ ForgetDeleted
    /\ window' = [r \in Versions |->
           IF status[r] \in {"absent", "deleted"} /\ status'[r] = "published" THEN "current"
           ELSE window[r]]
    /\ UNCHANGED cache

\* Time passes, or the dates of a draft are edited.
Retime(r) ==
    /\ \/ /\ status[r] = "published"
          /\ \/ window[r] = "future"  /\ window' = [window EXCEPT ![r] = "current"]
             \/ window[r] = "current" /\ window' = [window EXCEPT ![r] = "past"]
       \/ /\ status[r] = "draft"
          /\ \E w \in Windows : window' = [window EXCEPT ![r] = w]
    /\ UNCHANGED <<shelfVars, reader, cache>>

ReadStep(x) ==
    \/ Resolve(x) \/ ReadFloor(x) \/ ResolveAgain(x) \/ ReadFloorAgain(x)
    \/ InsertObservation(x)
    \/ Lookup(x) \/ Recompute(x) \/ Compute(x) \/ Store(x)

Next ==
    /\ \/ StaffNext
       \/ \E r \in Versions : Retime(r)
       \/ /\ \/ \E x \in Readers : Start(x) \/ ReadStep(x)
             \/ \E r \in Versions : Expire(r)
          /\ UNCHANGED <<shelfVars, window>>
    /\ lapsed' = (lapsed \/ InForce' < InForce)

Spec == Init /\ [][Next]_vars

-----------------------------------------------------------------------------
(* Properties *)

\* Every variable has its type.
TypeOK ==
    /\ ShelfTypeOK
    /\ window \in [Versions -> Windows]
    /\ reader \in [Readers -> Reader]
    /\ cache \in [Versions -> Answer \cup {None}]
    /\ lapsed \in BOOLEAN

\* An answer's floor is the one its ruleset has now, and had when it was read.
Reproduces(a, k) ==
    a.floor # None /\ a.ruleset # None /\ Guaranteed(a.ruleset) =>
        FloorOf(floors[a.ruleset], k) = a.floor

\* ADR-0002: a past result can be computed again.  The floor a bulk registration stored
\* its state by, and the one a calculation answered or cached with, is what
\* floor_for_ruleset reads today from the ruleset that went with it; a stored observation
\* names a ruleset that is there, although it may go while the floor is read.
FloorsReproduce ==
    /\ \A x \in Readers :
           reader[x].kind # "calculator" /\ reader[x].step = "done"
               /\ reader[x].answer.ruleset # None => Exists(reader[x].answer.ruleset)
    /\ \A x \in Readers :
           reader[x].kind # "single" /\ reader[x].step = "done" =>
               Reproduces(reader[x].answer, reader[x].key)
    /\ \A r \in Versions : cache[r] # None => Reproduces(cache[r], ScenarioKey)

\* While no ruleset has lapsed, nobody is answered with an older one than was in force
\* when they asked, cached or not (compute_scenario_cached, register_observation).
AnswersAreCurrent ==
    \A x \in Readers :
        ~lapsed /\ reader[x].step = "done" /\ reader[x].answer.ruleset # None =>
            reader[x].answer.ruleset >= reader[x].began
=============================================================================
