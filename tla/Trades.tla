------------------------------- MODULE Trades -------------------------------
(***************************************************************************)
(* How one user's trade observations are registered and moderated          *)
(* (apps/trades/services.py): register_observation, bulk_create_           *)
(* observations under bulk_add and import_csv, mark_observation.           *)
(*                                                                         *)
(* A single registration is a SELECT and an INSERT in autocommit; a bulk   *)
(* one is the same for each row, inside one transaction.  The unique index *)
(* on (owner, dedup_hash) makes an INSERT wait for a transaction that has  *)
(* inserted the same key and not ended; PostgreSQL ends a deadlock by      *)
(* aborting one of its transactions.  A key stands for a dedup hash, which *)
(* carries the owner: users do not meet here.                              *)
(*                                                                         *)
(* A state is kept as what the index and the queries tell apart: "live"    *)
(* is any of draft, valid, suspicious and excluded.                        *)
(***************************************************************************)
EXTENDS Naturals, FiniteSets, Sequences

CONSTANTS
    Uploads,        \* POSTs to observation_create, bulk_add and csv_import
    Keys,           \* the dedup hashes of acceptable rows
    BadRow,         \* a row register_observation raises ValueError for
    MaxRows,        \* rows of an upload, at most
    NoObs           \* "no such observation"

ASSUME TradesAssumption ==
    /\ MaxRows \in Nat \ {0}
    /\ BadRow \notin Keys

VARIABLES
    table,          \* each observation there is, committed or not
    upload,         \* each upload: its rows, how far it is, what it answers
    dropped         \* history: keys an observation of which was marked deleted

tradeVars == <<table, upload, dropped>>

\* The primary key of an observation: the upload and the row that inserted it.
Ids == Uploads \X (1 .. MaxRows)

States == {"live", "duplicate", "deleted"}

Observation == [key : Keys, state : States, committed : BOOLEAN]

ASSUME NoObsAssumption ==
    NoObs \notin Observation /\ NoObs \notin Ids /\ NoObs \notin [key : Keys, state : States]

Outcomes == {"answered", "rejected", "collided", "deadlocked", "killed"}

UploadSteps == {"waiting", "lookup", "insert", "recheck", "commit"} \cup Outcomes

RowLists == UNION {[1 .. n -> Keys \cup {BadRow}] : n \in 1 .. MaxRows}

\* What was reported of a row: the observation, and whether it is new.
Report == [id : Ids, new : BOOLEAN]

Upload == [bulk : BOOLEAN, rows : RowLists, step : UploadSteps, report : Seq(Report),
           \* history: the uploads answered before this one began
           after : SUBSET Uploads]

-----------------------------------------------------------------------------
Running(u) == upload[u].step \in {"lookup", "insert", "recheck", "commit"}

\* The row in hand.
At(u) == Len(upload[u].report) + 1
Key(u) == upload[u].rows[At(u)]

There(i) == table[i] # NoObs
Mine(u) == {i \in Ids : i[1] = u /\ There(i)}

\* Variant: a statement sees what is not committed.
SeesUncommitted(u, i) == There(i)

\* What a statement of u sees.
Sees(u, i) == There(i) /\ (table[i].committed \/ i[1] = u)

\* Whether i is in the partial unique index under the key k.
Holds(i, k) == There(i) /\ table[i].key = k /\ table[i].state = "live"

\* What becomes of the table when the transaction of u rolls back.
RolledBack(u) ==
    [i \in Ids |-> IF i \in Mine(u) /\ ~table[i].committed THEN NoObs ELSE table[i]]

TradesInit ==
    /\ table = [i \in Ids |-> NoObs]
    /\ upload \in [Uploads ->
           {[bulk |-> b, rows |-> l, step |-> "waiting", report |-> <<>>, after |-> {}] :
               b \in BOOLEAN, l \in RowLists}]
    /\ \A u \in Uploads : upload[u].bulk \/ Len(upload[u].rows) = 1
    /\ dropped = {}

-----------------------------------------------------------------------------
(* Registration *)

Begin(u) ==
    /\ upload[u].step = "waiting"
    /\ upload' = [upload EXCEPT
           ![u].step = "lookup",
           ![u].after = {v \in Uploads : upload[v].step = "answered"}]
    /\ UNCHANGED <<table, dropped>>

\* The row is done; so is the upload after the last one, a bulk one once it commits.
Reported(u, i, new) ==
    upload' = [upload EXCEPT
        ![u].report = Append(@, [id |-> i, new |-> new]),
        ![u].step = IF At(u) < Len(upload[u].rows) THEN "lookup"
                    ELSE IF upload[u].bulk THEN "commit" ELSE "answered"]

\* The upload ends without an answer; its open transaction rolls back.
Ends(u, outcome) ==
    /\ upload' = [upload EXCEPT ![u].step = outcome]
    /\ table' = RolledBack(u)
    /\ UNCHANGED dropped

\* ValueError for the row in hand, before any statement.
Reject(u) ==
    /\ upload[u].step = "lookup"
    /\ Key(u) = BadRow
    /\ Ends(u, "rejected")

\* Variant: an observation marked duplicate is not an observation of the key any more.
FoundLive(u) == {i \in Ids : Sees(u, i) /\ Holds(i, Key(u))}

\* filter(owner, dedup_hash).exclude(state="deleted"), of which first() takes one.
Found(u) == {i \in Ids : Sees(u, i) /\ table[i].key = Key(u) /\ table[i].state # "deleted"}

Lookup(u) ==
    /\ upload[u].step = "lookup"
    /\ Key(u) # BadRow
    /\ \/ \E i \in Found(u) : Reported(u, i, FALSE)
       \/ /\ Found(u) = {}
          /\ upload' = [upload EXCEPT ![u].step = "insert"]
    /\ UNCHANGED <<table, dropped>>

\* Variant: no unique index.
ConflictsNever(u) == {}

\* The observations an INSERT of the row in hand meets in the unique index.
Conflicts(u) == {i \in Ids : Holds(i, Key(u))}

\* The uploads whose transactions it waits for.
WaitsFor(u) ==
    IF upload[u].step = "insert"
    THEN {i[1] : i \in {j \in Conflicts(u) : ~table[j].committed}} \ {u} ELSE {}

Insert(u) ==
    /\ upload[u].step = "insert"
    /\ Conflicts(u) = {}
    /\ table' = [table EXCEPT ![<<u, At(u)>>] =
           [key |-> Key(u), state |-> "live", committed |-> ~upload[u].bulk]]
    /\ Reported(u, <<u, At(u)>>, TRUE)
    /\ UNCHANGED dropped

\* IntegrityError: a single registration looks again; inside the transaction of a bulk
\* one that query raises TransactionManagementError, and all of it rolls back.
Collide(u) ==
    /\ upload[u].step = "insert"
    /\ Conflicts(u) # {} /\ WaitsFor(u) = {}
    /\ IF upload[u].bulk THEN Ends(u, "collided")
       ELSE /\ upload' = [upload EXCEPT ![u].step = "recheck"]
            /\ UNCHANGED <<table, dropped>>

\* The second look of a single registration; with nothing found the error is raised.
Recheck(u) ==
    /\ upload[u].step = "recheck"
    /\ \/ \E i \in Found(u) : Reported(u, i, FALSE)
       \/ /\ Found(u) = {}
          /\ upload' = [upload EXCEPT ![u].step = "collided"]
    /\ UNCHANGED <<table, dropped>>

Commit(u) ==
    /\ upload[u].step = "commit"
    /\ upload' = [upload EXCEPT ![u].step = "answered"]
    /\ table' = [i \in Ids |-> IF i \in Mine(u) THEN [table[i] EXCEPT !.committed = TRUE]
                                                ELSE table[i]]
    /\ UNCHANGED dropped

\* u waits in a circle of transactions.
Deadlocked(u) ==
    \E circle \in SUBSET Uploads :
        /\ u \in circle
        /\ \A v \in circle : \E w \in circle : w \in WaitsFor(v)
        /\ \A w \in circle : \E v \in circle : w \in WaitsFor(v)

AbortDeadlock(u) == Deadlocked(u) /\ Ends(u, "deadlocked")

\* Variant: no transaction around a bulk upload, whose rows stay when it dies.
KillKeepsRows(u) ==
    /\ Running(u)
    /\ upload' = [upload EXCEPT ![u].step = "killed"]
    /\ table' = [i \in Ids |-> IF i \in Mine(u) THEN [table[i] EXCEPT !.committed = TRUE]
                                                ELSE table[i]]
    /\ UNCHANGED dropped

\* Variant: the transaction of a dead worker stays open.
KillLeavesOpen(u) ==
    /\ Running(u)
    /\ upload' = [upload EXCEPT ![u].step = "killed"]
    /\ UNCHANGED <<table, dropped>>

\* The worker dies.
Kill(u) == Running(u) /\ Ends(u, "killed")

-----------------------------------------------------------------------------
(* mark_observation: one UPDATE of the state.  The state it read before goes to *)
(* its audit event only, which is not modelled.                                *)

\* Others in the unique index under the key of i.
Rivals(i) == {j \in Ids \ {i} : Holds(j, table[i].key)}

\* An UPDATE to live waits for, or fails on, another that holds the key: without effect.
MarkObservation(i, to) ==
    /\ There(i) /\ table[i].committed
    /\ to = "live" => Rivals(i) = {}
    /\ table' = [table EXCEPT ![i].state = to]
    /\ dropped' = IF to = "deleted" THEN dropped \cup {table[i].key} ELSE dropped
    /\ UNCHANGED upload

-----------------------------------------------------------------------------
UploadStep(u) ==
    \/ Lookup(u) \/ Reject(u) \/ Insert(u) \/ Collide(u) \/ Recheck(u) \/ Commit(u)
    \/ AbortDeadlock(u)

TradesNext ==
    \/ \E u \in Uploads : Begin(u) \/ UploadStep(u) \/ Kill(u)
    \/ \E i \in Ids, to \in States : MarkObservation(i, to)

TradesSpec == TradesInit /\ [][TradesNext]_tradeVars

\* A worker that is not killed runs on and the database ends deadlocks; nobody has to
\* upload or moderate anything.
TradesFairSpec == TradesSpec /\ \A u \in Uploads : WF_tradeVars(UploadStep(u))

-----------------------------------------------------------------------------
(* Properties *)

\* Types, and whose rows can be uncommitted: those of a bulk upload that is running.
TradesTypeOK ==
    /\ table \in [Ids -> Observation \cup {NoObs}]
    /\ upload \in [Uploads -> Upload]
    /\ dropped \subseteq Keys
    /\ \A u \in Uploads : Len(upload[u].report) <= Len(upload[u].rows)
    /\ \A i \in Ids : There(i) /\ ~table[i].committed => upload[i[1]].bulk /\ Running(i[1])

\* What an upload answers is true: it reports every row, each one names a committed
\* observation of that row's trade, and it is new exactly when this upload inserted it
\* (register_observation, bulk_create_observations, import_csv).
AnswersAreTrue ==
    \A u \in Uploads : upload[u].step = "answered" =>
        /\ Len(upload[u].report) = Len(upload[u].rows)
        /\ \A n \in 1 .. Len(upload[u].rows) :
               LET r == upload[u].report[n]
               IN  /\ There(r.id) /\ table[r.id].committed
                   /\ table[r.id].key = upload[u].rows[n]
                   /\ r.new <=> r.id = <<u, n>>

\* A bulk upload that did not answer left nothing behind (bulk_create_observations).
AllOrNothing ==
    \A u \in Uploads : upload[u].bulk /\ upload[u].step \in Outcomes \ {"answered"} => Mine(u) = {}

\* Importing again what an answered upload imported adds nothing, unless an observation
\* of the trade was marked deleted (the day granularity of _compute_dedup_hash is there
\* "para poder re-importar el mismo CSV sin duplicar observaciones").
ReimportAddsNothing ==
    \A u \in Uploads : \A v \in upload[u].after : \A n \in 1 .. Len(upload[u].report) :
        upload[u].rows[n] \notin dropped
            /\ (\E k \in 1 .. Len(upload[v].rows) : upload[v].rows[k] = upload[u].rows[n])
        => ~upload[u].report[n].new

\* Seen from outside, the observations are the log ObservationLog promises: no trade
\* counts twice, and an upload appears at once.
Log == INSTANCE ObservationLog WITH
    entry <- [i \in Ids |-> IF There(i) /\ table[i].committed
                            THEN [key |-> table[i].key, state |-> table[i].state] ELSE NoObs]

ImplementsLog == Log!LogSpec

\* Every upload that began ends: none waits for ever for the rows of another.
UploadsEnd == \A u \in Uploads : Running(u) ~> ~Running(u)

\* A row of a bulk upload that is a duplicate is counted as one, it does not fail the upload
\* (import_csv: "duplicates: int observaciones omitidas por dedup"; docs/plan.md: dedup_skipped).
\* (Does not hold when the same trade was committed since the look-up, as by a single
\* registration: the query of the handler for IntegrityError runs inside the transaction that
\* the error broke, and the upload is lost.)
DuplicatesAreReported == \A u \in Uploads : upload[u].bulk => upload[u].step # "collided"
=============================================================================
