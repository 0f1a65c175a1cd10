------------------------------ MODULE Datasets ------------------------------
(***************************************************************************)
(* The versions of the community dataset: how concurrent runs of           *)
(* build_dataset_version number and store them, mark_dataset_suspicious    *)
(* (contributions/services.py), the immutability of DatasetVersion         *)
(* (contributions/models.py) and its admin screens.                        *)
(*                                                                         *)
(* A build is one transaction at READ COMMITTED: each query sees what is   *)
(* committed when it starts, and select_for_update locks one row until the *)
(* transaction ends.  A version is identified by the build that inserted   *)
(* it (its primary key).  What its queries select is any set of            *)
(* Observations here; Contributions says which.  The audit event of a      *)
(* build is written in its transaction, so it exists exactly when the      *)
(* build is "done"; the one of a moderation is not modelled.               *)
(***************************************************************************)
EXTENDS Naturals, FiniteSets

CONSTANTS
    Observations,   \* trades a user may register, and a version be made of
    BuildTexts,     \* consent texts a build can ask for
    Builds,         \* runs of the build_dataset command
    MinSample,      \* criteria["min_sample"]
    HandStatuses,   \* publication_status values the staff sets by hand
    NoVersion       \* "no such DatasetVersion"

Statuses == {"draft", "public", "quarantined", "retracted"}

ASSUME ObservationsAssumption == IsFiniteSet(Observations)
ASSUME MinSampleAssumption == MinSample \in Nat
ASSUME HandStatusesAssumption == HandStatuses \subseteq Statuses

VARIABLES
    build,          \* each build: how far it is and what its queries returned
    version,        \* the DatasetVersion each build stored, or NoVersion
    form,           \* the version a change form is about to write, and how, or NoVersion
    pruned          \* history: the staff deleted a version

datasetVars == <<build, version, form, pruned>>

BuildSteps == {"idle", "selected", "locking", "locked", "done", "failed"}

Build == [step : BuildSteps, text : BuildTexts, rows : SUBSET Observations,
          seen : SUBSET Builds, latest : Builds \cup {NoVersion}]

Version == [number : Nat, rows : SUBSET Observations, text : BuildTexts, public : BOOLEAN,
            status : Statuses, byHand : BOOLEAN]

Form == [of : Builds, row : Version]

ASSUME NoVersionAssumption == NoVersion \notin Builds \cup Version \cup Form

Stored == {b \in Builds : version[b] # NoVersion}
Numbers == {version[b].number : b \in Stored}
InTransaction(b) == build[b].step \in {"selected", "locking", "locked"}
Locked(c) == \E b \in Builds : build[b].step = "locked" /\ build[b].latest = c

DatasetsInit ==
    /\ build \in [Builds ->
           {[step |-> "idle", text |-> t, rows |-> {}, seen |-> {}, latest |-> NoVersion] :
               t \in BuildTexts}]
    /\ version = [b \in Builds |-> NoVersion]
    /\ form = NoVersion
    /\ pruned = FALSE

-----------------------------------------------------------------------------
(* build_dataset_version *)

\* The transaction opens and its first two queries return `rows`.
Select(b, rows) ==
    /\ build[b].step = "idle"
    /\ build' = [build EXCEPT ![b].step = "selected", ![b].rows = rows]
    /\ UNCHANGED <<version, form, pruned>>

\* select_for_update().order_by("-number").first(): its snapshot holds these versions...
QueryLatest(b) ==
    /\ build[b].step = "selected"
    /\ build' = [build EXCEPT ![b].step = "locking", ![b].seen = Stored]
    /\ UNCHANGED <<version, form, pruned>>

IsHighest(c, bs) == c \in bs /\ \A d \in bs : version[d].number <= version[c].number

\* Variant: the lock is a session's, and a finished build still holds it.
LockNeverHeld(c) == \A b \in Builds : build[b].latest # c

LockFree(c) == ~Locked(c)

\* ... of which the highest still there is locked, once nobody else holds it; with none
\* there, nothing is locked.
LockLatest(b) ==
    LET there == build[b].seen \cap Stored
    IN  /\ build[b].step = "locking"
        /\ \E c \in there \cup {NoVersion} :
               /\ IF c = NoVersion THEN there = {} ELSE IsHighest(c, there) /\ LockFree(c)
               /\ build' = [build EXCEPT ![b].step = "locked", ![b].latest = c]
        /\ UNCHANGED <<version, form, pruned>>

NextNumber(b) ==
    IF build[b].latest = NoVersion THEN 1 ELSE version[build[b].latest].number + 1

\* Variant: number is not unique.
NumberTakenNever(b) == FALSE

NumberTaken(b) == NextNumber(b) \in Numbers

MeetsMinSample(rows) == Cardinality(rows) >= MinSample

Built(b) ==
    [number |-> NextNumber(b), rows |-> build[b].rows, text |-> build[b].text,
     public |-> MeetsMinSample(build[b].rows),
     status |-> IF MeetsMinSample(build[b].rows) THEN "public" ELSE "draft",
     byHand |-> FALSE]

\* create(...), the audit event and COMMIT.  An insert of a number that another open
\* transaction has inserted waits for it, so the three are one step.
CommitVersion(b) ==
    /\ build[b].step = "locked"
    /\ ~NumberTaken(b)
    /\ version' = [version EXCEPT ![b] = Built(b)]
    /\ build' = [build EXCEPT ![b].step = "done"]
    /\ UNCHANGED <<form, pruned>>

\* The number is taken (IntegrityError): the transaction rolls back.
CollideVersion(b) ==
    /\ build[b].step = "locked"
    /\ NumberTaken(b)
    /\ build' = [build EXCEPT ![b].step = "failed"]
    /\ UNCHANGED <<version, form, pruned>>

\* Variant: no transaction around the build, killed before its audit event.
KillBuildUnaudited(b) ==
    /\ build[b].step = "locked"
    /\ ~NumberTaken(b)
    /\ version' = [version EXCEPT ![b] = Built(b)]
    /\ build' = [build EXCEPT ![b].step = "failed"]
    /\ UNCHANGED <<form, pruned>>

\* The command is killed: the transaction rolls back and its lock is gone.
KillBuild(b) ==
    /\ InTransaction(b)
    /\ build' = [build EXCEPT ![b].step = "failed"]
    /\ UNCHANGED <<version, form, pruned>>

-----------------------------------------------------------------------------
(* Moderation and the admin: an UPDATE or DELETE waits for the row's lock *)

\* Variant: is_public is not among the saved fields.
HiddenStaysPublic(v) == [v EXCEPT !.status = "quarantined"]

Hidden(v) == [v EXCEPT !.status = "quarantined", !.public = FALSE]

MarkSuspicious(b) ==
    /\ b \in Stored
    /\ ~Locked(b)
    /\ version' = [version EXCEPT ![b] = Hidden(@)]
    /\ UNCHANGED <<build, form, pruned>>

\* Variant: clean() compares the checksum, which the form never changes.
SameChecksum(b, rows, text) == TRUE

\* DatasetVersion.clean(): a built version only takes changes of its flags.
MetaOnly(b, rows, text) == rows = version[b].rows /\ text = version[b].text

\* The change form posts every field but number, built_at, checksum and row_count, and
\* clean() compares them with the row there is.  There is one form at a time.
AdminEdit(b) ==
    /\ b \in Stored /\ form = NoVersion
    /\ \E rows \in SUBSET Observations, text \in BuildTexts, public \in BOOLEAN, s \in HandStatuses :
           /\ MetaOnly(b, rows, text)
           /\ form' = [of |-> b,
                       row |-> [version[b] EXCEPT !.rows = rows, !.text = text,
                                                  !.public = public, !.status = s,
                                                  !.byHand = TRUE]]
    /\ UNCHANGED <<build, version, pruned>>

\* The row is in no snapshot taken before it was inserted anew.
Unseen(b) == [c \in Builds |-> [build[c] EXCEPT !.seen = @ \ {b}]]

\* save() then writes all of it, as it was loaded: an UPDATE or, of a version deleted since,
\* an INSERT; or nothing, if the number was taken meanwhile or the worker dies.
AdminSave(b) ==
    /\ form # NoVersion /\ form.of = b
    /\ ~Locked(b)
    /\ \/ /\ b \in Stored
          /\ version' = [version EXCEPT ![b] = form.row]
          /\ UNCHANGED build
       \/ /\ b \notin Stored /\ form.row.number \notin Numbers
          /\ version' = [version EXCEPT ![b] = form.row]
          /\ build' = Unseen(b)
       \/ UNCHANGED <<build, version>>
    /\ form' = NoVersion
    /\ UNCHANGED pruned

AdminDelete(b) ==
    /\ b \in Stored
    /\ ~Locked(b)
    /\ version' = [version EXCEPT ![b] = NoVersion]
    /\ pruned' = TRUE
    /\ UNCHANGED <<build, form>>

-----------------------------------------------------------------------------
BuildStep(b) == QueryLatest(b) \/ LockLatest(b) \/ CommitVersion(b) \/ CollideVersion(b)

StaffStep(b) == MarkSuspicious(b) \/ AdminEdit(b) \/ AdminSave(b) \/ AdminDelete(b)

DatasetsNext ==
    \E b \in Builds :
        \/ \E rows \in SUBSET Observations : Select(b, rows)
        \/ BuildStep(b) \/ KillBuild(b) \/ StaffStep(b)

DatasetsSpec == DatasetsInit /\ [][DatasetsNext]_datasetVars

\* A command that is not killed runs its queries to the end; nobody has to start one.
DatasetsFairSpec == DatasetsSpec /\ \A b \in Builds : WF_datasetVars(BuildStep(b))

-----------------------------------------------------------------------------
(* Properties *)

\* Types, and what ties the parts of a state together: only a build that finished, its
\* audit event written, has stored a version, or one a change form can hold, and the row a
\* build has locked is there (the transaction of build_dataset_version).
DatasetsTypeOK ==
    /\ build \in [Builds -> Build]
    /\ version \in [Builds -> Version \cup {NoVersion}]
    /\ form \in Form \cup {NoVersion}
    /\ pruned \in BOOLEAN
    /\ \A b \in Stored : build[b].step = "done"
    /\ form # NoVersion => build[form.of].step = "done"
    /\ \A b \in Builds : build[b].step = "locked" => build[b].latest \in Stored \cup {NoVersion}

\* Two versions never share a number, and until the staff deletes one the numbers are
\* 1, 2, ... without a gap, whatever builds run at once (build_dataset_version; the
\* number is "incremental global", docs/domain-model.md).
NumbersFollow ==
    /\ \A b, c \in Stored : version[b].number = version[c].number => b = c
    /\ \A b \in Stored : version[b].number > 0
    /\ ~pruned => \A b \in Stored : \A n \in 1 .. version[b].number : n \in Numbers

\* The version the community page shows: the highest public one (community_dashboard).
Shown(b) ==
    /\ b \in Stored /\ version[b].public
    /\ \A c \in Stored : version[c].public => version[c].number <= version[b].number

\* The page shows only versions with the minimum sample (its docstring), and none that
\* was marked suspicious, unless the staff made that version public by hand, be it with a
\* form that was loaded before the mark.
PageMeetsThreshold ==
    \A b \in Builds : Shown(b) /\ ~version[b].byHand =>
        Cardinality(version[b].rows) >= MinSample /\ version[b].status = "public"

\* The versions are the ledger their readers are promised: what a version holds never
\* changes, whatever moderation and the admin do to its flags, and a deletion undone by a form
\* brings back the same.
Ledger == INSTANCE DatasetLedger WITH
    Contents <- [rows : SUBSET Observations, text : BuildTexts],
    ledger <- {[number |-> version[b].number,
                content |-> [rows |-> version[b].rows, text |-> version[b].text]] : b \in Stored},
    withdrawn <- pruned

ImplementsLedger == Ledger!LedgerSpec

\* A build that has begun ends, with a version or with a rolled-back transaction: it
\* waits for the lock of another build at most until that one ends.
BuildsEnd == \A b \in Builds : InTransaction(b) ~> ~InTransaction(b)
=============================================================================
