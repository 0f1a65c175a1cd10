--------------------------- MODULE Contributions ---------------------------
(***************************************************************************)
(* The community dataset end to end: the consent requests and account      *)
(* deletions of Consent, the observations, and the builds of Datasets,     *)
(* whose two selecting queries (build_dataset_version,                     *)
(* contributions/services.py) read the first two.  The queries run in one  *)
(* transaction at READ COMMITTED, so each sees what is committed when it   *)
(* starts: anything may happen between them.                               *)
(*                                                                         *)
(* The anonymized rows of a version are the observations they were made    *)
(* from, an identity the published rows no longer carry.                   *)
(***************************************************************************)
EXTENDS Consent, Datasets

CONSTANT Owner          \* the user of each observation

ASSUME OwnerAssumption == Owner \in [Observations -> Users]

VARIABLES
    observation,    \* state and contribution_optin of each TradeObservation
    doomedObs,      \* observations an open delete_account transaction deleted
    reading         \* each build: what its first query returned

userVars == <<consentVars, observation, doomedObs>>
buildVars == <<datasetVars, reading>>
vars == <<userVars, buildVars>>

\* "incoming": the request is authenticated, the row not inserted yet; "excluded":
\* every state but valid; "gone": deleted with its account.
ObservationStates == {"absent", "incoming", "valid", "excluded", "gone"}

\* The owners found, with the history of the moment: who was opted out, who was erased.
Reading == [begun : BOOLEAN, owners : SUBSET Users,
            optedOut : SUBSET Users, erased : SUBSET Users]

Init ==
    /\ ConsentInit
    /\ DatasetsInit
    /\ observation = [o \in Observations |-> [state |-> "absent", optin |-> FALSE]]
    /\ doomedObs = {}
    /\ reading = [b \in Builds |->
           [begun |-> FALSE, owners |-> {}, optedOut |-> {}, erased |-> {}]]

-----------------------------------------------------------------------------
(* Observations: what register_observation and mark_observation do to the   *)
(* fields a build reads (trades/services.py, trades/views.py)               *)

Live(o) == observation[o].state \in {"valid", "excluded"}

\* observation_create: an active user, and the profile's default_contribution_optin.
RegisterBegin(o) ==
    /\ observation[o].state = "absent"
    /\ ~Erased(Owner[o])
    /\ \E optin \in BOOLEAN :
           observation' = [observation EXCEPT ![o] = [state |-> "incoming", optin |-> optin]]
    /\ UNCHANGED <<consentVars, doomedObs>>

\* The INSERT of register_observation, whatever happened to the account meanwhile.
RegisterInsert(o) ==
    /\ observation[o].state = "incoming"
    /\ \E s \in {"valid", "excluded"} : observation' = [observation EXCEPT ![o].state = s]
    /\ UNCHANGED <<consentVars, doomedObs>>

\* mark_observation, by a moderator, of a row no open transaction is deleting.
MarkObservation(o) ==
    /\ Live(o) /\ o \notin doomedObs
    /\ \E s \in {"valid", "excluded"} : observation' = [observation EXCEPT ![o].state = s]
    /\ UNCHANGED <<consentVars, doomedObs>>

-----------------------------------------------------------------------------
(* delete_account, with the observations it deletes *)

\* Step 1 of the transaction deletes the observations it sees.
EraseObservations(u) ==
    /\ EraseBegin(u)
    /\ doomedObs' = doomedObs \cup {o \in Observations : Owner[o] = u /\ Live(o)}
    /\ UNCHANGED observation

EraseAccount(u) ==
    /\ EraseCommit(u)
    /\ observation' = [o \in Observations |->
           IF o \in doomedObs /\ Owner[o] = u
           THEN [observation[o] EXCEPT !.state = "gone"] ELSE observation[o]]
    /\ doomedObs' = {o \in doomedObs : Owner[o] # u}

AbandonErasure(u) ==
    /\ EraseRollback(u)
    /\ doomedObs' = {o \in doomedObs : Owner[o] # u}
    /\ UNCHANGED observation

-----------------------------------------------------------------------------
(* The two queries of a build *)

\* Variant: is_active is not part of the filter.
ConsentingEver(text) == {u \in Users : consent[u] # NoRow /\ consent[u].text = text}

\* filter(scope, is_active, consent_text_version) over DataContributionConsent.
Consenting(text) == {u \in Users : IsActive(u) /\ consent[u].text = text}

ReadConsents(b) ==
    /\ build[b].step = "idle" /\ ~reading[b].begun
    /\ reading' = [reading EXCEPT ![b] =
           [begun |-> TRUE, owners |-> Consenting(build[b].text), optedOut |-> optedOut,
            erased |-> {u \in quiet : Erased(u)}]]
    /\ UNCHANGED <<userVars, datasetVars>>

\* Variant: the owner is not part of the filter.
EligibleAnyOwner(o, owners) == observation[o].state = "valid" /\ observation[o].optin

\* filter(state="valid", contribution_optin=True, owner_id__in=...).
Eligible(o, owners) ==
    observation[o].state = "valid" /\ observation[o].optin /\ Owner[o] \in owners

\* Variant: the observations are read before the consents.
ReadObservationsFirst(b) ==
    /\ Select(b, {o \in Observations : Eligible(o, Users)})
    /\ UNCHANGED <<userVars, reading>>

\* Variant: the lazy query runs again when the version is created.
ReadObservationsTwice(b) ==
    /\ reading[b].begun /\ build[b].step \in {"idle", "locked"}
    /\ build' = [build EXCEPT
           ![b].step = IF @ = "idle" THEN "selected" ELSE @,
           ![b].rows = {o \in Observations : Eligible(o, reading[b].owners)}]
    /\ UNCHANGED <<userVars, reading, version, form, pruned>>

ReadObservations(b) ==
    /\ reading[b].begun
    /\ Select(b, {o \in Observations : Eligible(o, reading[b].owners)})
    /\ UNCHANGED <<userVars, reading>>

-----------------------------------------------------------------------------
UserNext ==
    \/ /\ \/ \E r \in Requests : Begin(r) \/ RequestStep(r) \/ Crash(r)
          \/ \E u \in Users : EraseConsents(u) \/ EraseAudit(u)
       /\ UNCHANGED <<observation, doomedObs>>
    \/ \E u \in Users : EraseObservations(u) \/ EraseAccount(u) \/ AbandonErasure(u)
    \/ \E o \in Observations : RegisterBegin(o) \/ RegisterInsert(o) \/ MarkObservation(o)

BuildNext ==
    \E b \in Builds :
        \/ ReadConsents(b)
        \/ ReadObservations(b)
        \/ (BuildStep(b) \/ KillBuild(b) \/ StaffStep(b))
           /\ UNCHANGED <<userVars, reading>>

Next == (UserNext /\ UNCHANGED buildVars) \/ BuildNext

Spec == Init /\ [][Next]_vars

-----------------------------------------------------------------------------
(* Properties *)

\* Types, and the order of a build's queries: the observations a build holds were read
\* after the consents; a row an open transaction has deleted is still there for others.
TypeOK ==
    /\ ConsentTypeOK
    /\ DatasetsTypeOK
    /\ observation \in [Observations -> [state : ObservationStates, optin : BOOLEAN]]
    /\ doomedObs \subseteq Observations
    /\ \A o \in doomedObs : Live(o)
    /\ reading \in [Builds -> Reading]
    /\ \A b \in Builds : build[b].step # "idle" => reading[b].begun

\* ADR-0005: revoking excludes the user from future builds.  No version holds an
\* observation of a user who, when the build began, had had an uncontested revocation
\* answered and had not asked to grant again (build_dataset_version).
RevocationExcludes ==
    \A b \in Stored : \A o \in version[b].rows : Owner[o] \notin reading[b].optedOut

\* No version holds an observation of a user whose account deletion had committed when
\* the build began, with none of their consent requests running (delete_account).
ErasedStaysOut ==
    \A b \in Stored : \A o \in version[b].rows : Owner[o] \notin reading[b].erased

\* Whatever the users do meanwhile, the versions behave as Datasets says, so what is
\* shown of it holds here too.
ImplementsDatasets == DatasetsSpec
=============================================================================
