------------------------------ MODULE Consent ------------------------------
(***************************************************************************)
(* The consent record of apps/contributions and the requests that change   *)
(* it: grant_consent and revoke_consent (contributions/services.py over    *)
(* contributions/models.py) and the part of delete_account                 *)
(* (accounts/views.py) that removes the record.                            *)
(*                                                                         *)
(* The site runs several gunicorn workers on PostgreSQL at its default     *)
(* isolation (READ COMMITTED) and in autocommit, so a request is a         *)
(* sequence of statements, each of which reads what is committed when it   *)
(* runs; one action below is one such statement with the Python code up to *)
(* the next.  A worker can be killed between any two of them (Crash).      *)
(*                                                                         *)
(* A record's dates are kept as what the code tells apart: whether         *)
(* revoked_at is set.  The primary key of a record is the request that     *)
(* inserted it.                                                            *)
(***************************************************************************)
EXTENDS FiniteSets

CONSTANTS
    Users,      \* account holders
    Requests,   \* POSTs to grant_consent_view / revoke_consent_view
    Texts,      \* values the deployed CONSENT_TEXT_VERSION takes
    NoRow       \* "the query found no row"

ASSUME NoRowAssumption ==
    NoRow \notin [pk : Requests, active : BOOLEAN, text : Texts, revoked : BOOLEAN]

VARIABLES
    consent,    \* the DataContributionConsent row of each user, or NoRow
    request,    \* each request: what it asks, how far it is, its local state
    erasure,    \* how far delete_account has gone for each user
    doomed,     \* users whose row an open delete_account transaction deleted
    \* History, read by the properties and by no action's guard.
    optedOut,   \* users whose last word was an uncontested, answered revocation
    quiet       \* users with no request in flight since their row was deleted

consentVars == <<consent, request, erasure, doomed, optedOut, quiet>>

Row == [pk : Requests, active : BOOLEAN, text : Texts, revoked : BOOLEAN]

Steps == {"waiting", "get_or_create", "was_active", "get", "save", "audit",
          "done", "failed"}

Request == [op : {"grant", "revoke"}, user : Users, text : Texts, step : Steps,
            copy : Row \cup {NoRow}, wasActive : BOOLEAN,
            \* history: requests of the same user that ran at the same time;
            \* whether this one turned an active row inactive; whether it audited
            rivals : SUBSET Requests, wrote : BOOLEAN, logged : BOOLEAN]

ErasureSteps == {"none", "begun", "cleared", "committed", "audited"}

-----------------------------------------------------------------------------
IsActive(u) == consent[u] # NoRow /\ consent[u].active

\* The in-memory consent of a request that holds none yet.
Running(r) == request[r].step \notin {"waiting", "done", "failed"}

InFlight(u) == {r \in Requests : request[r].user = u /\ Running(r)}

Erased(u) == erasure[u] \in {"committed", "audited"}

\* A revocation that overlapped no grant leaves the user opted out.
Settle(r) ==
    IF request[r].op = "revoke" /\ \A q \in request[r].rivals : request[q].op = "revoke"
    THEN optedOut \cup {request[r].user}
    ELSE optedOut

ConsentInit ==
    /\ consent = [u \in Users |-> NoRow]
    /\ request \in [Requests ->
           {[op |-> o, user |-> u, text |-> t, step |-> "waiting", copy |-> NoRow,
             wasActive |-> FALSE, rivals |-> {}, wrote |-> FALSE, logged |-> FALSE] :
               o \in {"grant", "revoke"}, u \in Users, t \in Texts}]
    /\ erasure = [u \in Users |-> "none"]
    /\ doomed = {}
    /\ optedOut = {}
    /\ quiet = {}

-----------------------------------------------------------------------------
(* Requests *)

\* What entering a view does to the request and to the history.
Enter(r) ==
    LET u == request[r].user
        op == request[r].op
    IN  /\ request[r].step = "waiting"
        /\ request' = [q \in Requests |->
               IF q = r
               THEN [request[r] EXCEPT
                       !.step = IF op = "grant" THEN "get_or_create" ELSE "was_active",
                       !.rivals = InFlight(u)]
               ELSE IF q \in InFlight(u)
                    THEN [request[q] EXCEPT !.rivals = @ \cup {r}]
                    ELSE request[q]]
        /\ optedOut' = IF op = "grant" THEN optedOut \ {u} ELSE optedOut
        /\ quiet' = IF Erased(u) THEN quiet ELSE quiet \ {u}
        /\ UNCHANGED <<consent, erasure, doomed>>

\* Variant: the session outlives the account.
BeginErased(r) == Enter(r)

\* The view is entered: login_required has just loaded an active user.
Begin(r) == ~Erased(request[r].user) /\ Enter(r)

\* grant_consent, objects.get_or_create(...): the unique (user, scope)
\* constraint makes it one step.  An active row is returned as it is.
GetOrCreate(r) ==
    LET u == request[r].user
        new == [pk |-> r, active |-> TRUE, text |-> request[r].text, revoked |-> FALSE]
    IN  /\ request[r].step = "get_or_create"
        /\ consent' = IF consent[u] = NoRow THEN [consent EXCEPT ![u] = new] ELSE consent
        /\ request' = [request EXCEPT
               ![r].copy = IF consent[u] = NoRow THEN new ELSE consent[u],
               ![r].step = IF consent[u] = NoRow \/ consent[u].active THEN "audit" ELSE "save"]
        /\ UNCHANGED <<erasure, doomed, optedOut, quiet>>

\* save() of a whole in-memory row: UPDATE by pk, INSERT when no row has that pk,
\* IntegrityError when another row holds the user's place.  It waits for the
\* transaction that is deleting the row.
CanSave(u) == u \notin doomed
Collides(r) ==
    LET u == request[r].user
    IN  consent[u] # NoRow /\ consent[u].pk # request[r].copy.pk

SaveFails(r) ==
    /\ request[r].step = "save"
    /\ CanSave(request[r].user)
    /\ Collides(r)
    /\ request' = [request EXCEPT ![r].step = "failed"]
    /\ UNCHANGED <<consent, erasure, doomed, optedOut, quiet>>

\* Variant: the old revocation date is not cleared.
GrantedRowKeepsDate(r) == [request[r].copy EXCEPT !.active = TRUE, !.text = request[r].text]

GrantedRow(r) ==
    [request[r].copy EXCEPT !.active = TRUE, !.text = request[r].text, !.revoked = FALSE]

GrantSave(r) ==
    LET u == request[r].user
    IN  /\ request[r].op = "grant"
        /\ request[r].step = "save"
        /\ CanSave(u)
        /\ ~Collides(r)
        /\ consent' = [consent EXCEPT ![u] = GrantedRow(r)]
        /\ request' = [request EXCEPT ![r].step = "audit"]
        /\ UNCHANGED <<erasure, doomed, optedOut, quiet>>

\* services.revoke_consent, was_active = filter(...).exists()
CheckActive(r) ==
    /\ request[r].step = "was_active"
    /\ request' = [request EXCEPT ![r].wasActive = IsActive(request[r].user),
                                  ![r].step = "get"]
    /\ UNCHANGED <<consent, erasure, doomed, optedOut, quiet>>

\* Variant: a second revocation of an inactive consent is audited too.
AfterGetAlwaysAudits(r) ==
    LET u == request[r].user
    IN  IF IsActive(u) THEN "save" ELSE IF consent[u] # NoRow THEN "audit" ELSE "done"

\* models.revoke_consent, objects.get(...): no row or an inactive row is left alone;
\* the service still audits an inactive one when was_active was true.
AfterGet(r) ==
    LET u == request[r].user
    IN  IF IsActive(u) THEN "save"
        ELSE IF consent[u] # NoRow /\ request[r].wasActive THEN "audit" ELSE "done"

RevokeGet(r) ==
    /\ request[r].step = "get"
    /\ request' = [request EXCEPT ![r].copy = consent[request[r].user],
                                  ![r].step = AfterGet(r)]
    /\ optedOut' = IF AfterGet(r) = "done" THEN Settle(r) ELSE optedOut
    /\ UNCHANGED <<consent, erasure, doomed, quiet>>

\* Variant: the date is set and the flag forgotten.
RevokedRowDateOnly(r) == [request[r].copy EXCEPT !.revoked = TRUE]

RevokedRow(r) == [request[r].copy EXCEPT !.active = FALSE, !.revoked = TRUE]

RevokeSave(r) ==
    LET u == request[r].user
        next == IF request[r].wasActive THEN "audit" ELSE "done"
    IN  /\ request[r].op = "revoke"
        /\ request[r].step = "save"
        /\ CanSave(u)
        /\ ~Collides(r)
        /\ consent' = [consent EXCEPT ![u] = RevokedRow(r)]
        /\ request' = [request EXCEPT ![r].step = next, ![r].wrote = IsActive(u)]
        /\ optedOut' = IF next = "done" THEN Settle(r) ELSE optedOut
        /\ UNCHANGED <<erasure, doomed, quiet>>

\* AuditEvent.log("consent_granted" / "consent_revoked"), then the response.
Audit(r) ==
    /\ request[r].step = "audit"
    /\ request' = [request EXCEPT ![r].logged = TRUE, ![r].step = "done"]
    /\ optedOut' = Settle(r)
    /\ UNCHANGED <<consent, erasure, doomed, quiet>>

\* The worker dies: what was committed stays, the rest of the request never runs.
Crash(r) ==
    /\ Running(r)
    /\ request' = [request EXCEPT ![r].step = "failed"]
    /\ UNCHANGED <<consent, erasure, doomed, optedOut, quiet>>

-----------------------------------------------------------------------------
(* delete_account: one transaction, then an audit event outside it *)

EraseBegin(u) ==
    /\ erasure[u] = "none"
    /\ erasure' = [erasure EXCEPT ![u] = "begun"]
    /\ UNCHANGED <<consent, request, doomed, optedOut, quiet>>

\* Step 4 of the transaction: delete the rows this statement sees.
EraseConsents(u) ==
    /\ erasure[u] = "begun"
    /\ erasure' = [erasure EXCEPT ![u] = "cleared"]
    /\ doomed' = IF consent[u] # NoRow THEN doomed \cup {u} ELSE doomed
    /\ quiet' = IF InFlight(u) = {} THEN quiet \cup {u} ELSE quiet
    /\ UNCHANGED <<consent, request, optedOut>>

\* Variant: the deletion waits for the user's running requests before it commits.
EraseCommitWaits(u) ==
    /\ erasure[u] = "cleared"
    /\ InFlight(u) = {}
    /\ erasure' = [erasure EXCEPT ![u] = "committed"]
    /\ consent' = IF u \in doomed THEN [consent EXCEPT ![u] = NoRow] ELSE consent
    /\ doomed' = doomed \ {u}
    /\ UNCHANGED <<request, optedOut, quiet>>

\* Step 7 and COMMIT: the user is anonymised and inactive, the deletes are visible.
EraseCommit(u) ==
    /\ erasure[u] = "cleared"
    /\ erasure' = [erasure EXCEPT ![u] = "committed"]
    /\ consent' = IF u \in doomed THEN [consent EXCEPT ![u] = NoRow] ELSE consent
    /\ doomed' = doomed \ {u}
    /\ UNCHANGED <<request, optedOut, quiet>>

EraseAudit(u) ==
    /\ erasure[u] = "committed"
    /\ erasure' = [erasure EXCEPT ![u] = "audited"]
    /\ UNCHANGED <<consent, request, doomed, optedOut, quiet>>

\* The worker dies inside the transaction: it rolls back.
EraseRollback(u) ==
    /\ erasure[u] \in {"begun", "cleared"}
    /\ erasure' = [erasure EXCEPT ![u] = "none"]
    /\ doomed' = doomed \ {u}
    /\ quiet' = quiet \ {u}
    /\ UNCHANGED <<consent, request, optedOut>>

-----------------------------------------------------------------------------
RequestStep(r) ==
    \/ GetOrCreate(r) \/ GrantSave(r) \/ SaveFails(r)
    \/ CheckActive(r) \/ RevokeGet(r) \/ RevokeSave(r)
    \/ Audit(r)

ConsentNext ==
    \/ \E r \in Requests : Begin(r) \/ RequestStep(r) \/ Crash(r)
    \/ \E u \in Users : \/ EraseBegin(u) \/ EraseConsents(u) \/ EraseCommit(u)
                        \/ EraseAudit(u) \/ EraseRollback(u)

ConsentSpec == ConsentInit /\ [][ConsentNext]_consentVars

\* A worker that is not killed runs on, and so does an open transaction; nobody has
\* to send a request.  Strong fairness: a save that waits for a row lock is queued, and
\* gets the row when the transaction holding it ends.
ConsentFairSpec ==
    /\ ConsentSpec
    /\ \A r \in Requests : SF_consentVars(RequestStep(r))
    /\ \A u \in Users : WF_consentVars(EraseConsents(u) \/ EraseCommit(u))

-----------------------------------------------------------------------------
(* Properties *)

\* Every variable has its type, and every stored row is one that clean() accepts: an
\* active consent has no revocation date, an inactive one has one.
ConsentTypeOK ==
    /\ consent \in [Users -> Row \cup {NoRow}]
    /\ \A u \in Users : consent[u] # NoRow => (consent[u].active <=> ~consent[u].revoked)
    /\ request \in [Requests -> Request]
    /\ erasure \in [Users -> ErasureSteps]
    /\ doomed \subseteq Users
    /\ optedOut \subseteq Users
    /\ quiet \subseteq Users

\* A revocation that was answered, and that no grant overlapped, holds until the user
\* asks to grant again: no stale full-row save of another request brings it back
\* (revoke_consent, grant_consent).
RevocationSticks == \A u \in optedOut : ~IsActive(u)

\* A consent request of a user who had no other request and no deletion running does
\* what its audit trail says: a revocation is audited exactly when it turned an active
\* row inactive, and a grant that is about to be audited has an active row to show
\* (services.grant_consent, services.revoke_consent).
AloneRequestIsAudited ==
    \A r \in Requests :
        request[r].rivals = {} /\ erasure[request[r].user] = "none" =>
            /\ request[r].op = "revoke" /\ request[r].step = "done" =>
                   (request[r].logged <=> request[r].wrote)
            /\ request[r].op = "grant" /\ request[r].step = "audit" =>
                   IsActive(request[r].user)

\* Once delete_account has committed for a user none of whose requests ran since its
\* delete statement, the user has no consent row, ever again (delete_account, step 4).
QuietErasureIsFinal ==
    \A u \in quiet : Erased(u) => consent[u] = NoRow

\* Every consent request that was begun is answered or dies: no request waits for ever,
\* not even one that saves a row a deletion has locked.
RequestsEnd == \A r \in Requests : Running(r) ~> ~Running(r)

\* The docstring of delete_account: it deletes the account's data, irreversibly.  (Does
\* not hold: a request that was already running saves the row again.)
ErasureIsFinal ==
    \A u \in Users : Erased(u) /\ InFlight(u) = {} => consent[u] = NoRow
=============================================================================
