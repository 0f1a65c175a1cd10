---------------------------- MODULE Invitations ----------------------------
(***************************************************************************)
(* The closed beta: a link with a token opens the signup form, the form    *)
(* accepts the invited address only, and the account consumes the          *)
(* invitation (apps/accounts: models.py, middleware.py, adapter.py,        *)
(* signals.py and the invitation's admin form).                            *)
(*                                                                         *)
(* INVITATION_ONLY is on.  A request works on the copy of the session it   *)
(* loaded and saves it whole, if it changed it, when it ends; every query  *)
(* commits by itself.  The token of an invitation is its identity.         *)
(***************************************************************************)
EXTENDS Naturals

CONSTANTS
    Browsers,       \* one session each
    Requests,       \* HTTP requests; an account is named after the one that creates it
    Invitations,    \* primary keys, and so tokens, there can be
    Addresses,      \* addresses that are one to a reader of mail
    Spellings,      \* ways to write an address: upper and lower case
    MaxStaff,       \* bound on the forms the staff opens and the accounts it deletes
    None,           \* nothing there
    Left,           \* what an anonymised account has for an e-mail
    Gone            \* a deleted row; primary keys are not used twice

VARIABLES
    invitation,     \* the row of each invitation, None before it, Gone after it
    session,        \* of each browser: the token and the e-mail it stores, or None
    request,        \* what each request is doing
    account,        \* the e-mail of the account each request created, None, Left or Gone
    editor,         \* the row an admin change form has read and not yet written, or None
    staffed,        \* how often the staff has done that
    \* History, read by the properties and by no action's guard.
    opened,         \* <<browser, address>>: opened with a valid invitation for the address
    dead,           \* of each request, the tokens that were never valid since it began
    open            \* of each account, the invitations valid for its e-mail ever since

invVars == <<invitation, session, request, account, editor, staffed,
             opened, dead, open>>

Emails == Addresses \X Spellings

Invitation == [email : Emails, expired : BOOLEAN, consumer : Requests \cup {None}]
Held == [token : Invitations, email : Emails]

\* What stands for nothing is nothing else.
ASSUME InvAssumption ==
    /\ MaxStaff \in Nat
    /\ None \notin Browsers \cup Requests \cup Invitations \cup Addresses
    /\ {None, Left, Gone} \cap Emails = {}
    /\ None \notin {Left, Gone} /\ Left # Gone
    /\ {None, Gone} \cap Invitation = {}
    /\ None \notin Held
    /\ None \notin [id : Invitations, consumer : Requests \cup {None}]

Steps == {"new", "link", "revalidate", "form", "create", "find", "consume", "finish",
          "done", "failed"}

\* A request: the token of its URL, the address it posts (spelled when it is stored), its
\* copy of the session, whether it changed that copy, the e-mail of the account it created and
\* the invitation the signal found.
Request == [browser : Browsers \cup {None}, link : Invitations \cup {None},
            post : Addresses \cup {None}, step : Steps, held : Held \cup {None},
            dirty : BOOLEAN, email : Emails \cup {None}, found : Invitations \cup {None}]

Unborn == [browser |-> None, link |-> None, post |-> None,
           step |-> "new", held |-> None, dirty |-> FALSE,
           email |-> None, found |-> None]

-----------------------------------------------------------------------------
Exists(rows, i) == rows[i] \notin {None, Gone}
Pending(i) == Exists(invitation, i) /\ invitation[i].consumer = None

\* is_valid
IsValid(i) == Pending(i) /\ ~invitation[i].expired

Live(r) == account[r] \in Emails
EmailTaken(e) == \E r \in Requests : account[r] = e

\* unique_pending_invitation_per_email
UniquePending(rows) ==
    \A i, j \in Invitations :
        /\ Exists(rows, i) /\ Exists(rows, j)
        /\ rows[i].consumer = None /\ rows[j].consumer = None
        /\ rows[i].email = rows[j].email
        => i = j

InvInit ==
    /\ invitation = [i \in Invitations |-> None]
    /\ session = [b \in Browsers |-> None]
    /\ request = [r \in Requests |-> Unborn]
    /\ account = [r \in Requests |-> None]
    /\ editor = None
    /\ staffed = 0
    /\ opened = {}
    /\ dead = [r \in Requests |-> {}]
    /\ open = [r \in Requests |-> {}]

Goes(r, step) == request' = [request EXCEPT ![r].step = step]

\* A request that ends keeps nothing but the browser it came from.
Ends(r, step) ==
    request' = [request EXCEPT ![r] = [Unborn EXCEPT !.browser = request[r].browser, !.step = step]]

-----------------------------------------------------------------------------
(* A request at the signup page *)

\* SessionMiddleware loads the session; with no ?invite= the middleware goes straight on.
Begin(r, b, link, post) ==
    /\ request[r].step = "new"
    /\ request' = [request EXCEPT ![r] =
           [Unborn EXCEPT !.browser = b, !.link = link, !.post = post, !.held = session[b],
                          !.step = IF link = None THEN "revalidate" ELSE "link"]]
    /\ UNCHANGED <<invitation, session, account, editor, staffed, opened>>

\* _maybe_consume_token: a valid invitation goes into the session.
ReadLink(r) ==
    /\ request[r].step = "link"
    /\ LET i == request[r].link IN
       IF IsValid(i)
       THEN /\ request' = [request EXCEPT ![r] =
                   [@ EXCEPT !.held = [token |-> i, email |-> invitation[i].email],
                             !.dirty = TRUE, !.link = None, !.step = "revalidate"]]
            /\ opened' = opened \cup {<<request[r].browser, invitation[i].email[1]>>}
       ELSE /\ request' = [request EXCEPT ![r] = [@ EXCEPT !.link = None, !.step = "revalidate"]]
            /\ UNCHANGED opened
    /\ UNCHANGED <<invitation, session, account, editor, staffed>>

\* Variant: the token is trusted for as long as the session keeps it.
RevalidateNever(r) ==
    /\ request[r].step = "revalidate"
    /\ Goes(r, IF request[r].post = None THEN "finish" ELSE "form")
    /\ UNCHANGED <<invitation, session, account, editor, staffed, opened>>

\* _revalidate_session_token: a token that is no longer valid leaves the session.
Revalidate(r) ==
    /\ request[r].step = "revalidate"
    /\ LET held == request[r].held
           closes == held # None /\ ~IsValid(held.token)
       IN  request' = [request EXCEPT ![r] =
               [@ EXCEPT !.held = IF closes THEN None ELSE held,
                         !.dirty = request[r].dirty \/ closes,
                         !.step = IF request[r].post = None THEN "finish" ELSE "form"]]
    /\ UNCHANGED <<invitation, session, account, editor, staffed, opened>>

\* Variant: the address is compared with nothing.
FormAcceptsAny(r) == request[r].held # None

\* is_open_for_signup and clean_email.
FormAccepts(r) ==
    LET held == request[r].held IN held # None /\ request[r].post = held.email[1]

\* The signup form; allauth refuses an address that has an account, in any spelling.
CheckForm(r) ==
    /\ request[r].step = "form"
    /\ LET free == \A q \in Requests : Live(q) => account[q][1] # request[r].post
       IN  Goes(r, IF FormAccepts(r) /\ free THEN "create" ELSE "finish")
    /\ UNCHANGED <<invitation, session, account, editor, staffed, opened>>

\* The INSERT of the account, under the unique index of User.email.
CreateUser(r, e) ==
    /\ request[r].step = "create"
    /\ e[1] = request[r].post
    /\ IF EmailTaken(e)
       THEN Ends(r, "failed") /\ UNCHANGED account
       ELSE /\ request' = [request EXCEPT ![r] = [@ EXCEPT !.email = e, !.step = "find"]]
            /\ account' = [account EXCEPT ![r] = e]
    /\ UNCHANGED <<invitation, session, editor, staffed, opened>>

\* Variant: the signal looks at the invitations of the e-mail, consumed ones too.
CandidatesAll(e) == {i \in Invitations : Exists(invitation, i) /\ invitation[i].email = e}

Candidates(e) == {i \in Invitations : Pending(i) /\ invitation[i].email = e}

\* consume_invitation_on_signup, its SELECT (profile creation before it changes nothing here).
FindInvitation(r) ==
    /\ request[r].step = "find"
    /\ LET found == Candidates(request[r].email) IN
       IF found = {}
       THEN Goes(r, "finish")
       ELSE \E i \in found :
               request' = [request EXCEPT ![r] =
                   IF IsValid(i) THEN [@ EXCEPT !.found = i, !.step = "consume"]
                   ELSE [@ EXCEPT !.step = "finish"]]
    /\ UNCHANGED <<invitation, session, account, editor, staffed, opened>>

\* Variant: the UPDATE does not ask whether the invitation is still pending.
ConsumesAny(i) == Exists(invitation, i)

Consumes(i) == Pending(i)

\* ... and its UPDATE ... WHERE consumed_by IS NULL; an account deleted meanwhile breaks its
\* foreign key.
Consume(r) ==
    /\ request[r].step = "consume"
    /\ LET i == request[r].found IN
       \/ /\ Consumes(i) /\ Live(r)
          /\ invitation' = [invitation EXCEPT ![i].consumer = r]
          /\ Goes(r, "finish")
       \/ ~Consumes(i) /\ Goes(r, "finish") /\ UNCHANGED invitation
       \/ Consumes(i) /\ ~Live(r) /\ Ends(r, "failed") /\ UNCHANGED invitation
    /\ UNCHANGED <<session, account, editor, staffed, opened>>

\* _on_user_signed_up clears the session of a signup; then a changed session is saved.
Finish(r) ==
    /\ request[r].step = "finish"
    /\ LET signedUp == account[r] # None IN
       session' = [session EXCEPT ![request[r].browser] =
           IF signedUp THEN None ELSE IF request[r].dirty THEN request[r].held ELSE @]
    /\ Ends(r, "done")
    /\ UNCHANGED <<invitation, account, editor, staffed, opened>>

\* The worker dies or the database refuses a query: a 500 saves no session.
Crash(r) ==
    /\ request[r].step \notin {"new", "done", "failed"}
    /\ Ends(r, "failed")
    /\ UNCHANGED <<invitation, session, account, editor, staffed, opened>>

-----------------------------------------------------------------------------
(* The staff, the clock, and accounts that leave *)

Invite(i, e) ==
    /\ invitation[i] = None
    /\ LET rows == [invitation EXCEPT ![i] = [email |-> e, expired |-> FALSE, consumer |-> None]]
       IN  UniquePending(rows) /\ invitation' = rows
    /\ UNCHANGED <<session, request, account, editor, staffed, opened>>

Expire(i) ==
    /\ Exists(invitation, i) /\ ~invitation[i].expired
    /\ invitation' = [invitation EXCEPT ![i].expired = TRUE]
    /\ UNCHANGED <<session, request, account, editor, staffed, opened>>

\* The bound; it does not count a deletion while a form is open.
Staffs == staffed < MaxStaff /\ staffed' = staffed + 1

\* The change form reads the row ...
EditBegin(i) ==
    /\ editor = None /\ Exists(invitation, i) /\ Staffs
    /\ editor' = [id |-> i, consumer |-> invitation[i].consumer]
    /\ UNCHANGED <<invitation, session, request, account, opened>>

\* ... and saves every column of it, consumed_by as it was read; of a row deleted meanwhile
\* save() inserts it again.  The unique index or the foreign key may refuse.
EditSave(e, expired) ==
    /\ editor # None
    /\ LET c == editor.consumer
           rows == [invitation EXCEPT ![editor.id] =
                       [email |-> e, expired |-> expired, consumer |-> c]]
           saves == UniquePending(rows) /\ (c = None \/ account[c] # Gone)
       IN  invitation' = IF saves THEN rows ELSE invitation
    /\ editor' = None
    /\ UNCHANGED <<session, request, account, staffed, opened>>

DeleteInvitation(i) ==
    /\ Exists(invitation, i)
    /\ invitation' = [invitation EXCEPT ![i] = Gone]
    /\ IF editor = None THEN Staffs ELSE UNCHANGED staffed
    /\ UNCHANGED <<session, request, account, editor, opened>>

\* Variant: consumed_by keeps pointing at the account.
DeleteUserOnly(r) ==
    /\ account[r] \notin {None, Gone} /\ Staffs
    /\ account' = [account EXCEPT ![r] = Gone]
    /\ UNCHANGED <<invitation, session, request, editor, opened>>

\* The admin deletes an account: consumed_by is on_delete=SET_NULL, which the unique index
\* may refuse.
DeleteUser(r) ==
    /\ account[r] \notin {None, Gone} /\ Staffs
    /\ LET rows == [i \in Invitations |->
               IF Exists(invitation, i) /\ invitation[i].consumer = r
               THEN [invitation[i] EXCEPT !.consumer = None] ELSE invitation[i]]
       IN  UniquePending(rows) /\ invitation' = rows
    /\ account' = [account EXCEPT ![r] = Gone]
    /\ UNCHANGED <<session, request, editor, opened>>

\* delete_account anonymises the row and keeps it.
Anonymise(r) ==
    /\ Live(r) /\ request[r].step \in {"done", "failed"}
    /\ account' = [account EXCEPT ![r] = Left]
    /\ UNCHANGED <<invitation, session, request, editor, staffed, opened>>

\* History: which tokens were not valid, and which were, for an account's e-mail, and since
\* when.
Remember ==
    /\ dead' = [r \in Requests |->
           LET invalid == {i \in Invitations : ~IsValid(i)'} IN
           IF request'[r].step \in {"new", "done", "failed"} THEN {}
           ELSE IF request[r].step = "new" THEN invalid ELSE dead[r] \cap invalid]
    /\ open' = [r \in Requests |->
           LET valid == {i \in Invitations : IsValid(i)' /\ invitation'[i].email = account'[r]} IN
           IF account[r] = None THEN valid ELSE open[r] \cap valid]

Step ==
    \/ \E r \in Requests, b \in Browsers :
          \E link \in Invitations \cup {None}, post \in Addresses \cup {None} :
              Begin(r, b, link, post)
    \/ \E r \in Requests :
           \/ ReadLink(r) \/ Revalidate(r) \/ CheckForm(r)
           \/ \E e \in Emails : CreateUser(r, e)
           \/ FindInvitation(r) \/ Consume(r) \/ Finish(r) \/ Crash(r)
           \/ DeleteUser(r) \/ Anonymise(r)
    \/ \E i \in Invitations : Expire(i) \/ EditBegin(i) \/ DeleteInvitation(i)
    \/ \E i \in Invitations, e \in Emails : Invite(i, e)
    \/ \E e \in Emails, expired \in BOOLEAN : EditSave(e, expired)

InvNext == Step /\ Remember

InvSpec == InvInit /\ [][InvNext]_invVars

-----------------------------------------------------------------------------
(* Properties *)

\* The state is what the variables say; no two invitations are pending for one e-mail, no
\* two accounts have one (models.py:44, 116-123), a consumer is a row.
InvTypeOK ==
    /\ invitation \in [Invitations -> Invitation \cup {None, Gone}]
    /\ session \in [Browsers -> Held \cup {None}]
    /\ request \in [Requests -> Request]
    /\ account \in [Requests -> Emails \cup {None, Left, Gone}]
    /\ editor \in [id : Invitations, consumer : Requests \cup {None}] \cup {None}
    /\ staffed \in 0 .. MaxStaff
    /\ opened \subseteq Browsers \X Addresses
    /\ dead \in [Requests -> SUBSET Invitations]
    /\ open \in [Requests -> SUBSET Invitations]
    /\ UniquePending(invitation)
    /\ \A q, r \in Requests : Live(q) /\ account[q] = account[r] => q = r
    /\ \A i \in Invitations : Exists(invitation, i) /\ invitation[i].consumer # None
           => account[invitation[i].consumer] \notin {None, Gone}

\* Nobody gets an account without an invitation: its address was invited, and its browser
\* opened that link while the invitation was valid, whatever sessions kept or lost since.
OnlyInvited ==
    \A r \in Requests : Live(r) => <<request[r].browser, account[r][1]>> \in opened

\* A link closes: no request gets as far as creating an account with a token that was
\* consumed, expired or deleted before it began (middleware.py, _revalidate_session_token).
LateLinksAreClosed ==
    \A r \in Requests : request[r].step = "create" => request[r].held.token \notin dead[r]

\* An invitation one account consumed never passes straight to another, however two signups
\* and the admin's form interleave (signals.py, UPDATE ... WHERE consumed_by IS NULL).
NotTakenOver ==
    [][\A i \in Invitations :
          Exists(invitation, i) /\ Exists(invitation', i) /\ invitation[i].consumer # None
          => invitation'[i].consumer \in {invitation[i].consumer, None}]_invVars

\* A signup that ended leaves no invitation open that was valid for exactly the e-mail of
\* the new account all along: one link does not make two accounts.
SignupCloses ==
    \A r \in Requests : request[r].step = "done" /\ Live(r) =>
        open[r] = {}
=============================================================================
