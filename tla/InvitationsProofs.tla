------------------------- MODULE InvitationsProofs -------------------------
(***************************************************************************)
(* What the closed beta promises, for any number of browsers, requests,    *)
(* invitations and addresses: the invited get in and nobody else, a link   *)
(* that closed stays closed to later requests, a signup that ends closes   *)
(* its invitation, and a consumed invitation is not taken over.            *)
(***************************************************************************)
EXTENDS Invitations, TLAPS

-----------------------------------------------------------------------------
(* The inductive invariant *)

\* The types alone.
Shape ==
    /\ invitation \in [Invitations -> Invitation \cup {None, Gone}]
    /\ session \in [Browsers -> Held \cup {None}]
    /\ request \in [Requests -> Request]
    /\ account \in [Requests -> Emails \cup {None, Left, Gone}]
    /\ editor \in [id : Invitations, consumer : Requests \cup {None}] \cup {None}
    /\ staffed \in 0 .. MaxStaff
    /\ opened \subseteq Browsers \X Addresses
    /\ dead \in [Requests -> SUBSET Invitations]
    /\ open \in [Requests -> SUBSET Invitations]

\* A request holds what its step needs.
StepsHold ==
    \A r \in Requests :
        /\ request[r].step # "new" => request[r].browser \in Browsers
        /\ request[r].step = "link" => request[r].link \in Invitations
        /\ request[r].step \in {"form", "create"} => request[r].post \in Addresses
        /\ request[r].step = "create" => request[r].held \in Held
        /\ request[r].step \in {"find", "consume"} => request[r].email \in Emails
        /\ request[r].step = "consume" => request[r].found \in Invitations

UniqueAccounts == \A q, r \in Requests : Live(q) /\ account[q] = account[r] => q = r

ConsumersExist ==
    \A i \in Invitations : Exists(invitation, i) /\ invitation[i].consumer # None
        => account[invitation[i].consumer] \notin {None, Gone}

\* The address of every copy of a session was opened by its browser.
SessionsOpened ==
    /\ \A b \in Browsers : session[b] # None => <<b, session[b].email[1]>> \in opened
    /\ \A r \in Requests :
          /\ request[r].held # None => <<request[r].browser, request[r].held.email[1]>> \in opened
          /\ request[r].step = "create" => <<request[r].browser, request[r].post>> \in opened

\* A request past the revalidation holds no token that was dead when it began.
FormsAreFresh ==
    \A r \in Requests : request[r].step \in {"form", "create"} /\ request[r].held # None
        => request[r].held.token \notin dead[r]

\* What a live account leaves open is valid for its e-mail, is the invitation the signal
\* found if it found one, and nothing once the signal has run.
OpenShrinks ==
    \A r \in Requests :
        /\ \A i \in open[r] : IsValid(i) /\ invitation[i].email = account[r] /\ Live(r)
        /\ request[r].step \in {"find", "consume"} /\ Live(r) => account[r] = request[r].email
        /\ request[r].step = "consume" => open[r] \subseteq {request[r].found}
        /\ request[r].step \in {"finish", "done"} => open[r] = {}

\* Before it gets there a request has no account.
AccountsComeLater ==
    \A r \in Requests :
        request[r].step \in {"new", "link", "revalidate", "form", "create"} => account[r] = None

\* What the change form has read is still so, or its save is refused.
EditorHolds ==
    editor # None /\ editor.consumer # None =>
        LET c == editor.consumer IN
        /\ account[c] # None
        /\ invitation[editor.id] # None
        /\ Exists(invitation, editor.id)
              => invitation[editor.id].consumer = c \/ account[c] = Gone

InvInv ==
    /\ Shape /\ StepsHold /\ UniquePending(invitation) /\ UniqueAccounts /\ ConsumersExist
    /\ SessionsOpened /\ OnlyInvited /\ FormsAreFresh /\ OpenShrinks /\ AccountsComeLater
    /\ EditorHolds

-----------------------------------------------------------------------------
(* The history *)

\* The history has the types Shape says.
LEMMA RememberTypes ==
    ASSUME dead \in [Requests -> SUBSET Invitations], open \in [Requests -> SUBSET Invitations],
           Remember
    PROVE  dead' \in [Requests -> SUBSET Invitations] /\ open' \in [Requests -> SUBSET Invitations]
<1>1. ASSUME NEW r \in Requests
      PROVE  dead'[r] \in SUBSET Invitations /\ open'[r] \in SUBSET Invitations
    BY <1>1 DEF Remember
<1>2. DOMAIN dead' = Requests /\ DOMAIN open' = Requests /\ dead' = [r \in Requests |-> dead'[r]]
      /\ open' = [r \in Requests |-> open'[r]]
    BY DEF Remember
<1>3. QED
    BY <1>1, <1>2

\* Dead tokens are not valid, and a running request gets no more of them.
LEMMA DeadTokens ==
    ASSUME Remember, NEW r \in Requests
    PROVE  /\ \A i \in dead'[r] : ~IsValid(i)'
           /\ request[r].step # "new" => dead'[r] \subseteq dead[r]
<1>1. dead'[r] \subseteq {i \in Invitations : ~IsValid(i)'}
    BY DEF Remember
<1>2. request[r].step # "new" => dead'[r] \subseteq dead[r]
    BY DEF Remember
<1>3. QED
    BY <1>1, <1>2

\* Open invitations are valid for the account, and an account gets no more of them.
LEMMA OpenInvitations ==
    ASSUME Remember, NEW r \in Requests
    PROVE  /\ \A i \in open'[r] : i \in Invitations /\ IsValid(i)'
                                  /\ invitation'[i].email = account'[r]
           /\ account[r] # None => open'[r] \subseteq open[r]
<1>1. open'[r] \subseteq {i \in Invitations : IsValid(i)' /\ invitation'[i].email = account'[r]}
    BY DEF Remember
<1>2. account[r] # None => open'[r] \subseteq open[r]
    BY DEF Remember
<1>3. QED
    BY <1>1, <1>2
-----------------------------------------------------------------------------
(* Initial states, and types *)

\* The invariant holds of every initial state.
LEMMA InitInv == InvInit => InvInv
<1> SUFFICES ASSUME InvInit PROVE InvInv
    OBVIOUS
<1>1. Shape
    BY InvAssumption DEF InvInit, Shape, Request, Unborn, Steps
<1>2. StepsHold /\ AccountsComeLater /\ OpenShrinks /\ FormsAreFresh
    BY DEF InvInit, StepsHold, AccountsComeLater, OpenShrinks, FormsAreFresh, Unborn
<1>3. UniquePending(invitation) /\ UniqueAccounts /\ ConsumersExist /\ OnlyInvited
    BY InvAssumption DEF InvInit, UniquePending, UniqueAccounts, ConsumersExist, OnlyInvited,
           Live, Exists
<1>4. SessionsOpened
    BY DEF InvInit, SessionsOpened, Unborn
<1>5. EditorHolds
    BY DEF InvInit, EditorHolds
<1>6. QED
    BY <1>1, <1>2, <1>3, <1>4, <1>5 DEF InvInv

\* One request's record at a time.
LEMMA RequestSteps ==
    ASSUME Shape, StepsHold, NEW r \in Requests
    PROVE  /\ \A b \in Browsers, link \in Invitations \cup {None}, post \in Addresses \cup {None} :
                  Begin(r, b, link, post) => request' \in [Requests -> Request]
           /\ ReadLink(r) \/ Revalidate(r) \/ CheckForm(r) \/ FindInvitation(r)
                 => request' \in [Requests -> Request]
           /\ Consume(r) \/ Finish(r) \/ Crash(r) => request' \in [Requests -> Request]
           /\ \A e \in Emails : CreateUser(r, e) => request' \in [Requests -> Request]
<1> USE DEF Shape, Goes, Ends
<1>1. request[r] \in Request /\ Unborn \in Request
    BY DEF Request, Unborn, Steps
<1>2. \A rec \in Request : [request EXCEPT ![r] = rec] \in [Requests -> Request]
    OBVIOUS
<1>3. \A rec \in Request, s \in Steps : [rec EXCEPT !.step = s] \in Request
    BY DEF Request
<1>4. \A s \in Steps : [request EXCEPT ![r].step = s] \in [Requests -> Request]
    BY <1>1, <1>3
<1>5. \A s \in Steps : [Unborn EXCEPT !.browser = request[r].browser, !.step = s] \in Request
    BY <1>1 DEF Request
<1>6. ASSUME NEW b \in Browsers, NEW link \in Invitations \cup {None},
             NEW post \in Addresses \cup {None}, Begin(r, b, link, post)
      PROVE  request' \in [Requests -> Request]
    <2>1. session[b] \in Held \cup {None}
        OBVIOUS
    <2> DEFINE held == session[b]
               rec(s) == [Unborn EXCEPT !.browser = b, !.link = link, !.post = post,
                                        !.held = held, !.step = s]
    <2> HIDE DEF held
    <2>2. \A s \in Steps : rec(s) \in Request
        <3> TAKE s \in Steps
        <3>1. held \in Held \cup {None}
            BY <2>1 DEF held
        <3>2. QED
            BY <1>1, <3>1 DEF Request
    <2>3. request' = [request EXCEPT ![r] = rec(IF link = None THEN "revalidate" ELSE "link")]
        BY <1>6 DEF Begin, held
    <2> HIDE DEF rec
    <2>4. rec(IF link = None THEN "revalidate" ELSE "link") \in Request
        BY <2>2 DEF Steps
    <2>5. QED
        BY <1>2, <2>3, <2>4
<1>7. ASSUME ReadLink(r) PROVE request' \in [Requests -> Request]
    <2> DEFINE i == request[r].link
               held == [token |-> i, email |-> invitation[i].email]
               opens == [request[r] EXCEPT !.held = held, !.dirty = TRUE, !.link = None,
                                           !.step = "revalidate"]
               passes == [request[r] EXCEPT !.link = None, !.step = "revalidate"]
    <2>1. i \in Invitations
        BY <1>7 DEF ReadLink, StepsHold
    <2>2. IsValid(i) => held \in Held
        BY <2>1 DEF IsValid, Pending, Exists, Held, Invitation
    <2>3. passes \in Request /\ (IsValid(i) => opens \in Request)
        BY <1>1, <2>2 DEF Request, Steps
    <2>4. request' = [request EXCEPT ![r] = IF IsValid(i) THEN opens ELSE passes]
        BY <1>7 DEF ReadLink
    <2> HIDE DEF opens, passes
    <2>5. QED
        BY <1>2, <2>3, <2>4
<1>8. ASSUME Revalidate(r) PROVE request' \in [Requests -> Request]
    <2> DEFINE closes == request[r].held # None /\ ~IsValid(request[r].held.token)
               held == IF closes THEN None ELSE request[r].held
               dirty == request[r].dirty \/ closes
               rec(s) == [request[r] EXCEPT !.held = held, !.dirty = dirty, !.step = s]
    <2>1. held \in Held \cup {None}
        BY <1>1 DEF Request
    <2>2. dirty \in BOOLEAN
        BY Zenon
    <2>3. request' = [request EXCEPT ![r] =
                         rec(IF request[r].post = None THEN "finish" ELSE "form")]
        BY <1>8 DEF Revalidate
    <2> HIDE DEF held, dirty
    <2>4. \A s \in Steps : rec(s) \in Request
        BY <1>1, <2>1, <2>2 DEF Request
    <2> HIDE DEF rec
    <2>5. rec(IF request[r].post = None THEN "finish" ELSE "form") \in Request
        BY <2>4 DEF Steps
    <2>6. QED
        BY <1>2, <2>3, <2>5
<1>9. CheckForm(r) => request' \in [Requests -> Request]
    BY <1>2, <1>4, <1>5 DEF CheckForm, Steps
<1>10. FindInvitation(r) => request' \in [Requests -> Request]
    <2> SUFFICES ASSUME FindInvitation(r) PROVE request' \in [Requests -> Request]
        OBVIOUS
    <2>1. CASE Candidates(request[r].email) = {}
        BY <1>4, <2>1 DEF FindInvitation, Steps
    <2>2. CASE Candidates(request[r].email) # {}
        <3>1. PICK i \in Candidates(request[r].email) : request' = [request EXCEPT ![r] =
                   IF IsValid(i) THEN [@ EXCEPT !.found = i, !.step = "consume"]
                   ELSE [@ EXCEPT !.step = "finish"]]
            BY <2>2 DEF FindInvitation
        <3>2. i \in Invitations
            BY DEF Candidates
        <3>3. [request[r] EXCEPT !.found = i, !.step = "consume"] \in Request
            BY <1>1, <3>2 DEF Request, Steps
        <3>4. [request[r] EXCEPT !.step = "finish"] \in Request
            BY <1>1, <1>3 DEF Steps
        <3>5. QED
            BY <1>2, <3>1, <3>3, <3>4
    <2>3. QED
        BY <2>1, <2>2
<1>11. Consume(r) \/ Finish(r) \/ Crash(r) => request' \in [Requests -> Request]
    BY <1>2, <1>4, <1>5 DEF Consume, Finish, Crash, Steps
<1>12. ASSUME NEW e \in Emails, CreateUser(r, e) PROVE request' \in [Requests -> Request]
    <2>1. [request[r] EXCEPT !.email = e, !.step = "find"] \in Request
        BY <1>1, <1>12 DEF Request, Steps
    <2>2. QED
        BY <1>2, <1>5, <1>12, <2>1 DEF CreateUser, Steps
<1>13. QED
    BY <1>6, <1>7, <1>8, <1>9, <1>10, <1>11, <1>12

-----------------------------------------------------------------------------
(* Which actions write what *)

\* The requests are written by their own steps ...
LEMMA RequestWriters ==
    ASSUME Step
    PROVE  \/ request' = request
           \/ \E r \in Requests, b \in Browsers :
                 \E link \in Invitations \cup {None}, post \in Addresses \cup {None} :
                     Begin(r, b, link, post)
           \/ \E r \in Requests :
                  \/ ReadLink(r) \/ Revalidate(r) \/ CheckForm(r)
                  \/ \E e \in Emails : CreateUser(r, e)
                  \/ FindInvitation(r) \/ Consume(r) \/ Finish(r) \/ Crash(r)
    BY DEF Step, DeleteUser, Anonymise, Expire, EditBegin, DeleteInvitation, Invite, EditSave

\* ... the rows by the signal, the staff, the clock and deleted accounts ...
LEMMA InvitationWriters ==
    ASSUME Step
    PROVE  \/ invitation' = invitation
           \/ \E r \in Requests : Consume(r) \/ DeleteUser(r)
           \/ \E i \in Invitations : Expire(i) \/ DeleteInvitation(i)
           \/ \E i \in Invitations, e \in Emails : Invite(i, e)
           \/ \E e \in Emails, expired \in BOOLEAN : EditSave(e, expired)
    BY DEF Step, Begin, ReadLink, Revalidate, CheckForm, CreateUser, FindInvitation, Finish, Crash,
           Anonymise, EditBegin

\* ... the accounts by signups and by what deletes or anonymises them ...
LEMMA AccountWriters ==
    ASSUME Step
    PROVE  \/ account' = account
           \/ \E r \in Requests, e \in Emails : CreateUser(r, e)
           \/ \E r \in Requests : DeleteUser(r) \/ Anonymise(r)
    BY DEF Step, Begin, ReadLink, Revalidate, CheckForm, FindInvitation, Consume, Finish, Crash,
           Expire, EditBegin, DeleteInvitation, Invite, EditSave

\* ... the sessions by requests that end ...
LEMMA SessionWriters ==
    ASSUME Step
    PROVE  session' = session \/ \E r \in Requests : Finish(r)
    BY DEF Step, Begin, ReadLink, Revalidate, CheckForm, CreateUser, FindInvitation, Consume, Crash,
           DeleteUser, Anonymise, Expire, EditBegin, DeleteInvitation, Invite, EditSave

\* ... and by ReadLink the history of opened links.
LEMMA OpenedWriters ==
    ASSUME Step
    PROVE  opened' = opened \/ \E r \in Requests : ReadLink(r)
    BY DEF Step, Begin, Revalidate, CheckForm, CreateUser, FindInvitation, Consume, Finish, Crash,
           DeleteUser, Anonymise, Expire, EditBegin, DeleteInvitation, Invite, EditSave

\* The change form is opened, or written and closed.
LEMMA StaffWriters ==
    ASSUME Step
    PROVE  /\ staffed' = staffed \/ Staffs
           /\ editor' = editor \/ editor' = None \/ \E i \in Invitations : EditBegin(i)
    BY DEF Step, Begin, ReadLink, Revalidate, CheckForm, CreateUser, FindInvitation, Consume, Finish,
           Crash, DeleteUser, Anonymise, Expire, EditBegin, DeleteInvitation, Invite, EditSave

-----------------------------------------------------------------------------
(* Types *)

\* Every step keeps the types.
LEMMA ShapeKept ==
    ASSUME Shape, StepsHold, Step, Remember
    PROVE  Shape'
<1> USE DEF Shape
<1>1. request' \in [Requests -> Request]
    BY RequestSteps, RequestWriters
<1>2. invitation' \in [Invitations -> Invitation \cup {None, Gone}]
    <2>1. ASSUME NEW r \in Requests, Consume(r)
          PROVE  invitation' \in [Invitations -> Invitation \cup {None, Gone}]
        BY <2>1 DEF Consume, Consumes, Pending, Exists, Invitation
    <2>2. ASSUME NEW r \in Requests, DeleteUser(r)
          PROVE  invitation' \in [Invitations -> Invitation \cup {None, Gone}]
        BY <2>2 DEF DeleteUser, Exists, Invitation
    <2>3. ASSUME NEW i \in Invitations, Expire(i) \/ DeleteInvitation(i)
          PROVE  invitation' \in [Invitations -> Invitation \cup {None, Gone}]
        BY <2>3 DEF Expire, DeleteInvitation, Exists, Invitation
    <2>4. ASSUME NEW i \in Invitations, NEW e \in Emails, Invite(i, e)
          PROVE  invitation' \in [Invitations -> Invitation \cup {None, Gone}]
        BY <2>4 DEF Invite, Invitation
    <2>5. ASSUME NEW e \in Emails, NEW expired \in BOOLEAN, EditSave(e, expired)
          PROVE  invitation' \in [Invitations -> Invitation \cup {None, Gone}]
        BY <2>5 DEF EditSave, Invitation
    <2>6. QED
        BY <2>1, <2>2, <2>3, <2>4, <2>5, InvitationWriters
<1>3. account' \in [Requests -> Emails \cup {None, Left, Gone}]
    BY AccountWriters DEF CreateUser, DeleteUser, Anonymise
<1>4. editor' \in [id : Invitations, consumer : Requests \cup {None}] \cup {None}
    <2>1. ASSUME NEW i \in Invitations, EditBegin(i)
          PROVE  editor' \in [id : Invitations, consumer : Requests \cup {None}] \cup {None}
        BY <2>1 DEF EditBegin, Exists, Invitation
    <2>2. QED
        BY <2>1, StaffWriters
<1>5. staffed' \in 0 .. MaxStaff
    BY InvAssumption, StaffWriters DEF Staffs
<1>6. session' \in [Browsers -> Held \cup {None}]
    <2>1. ASSUME NEW r \in Requests, Finish(r)
          PROVE  session' \in [Browsers -> Held \cup {None}]
        BY <2>1 DEF Finish, Request, StepsHold
    <2>2. QED
        BY <2>1, SessionWriters
<1>7. opened' \subseteq Browsers \X Addresses
    <2>1. ASSUME NEW r \in Requests, ReadLink(r)
          PROVE  opened' \subseteq Browsers \X Addresses
        BY <2>1 DEF ReadLink, StepsHold, IsValid, Pending, Exists, Invitation, Emails
    <2>2. QED
        BY <2>1, OpenedWriters
<1>8. QED
    BY <1>1, <1>2, <1>3, <1>4, <1>5, <1>6, <1>7, RememberTypes
-----------------------------------------------------------------------------
(* Requests, one action at a time *)

\* A step that goes on has what the next one needs.
LEMMA StepsHoldKept ==
    ASSUME Shape, StepsHold, Step
    PROVE  StepsHold'
<1> USE DEF Shape
<1> DEFINE Good(rec) ==
        /\ rec.step # "new" => rec.browser \in Browsers
        /\ rec.step = "link" => rec.link \in Invitations
        /\ rec.step \in {"form", "create"} => rec.post \in Addresses
        /\ rec.step = "create" => rec.held \in Held
        /\ rec.step \in {"find", "consume"} => rec.email \in Emails
        /\ rec.step = "consume" => rec.found \in Invitations
<1>1. \A q \in Requests : Good(request[q]) /\ request[q] \in Request
    BY DEF StepsHold
<1>2. ASSUME NEW r \in Requests, \A q \in Requests \ {r} : request'[q] = request[q],
             Good(request'[r])
      PROVE  StepsHold'
    <2>1. \A q \in Requests : Good(request'[q])
        BY <1>1, <1>2
    <2>2. QED
        BY <2>1 DEF StepsHold
<1>3. ASSUME NEW r \in Requests, NEW s \in {"done", "failed"}, request[r].step # "new", Ends(r, s)
      PROVE  StepsHold'
    <2>1. request'[r].step = s /\ request'[r].browser = request[r].browser
        BY <1>3 DEF Ends, Unborn
    <2>2. Good(request'[r])
        BY <1>1, <1>3, <2>1
    <2>3. QED
        BY <1>2, <1>3, <2>2 DEF Ends
<1>4. ASSUME NEW r \in Requests, request[r].step # "new", Goes(r, "finish")
      PROVE  StepsHold'
    <2>1. request'[r] = [request[r] EXCEPT !.step = "finish"]
        BY <1>4 DEF Goes
    <2>2. Good(request'[r])
        BY <1>1, <1>4, <2>1 DEF Request
    <2>3. QED
        BY <1>2, <1>4, <2>2 DEF Goes
<1>5. ASSUME NEW r \in Requests, NEW b \in Browsers, NEW link \in Invitations \cup {None},
             NEW post \in Addresses \cup {None}, Begin(r, b, link, post)
      PROVE  StepsHold'
    <2>1. /\ request'[r].browser = b /\ request'[r].link = link
          /\ request'[r].step = IF link = None THEN "revalidate" ELSE "link"
        BY <1>5 DEF Begin, Unborn
    <2>2. Good(request'[r])
        BY <2>1
    <2>3. QED
        BY <1>2, <1>5, <2>2 DEF Begin
<1>6. ASSUME NEW r \in Requests, ReadLink(r)
      PROVE  StepsHold'
    <2> DEFINE held == [token |-> request[r].link, email |-> invitation[request[r].link].email]
               opens == [request[r] EXCEPT !.held = held, !.dirty = TRUE, !.link = None,
                                           !.step = "revalidate"]
               passes == [request[r] EXCEPT !.link = None, !.step = "revalidate"]
    <2>a. request'[r] = opens \/ request'[r] = passes
        BY <1>6 DEF ReadLink
    <2>b. opens.browser = request[r].browser /\ opens.step = "revalidate"
        BY <1>1 DEF Request
    <2>c. passes.browser = request[r].browser /\ passes.step = "revalidate"
        BY <1>1 DEF Request
    <2>1. request'[r].browser = request[r].browser /\ request'[r].step = "revalidate"
        BY <2>a, <2>b, <2>c
    <2> HIDE DEF held, opens, passes
    <2>2. request[r].browser \in Browsers
        BY <1>1, <1>6 DEF ReadLink
    <2>3. Good(request'[r])
        BY <2>1, <2>2
    <2>4. QED
        BY <1>2, <1>6, <2>3 DEF ReadLink
<1>7. ASSUME NEW r \in Requests, Revalidate(r)
      PROVE  StepsHold'
    <2>1. /\ request'[r].browser = request[r].browser /\ request'[r].post = request[r].post
          /\ request'[r].step = IF request[r].post = None THEN "finish" ELSE "form"
        BY <1>1, <1>7 DEF Revalidate, Request
    <2>2. Good(request'[r])
        BY <1>1, <1>7, <2>1 DEF Revalidate, Request
    <2>3. QED
        BY <1>2, <1>7, <2>2 DEF Revalidate
<1>8. ASSUME NEW r \in Requests, CheckForm(r)
      PROVE  StepsHold'
    <2>1. CASE Goes(r, "create") /\ FormAccepts(r)
        <3>1. request'[r] = [request[r] EXCEPT !.step = "create"]
            BY <2>1 DEF Goes
        <3>2. request[r].held \in Held
            BY <1>1, <2>1 DEF FormAccepts, Request
        <3>3. Good(request'[r])
            BY <1>1, <1>8, <3>1, <3>2 DEF CheckForm, Request
        <3>4. QED
            BY <1>2, <2>1, <3>3 DEF Goes
    <2>2. CASE Goes(r, "finish")
        BY <1>4, <1>8, <2>2 DEF CheckForm
    <2>3. QED
        BY <1>8, <2>1, <2>2 DEF CheckForm
<1>9. ASSUME NEW r \in Requests, NEW e \in Emails, CreateUser(r, e)
      PROVE  StepsHold'
    <2>1. CASE EmailTaken(e)
        BY <1>3, <1>9, <2>1 DEF CreateUser
    <2>2. CASE ~EmailTaken(e)
        <3>1. request'[r] = [request[r] EXCEPT !.email = e, !.step = "find"]
            BY <1>9, <2>2 DEF CreateUser
        <3>2. Good(request'[r])
            BY <1>1, <1>9, <3>1 DEF CreateUser, Request
        <3>3. QED
            BY <1>2, <1>9, <2>2, <3>2 DEF CreateUser
    <2>3. QED
        BY <2>1, <2>2
<1>10. ASSUME NEW r \in Requests, FindInvitation(r)
      PROVE  StepsHold'
    <2>1. CASE Candidates(request[r].email) = {}
        BY <1>4, <1>10, <2>1 DEF FindInvitation
    <2>2. CASE Candidates(request[r].email) # {}
        <3>1. PICK i \in Candidates(request[r].email) : request' = [request EXCEPT ![r] =
                   IF IsValid(i) THEN [@ EXCEPT !.found = i, !.step = "consume"]
                   ELSE [@ EXCEPT !.step = "finish"]]
            BY <1>10, <2>2 DEF FindInvitation
        <3>2. i \in Invitations
            BY DEF Candidates
        <3>3. CASE IsValid(i)
            <4>1. request'[r] = [request[r] EXCEPT !.found = i, !.step = "consume"]
                BY <3>1, <3>3
            <4>2. Good(request'[r])
                BY <1>1, <1>10, <3>2, <4>1 DEF FindInvitation, Request
            <4>3. QED
                BY <1>2, <3>1, <4>2
        <3>4. CASE ~IsValid(i)
            BY <1>4, <1>10, <3>1, <3>4 DEF Goes, FindInvitation
        <3>5. QED
            BY <3>3, <3>4
    <2>3. QED
        BY <2>1, <2>2
<1>11. ASSUME NEW r \in Requests, Consume(r) \/ Finish(r) \/ Crash(r)
      PROVE  StepsHold'
    BY <1>3, <1>4, <1>11 DEF Consume, Finish, Crash
<1>12. request' = request => StepsHold'
    BY DEF StepsHold
<1>13. QED
    BY <1>5, <1>6, <1>7, <1>8, <1>9, <1>10, <1>11, <1>12, RequestWriters
\* Running requests have no account before they create one.
LEMMA AccountsComeLaterKept ==
    ASSUME Shape, AccountsComeLater, Step
    PROVE  AccountsComeLater'
<1> USE DEF Shape
<1> DEFINE early == {"new", "link", "revalidate", "form", "create"}
<1>1. SUFFICES ASSUME NEW q \in Requests, request'[q].step \in early
               PROVE  account'[q] = None
    BY DEF AccountsComeLater
<1>2. request[q] \in Request
    OBVIOUS
<1>3. request[q].step \in early
    <2>1. ASSUME NEW r \in Requests, NEW s \in {"done", "failed"}, Ends(r, s)
          PROVE  request[q].step \in early
        BY <1>1, <2>1 DEF Ends, Unborn
    <2>2. ASSUME NEW r \in Requests, Goes(r, "finish")
          PROVE  request[q].step \in early
        BY <1>1, <1>2, <2>2 DEF Goes, Request
    <2>3. ASSUME NEW r \in Requests, NEW b \in Browsers, NEW link \in Invitations \cup {None},
                 NEW post \in Addresses \cup {None}, Begin(r, b, link, post)
          PROVE  request[q].step \in early
        BY <1>1, <2>3 DEF Begin
    <2>4. ASSUME NEW r \in Requests, ReadLink(r) \/ Revalidate(r) \/ CheckForm(r)
          PROVE  request[q].step \in early
        BY <1>1, <2>4 DEF ReadLink, Revalidate, CheckForm, Goes
    <2>5. ASSUME NEW r \in Requests, NEW e \in Emails, CreateUser(r, e)
          PROVE  request[q].step \in early
        BY <1>1, <1>2, <2>1, <2>5 DEF CreateUser, Request
    <2>6. ASSUME NEW r \in Requests, FindInvitation(r)
          PROVE  request[q].step \in early
        <3>1. CASE Candidates(request[r].email) = {}
            BY <2>2, <2>6, <3>1 DEF FindInvitation
        <3>2. CASE Candidates(request[r].email) # {}
            <4>1. PICK i \in Candidates(request[r].email) : request' = [request EXCEPT ![r] =
                       IF IsValid(i) THEN [@ EXCEPT !.found = i, !.step = "consume"]
                       ELSE [@ EXCEPT !.step = "finish"]]
                BY <2>6, <3>2 DEF FindInvitation
            <4>2. CASE q = r
                BY <1>1, <1>2, <4>1, <4>2 DEF Request
            <4>3. CASE q # r
                BY <1>1, <4>1, <4>3
            <4>4. QED
                BY <4>2, <4>3
        <3>3. QED
            BY <3>1, <3>2
    <2>7. ASSUME NEW r \in Requests, Consume(r) \/ Finish(r) \/ Crash(r)
          PROVE  request[q].step \in early
        BY <2>1, <2>2, <2>7 DEF Consume, Finish, Crash
    <2>8. request' = request => request[q].step \in early
        BY <1>1
    <2>9. QED
        BY <2>3, <2>4, <2>5, <2>6, <2>7, <2>8, RequestWriters
<1>4. account[q] = None
    BY <1>3 DEF AccountsComeLater
<1>5. ASSUME NEW r \in Requests, NEW e \in Emails, CreateUser(r, e)
      PROVE  account'[q] = None
    <2>1. CASE EmailTaken(e)
        BY <1>4, <1>5, <2>1 DEF CreateUser
    <2>2. CASE ~EmailTaken(e)
        <3>1. request'[r].step = "find"
            BY <1>5, <2>2 DEF CreateUser, Request
        <3>2. q # r
            BY <1>1, <3>1
        <3>3. QED
            BY <1>4, <1>5, <2>2, <3>2 DEF CreateUser
    <2>3. QED
        BY <2>1, <2>2
<1>6. ASSUME NEW r \in Requests, DeleteUser(r) \/ Anonymise(r)
      PROVE  account'[q] = None
    <2>1. account[r] # None
        BY <1>6, InvAssumption DEF DeleteUser, Anonymise, Live
    <2>2. QED
        BY <1>4, <1>6, <2>1 DEF DeleteUser, Anonymise
<1>7. QED
    BY <1>4, <1>5, <1>6, AccountWriters

-----------------------------------------------------------------------------
(* Rows *)

\* A row of which one column changes is a row.
LEMMA RowsStayRows ==
    ASSUME NEW row \in Invitation
    PROVE  /\ \A c \in Requests \cup {None} : [row EXCEPT !.consumer = c] \in Invitation
           /\ [row EXCEPT !.expired = TRUE] \in Invitation
    BY DEF Invitation

\* The partial unique index: a row is made pending only where that keeps it unique.
LEMMA UniquePendingKept ==
    ASSUME Shape, UniquePending(invitation), Step
    PROVE  UniquePending(invitation)'
<1> USE DEF Shape
\* Rows that are pending only if they were, for the same e-mail, stay unique.
<1>1. ASSUME \A i \in Invitations :
                 Exists(invitation', i) /\ invitation'[i].consumer = None =>
                     /\ Exists(invitation, i) /\ invitation[i].consumer = None
                     /\ invitation[i].email = invitation'[i].email
      PROVE  UniquePending(invitation)'
    BY <1>1 DEF UniquePending, Exists
<1>2. ASSUME NEW r \in Requests, Consume(r)
      PROVE  UniquePending(invitation)'
    <2> DEFINE f == request[r].found
    <2>1. CASE Consumes(f) /\ invitation' = [invitation EXCEPT ![f].consumer = r]
        <3>1. \A i \in Invitations \ {f} : invitation'[i] = invitation[i]
            BY <2>1
        <3>2. f \in Invitations => invitation'[f].consumer # None
            BY <2>1, InvAssumption DEF Consumes, Pending, Exists, Invitation
        <3>3. QED
            BY <1>1, <3>1, <3>2 DEF Exists
    <2>2. CASE invitation' = invitation
        BY <2>2 DEF UniquePending
    <2>3. QED
        BY <1>2, <2>1, <2>2 DEF Consume
<1>3. ASSUME NEW r \in Requests, DeleteUser(r)
      PROVE  UniquePending(invitation)'
    BY <1>3 DEF DeleteUser, UniquePending
<1>4. ASSUME NEW i \in Invitations, Expire(i)
      PROVE  UniquePending(invitation)'
    <2>1. /\ \A j \in Invitations \ {i} : invitation'[j] = invitation[j]
          /\ Exists(invitation, i) /\ invitation'[i] = [invitation[i] EXCEPT !.expired = TRUE]
        BY <1>4 DEF Expire
    <2>2. invitation'[i].consumer = invitation[i].consumer /\ invitation'[i].email = invitation[i].email
        BY <2>1 DEF Exists, Invitation
    <2>3. QED
        BY <1>1, <2>1, <2>2 DEF Exists
<1>5. ASSUME NEW i \in Invitations, DeleteInvitation(i)
      PROVE  UniquePending(invitation)'
    BY <1>1, <1>5 DEF DeleteInvitation, Exists
<1>6. ASSUME NEW i \in Invitations, NEW e \in Emails, Invite(i, e)
      PROVE  UniquePending(invitation)'
    BY <1>6 DEF Invite, UniquePending
<1>7. ASSUME NEW e \in Emails, NEW expired \in BOOLEAN, EditSave(e, expired)
      PROVE  UniquePending(invitation)'
    BY <1>7 DEF EditSave, UniquePending
<1>8. invitation' = invitation => UniquePending(invitation)'
    BY DEF UniquePending
<1>9. QED
    BY <1>2, <1>3, <1>4, <1>5, <1>6, <1>7, <1>8, InvitationWriters

\* The unique index of User.email.
LEMMA UniqueAccountsKept ==
    ASSUME Shape, UniqueAccounts, Step
    PROVE  UniqueAccounts'
<1> USE DEF Shape
<1>1. ASSUME NEW r \in Requests, NEW e \in Emails, CreateUser(r, e)
      PROVE  UniqueAccounts'
    BY <1>1 DEF CreateUser, EmailTaken, UniqueAccounts, Live
<1>2. ASSUME NEW r \in Requests, DeleteUser(r) \/ Anonymise(r)
      PROVE  UniqueAccounts'
    BY <1>2, InvAssumption DEF DeleteUser, Anonymise, UniqueAccounts, Live
<1>3. account' = account => UniqueAccounts'
    BY DEF UniqueAccounts, Live
<1>4. QED
    BY <1>1, <1>2, <1>3, AccountWriters
\* A consumer is a row: SET_NULL clears consumed_by before the account goes.
LEMMA ConsumersExistKept ==
    ASSUME Shape, ConsumersExist, EditorHolds, AccountsComeLater, Step
    PROVE  ConsumersExist'
<1> USE DEF Shape
<1>1. SUFFICES ASSUME NEW i \in Invitations, Exists(invitation', i),
                      invitation'[i].consumer # None
               PROVE  account'[invitation'[i].consumer] \notin {None, Gone}
    BY DEF ConsumersExist, Exists
<1> DEFINE c == invitation'[i].consumer
<1>2. ASSUME Exists(invitation, i), invitation[i].consumer = c
      PROVE  c \in Requests /\ account[c] \notin {None, Gone}
    BY <1>1, <1>2 DEF ConsumersExist, Exists, Invitation
<1>3. ASSUME c \in Requests, account[c] \notin {None, Gone}, \A r \in Requests : DeleteUser(r) => r # c
      PROVE  account'[c] \notin {None, Gone}
    <2>1. ASSUME NEW r \in Requests, NEW e \in Emails, CreateUser(r, e)
          PROVE  account'[c] \notin {None, Gone}
        BY <1>3, <2>1, InvAssumption DEF CreateUser
    <2>2. ASSUME NEW r \in Requests, DeleteUser(r)
          PROVE  account'[c] \notin {None, Gone}
        BY <1>3, <2>2 DEF DeleteUser
    <2>3. ASSUME NEW r \in Requests, Anonymise(r)
          PROVE  account'[c] \notin {None, Gone}
        BY <1>3, <2>3, InvAssumption DEF Anonymise
    <2>4. QED
        BY <1>3, <2>1, <2>2, <2>3, AccountWriters
<1>4. ASSUME NEW r \in Requests, Consume(r)
      PROVE  account'[c] \notin {None, Gone}
    <2> DEFINE f == request[r].found
    <2>1. CASE i = f /\ Live(r) /\ invitation' = [invitation EXCEPT ![f].consumer = r]
        <3>1. c = r
            BY <1>1, <2>1, InvAssumption DEF Exists, Invitation
        <3>2. account' = account
            BY <1>4 DEF Consume
        <3>3. QED
            BY <2>1, <3>1, <3>2, InvAssumption DEF Live
    <2>2. CASE i # f /\ invitation' = [invitation EXCEPT ![f].consumer = r]
        <3>1. invitation'[i] = invitation[i] /\ account' = account
            BY <1>4, <2>2 DEF Consume
        <3>2. QED
            BY <1>1, <1>2, <3>1 DEF Exists
    <2>3. CASE invitation' = invitation
        BY <1>1, <1>2, <1>4, <2>3 DEF Consume, Exists
    <2>4. QED
        BY <1>4, <2>1, <2>2, <2>3 DEF Consume
<1>5. ASSUME NEW r \in Requests, DeleteUser(r)
      PROVE  account'[c] \notin {None, Gone}
    <2>1. invitation'[i] = IF Exists(invitation, i) /\ invitation[i].consumer = r
                           THEN [invitation[i] EXCEPT !.consumer = None] ELSE invitation[i]
        BY <1>5 DEF DeleteUser
    <2>2. ~(Exists(invitation, i) /\ invitation[i].consumer = r)
        BY <1>1, <2>1 DEF Exists, Invitation
    <2>3. Exists(invitation, i) /\ invitation[i].consumer = c /\ c # r
        BY <1>1, <2>1, <2>2 DEF Exists
    <2>4. QED
        BY <1>2, <1>5, <2>3 DEF DeleteUser
<1>6. ASSUME NEW j \in Invitations, Expire(j) \/ DeleteInvitation(j)
      PROVE  account'[c] \notin {None, Gone}
    <2>1. Exists(invitation, i) /\ invitation[i].consumer = c /\ account' = account
        BY <1>1, <1>6 DEF Expire, DeleteInvitation, Exists, Invitation
    <2>2. QED
        BY <1>2, <2>1
<1>7. ASSUME NEW j \in Invitations, NEW e \in Emails, Invite(j, e)
      PROVE  account'[c] \notin {None, Gone}
    <2>1. Exists(invitation, i) /\ invitation[i].consumer = c /\ account' = account
        BY <1>1, <1>7 DEF Invite, Exists
    <2>2. QED
        BY <1>2, <2>1
<1>8. ASSUME NEW e \in Emails, NEW expired \in BOOLEAN, EditSave(e, expired)
      PROVE  account'[c] \notin {None, Gone}
    <2>1. CASE invitation' = invitation
        BY <1>1, <1>2, <1>8, <2>1 DEF EditSave, Exists
    <2>2. CASE i # editor.id /\ invitation'[i] = invitation[i]
        BY <1>1, <1>2, <1>8, <2>2 DEF EditSave, Exists
    <2>3. CASE i = editor.id /\ invitation' # invitation
        <3>1. c = editor.consumer /\ account[c] # Gone /\ account' = account /\ editor # None
            BY <1>1, <1>8, <2>3 DEF EditSave
        <3>2. account[c] # None
            BY <1>1, <3>1 DEF EditorHolds
        <3>3. QED
            BY <3>1, <3>2
    <2>4. QED
        BY <1>8, <2>1, <2>2, <2>3 DEF EditSave
<1>9. ASSUME invitation' = invitation
      PROVE  account'[c] \notin {None, Gone}
    BY <1>1, <1>2, <1>3, <1>5, <1>9 DEF Exists
<1>10. QED
    BY <1>4, <1>5, <1>6, <1>7, <1>8, <1>9, InvitationWriters

\* The account an open form has read consumes the row still, or is gone.
LEMMA EditorHoldsKept ==
    ASSUME Shape, ConsumersExist, EditorHolds, AccountsComeLater, Step
    PROVE  EditorHolds'
<1> USE DEF Shape
<1>1. ASSUME NEW i \in Invitations, EditBegin(i)
      PROVE  EditorHolds'
    BY <1>1 DEF EditBegin, EditorHolds, ConsumersExist, Exists
<1>2. editor' = None => EditorHolds'
    BY DEF EditorHolds
<1>3. ASSUME editor' = editor, editor # None, editor.consumer # None
      PROVE  EditorHolds'
    <2> DEFINE c == editor.consumer
    <2>1. /\ c \in Requests /\ editor.id \in Invitations /\ account[c] # None
          /\ invitation[editor.id] # None
          /\ Exists(invitation, editor.id) => invitation[editor.id].consumer = c \/ account[c] = Gone
        BY <1>3 DEF EditorHolds
    <2>2. account'[c] # None /\ (account[c] = Gone => account'[c] = Gone)
        <3>1. ASSUME NEW r \in Requests, NEW e \in Emails, CreateUser(r, e)
              PROVE  account'[c] # None /\ (account[c] = Gone => account'[c] = Gone)
            <4>1. account[r] = None
                BY <3>1 DEF CreateUser, AccountsComeLater
            <4>2. c # r
                BY <2>1, <4>1
            <4>3. QED
                BY <2>1, <3>1, <4>2 DEF CreateUser
        <3>2. ASSUME NEW r \in Requests, DeleteUser(r) \/ Anonymise(r)
              PROVE  account'[c] # None /\ (account[c] = Gone => account'[c] = Gone)
            BY <2>1, <3>2, InvAssumption DEF DeleteUser, Anonymise, Live
        <3>3. QED
            BY <2>1, <3>1, <3>2, AccountWriters
    <2>3. ASSUME Exists(invitation', editor.id)
          PROVE  invitation'[editor.id].consumer = c \/ account'[c] = Gone
        <3>1. ASSUME NEW r \in Requests, Consume(r)
              PROVE  invitation'[editor.id].consumer = c \/ account'[c] = Gone
            BY <1>3, <2>1, <2>2, <2>3, <3>1 DEF Consume, Consumes, Pending, Exists
        <3>2. ASSUME NEW r \in Requests, DeleteUser(r)
              PROVE  invitation'[editor.id].consumer = c \/ account'[c] = Gone
            <4>1. CASE r = c
                BY <2>1, <3>2, <4>1 DEF DeleteUser
            <4>2. CASE r # c
                BY <2>1, <2>2, <2>3, <3>2, <4>2 DEF DeleteUser, Exists, Invitation
            <4>3. QED
                BY <4>1, <4>2
        <3>3. ASSUME NEW i \in Invitations, Expire(i) \/ DeleteInvitation(i)
              PROVE  invitation'[editor.id].consumer = c \/ account'[c] = Gone
            BY <2>1, <2>2, <2>3, <3>3 DEF Expire, DeleteInvitation, Exists, Invitation
        <3>4. ASSUME NEW i \in Invitations, NEW e \in Emails, Invite(i, e)
              PROVE  invitation'[editor.id].consumer = c \/ account'[c] = Gone
            BY <2>1, <2>2, <2>3, <3>4 DEF Invite, Exists
        <3>5. ~\E e \in Emails, expired \in BOOLEAN : EditSave(e, expired)
            BY <1>3 DEF EditSave
        <3>6. invitation' = invitation => invitation'[editor.id].consumer = c \/ account'[c] = Gone
            BY <2>1, <2>2, <2>3 DEF Exists
        <3>7. QED
            BY <3>1, <3>2, <3>3, <3>4, <3>5, <3>6, InvitationWriters
    <2>4. invitation'[editor.id] # None
        <3>1. ASSUME NEW r \in Requests, Consume(r) \/ DeleteUser(r)
              PROVE  invitation'[editor.id] # None
            <4> DEFINE row == invitation[editor.id]
                       row2 == invitation'[editor.id]
            <4>1. DeleteUser(r) => \/ row2 = row
                                   \/ /\ Exists(invitation, editor.id)
                                      /\ row2 = [row EXCEPT !.consumer = None]
                BY <2>1 DEF DeleteUser
            <4>2. Consume(r) => \/ row2 = row
                                \/ /\ Exists(invitation, editor.id)
                                   /\ row2 = [row EXCEPT !.consumer = r]
                BY <2>1 DEF Consume, Consumes, Pending
            <4>3. Exists(invitation, editor.id) => row \in Invitation
                BY <2>1 DEF Exists
            <4> HIDE DEF row, row2
            <4>4. row2 = row \/ row2 \in Invitation
                <5>1. Exists(invitation, editor.id) =>
                         \A d \in Requests \cup {None} : [row EXCEPT !.consumer = d] \in Invitation
                    BY <4>3, RowsStayRows
                <5>2. QED
                    BY <3>1, <4>1, <4>2, <5>1
            <4>5. QED
                BY <2>1, <4>4, InvAssumption DEF row, row2
        <3>2. ASSUME NEW i \in Invitations, Expire(i) \/ DeleteInvitation(i)
              PROVE  invitation'[editor.id] # None
            <4>1. \A j \in Invitations :
                     \/ invitation'[j] = invitation[j] \/ invitation'[j] = Gone
                     \/ invitation'[j] \in Invitation
                BY <3>2, RowsStayRows DEF Expire, DeleteInvitation, Exists
            <4>2. QED
                BY <2>1, <4>1, InvAssumption
        <3>3. ASSUME NEW i \in Invitations, NEW e \in Emails, Invite(i, e)
              PROVE  invitation'[editor.id] # None
            <4>1. i # editor.id
                BY <2>1, <3>3 DEF Invite
            <4>2. QED
                BY <2>1, <3>3, <4>1 DEF Invite
        <3>4. ~\E e \in Emails, expired \in BOOLEAN : EditSave(e, expired)
            BY <1>3 DEF EditSave
        <3>5. QED
            BY <2>1, <3>1, <3>2, <3>3, <3>4, InvitationWriters
    <2>5. QED
        BY <1>3, <2>1, <2>2, <2>3, <2>4 DEF EditorHolds
<1>4. QED
    BY <1>1, <1>2, <1>3, StaffWriters DEF EditorHolds
-----------------------------------------------------------------------------
(* Who gets in *)

\* An address comes into a session through ReadLink only, and copies go to their own browser.
LEMMA SessionsOpenedKept ==
    ASSUME Shape, StepsHold, SessionsOpened, Step
    PROVE  SessionsOpened'
<1> USE DEF Shape
<1>1. opened \subseteq opened'
    BY OpenedWriters DEF ReadLink
<1>2. ASSUME NEW b \in Browsers, session'[b] # None
      PROVE  <<b, session'[b].email[1]>> \in opened'
    <2>1. ASSUME NEW r \in Requests, Finish(r)
          PROVE  <<b, session'[b].email[1]>> \in opened'
        <3>1. \/ session'[b] = session[b]
              \/ b = request[r].browser /\ session'[b] = request[r].held
            BY <1>2, <2>1 DEF Finish
        <3>2. QED
            BY <1>1, <1>2, <3>1 DEF SessionsOpened
    <2>2. QED
        BY <1>1, <1>2, <2>1, SessionWriters DEF SessionsOpened
<1> DEFINE Good(rec) ==
        /\ rec.held # None => <<rec.browser, rec.held.email[1]>> \in opened'
        /\ rec.step = "create" => <<rec.browser, rec.post>> \in opened'
<1>3. \A q \in Requests : Good(request[q]) /\ request[q] \in Request
    BY <1>1 DEF SessionsOpened
<1>4. \A q \in Requests : Good(request'[q])
    <2>1. ASSUME NEW r \in Requests, \A q \in Requests \ {r} : request'[q] = request[q],
                 Good(request'[r])
          PROVE  \A q \in Requests : Good(request'[q])
        BY <1>3, <2>1
    <2>2. ASSUME NEW r \in Requests, NEW s \in {"done", "failed"}, Ends(r, s)
          PROVE  \A q \in Requests : Good(request'[q])
        <3>1. request'[r].step = s /\ request'[r].held = None
            BY <2>2 DEF Ends, Unborn
        <3>2. Good(request'[r])
            BY <3>1
        <3>3. QED
            BY <2>1, <2>2, <3>2 DEF Ends
    <2>3. ASSUME NEW r \in Requests, NEW s \in Steps \ {"create"}, Goes(r, s)
          PROVE  \A q \in Requests : Good(request'[q])
        <3>1. request'[r] = [request[r] EXCEPT !.step = s]
            BY <2>3 DEF Goes
        <3>2. Good(request'[r])
            BY <1>3, <3>1 DEF Request
        <3>3. QED
            BY <2>1, <2>3, <3>2 DEF Goes
    <2>4. ASSUME NEW r \in Requests, NEW b \in Browsers, NEW link \in Invitations \cup {None},
                 NEW post \in Addresses \cup {None}, Begin(r, b, link, post)
          PROVE  \A q \in Requests : Good(request'[q])
        <3>1. /\ request'[r].browser = b /\ request'[r].held = session[b]
              /\ request'[r].step # "create"
            BY <2>4 DEF Begin, Unborn
        <3>2. Good(request'[r])
            BY <1>1, <3>1 DEF SessionsOpened
        <3>3. QED
            BY <2>1, <2>4, <3>2 DEF Begin
    <2>5. ASSUME NEW r \in Requests, ReadLink(r)
          PROVE  \A q \in Requests : Good(request'[q])
        <3> DEFINE i == request[r].link
                   held == [token |-> i, email |-> invitation[i].email]
                   opens == [request[r] EXCEPT !.held = held, !.dirty = TRUE, !.link = None,
                                               !.step = "revalidate"]
                   passes == [request[r] EXCEPT !.link = None, !.step = "revalidate"]
        <3>1. CASE IsValid(i)
            <4>1. request' = [request EXCEPT ![r] = opens]
                BY <2>5, <3>1 DEF ReadLink
            <4>2. <<request[r].browser, invitation[i].email[1]>> \in opened'
                BY <2>5, <3>1 DEF ReadLink
            <4>3. /\ opens.browser = request[r].browser /\ opens.step = "revalidate"
                  /\ opens.held.email = invitation[i].email
                BY <1>3 DEF Request
            <4> HIDE DEF opens
            <4>4. Good(opens)
                BY <4>2, <4>3
            <4>5. QED
                BY <2>1, <4>1, <4>4
        <3>2. CASE ~IsValid(i)
            <4>1. request' = [request EXCEPT ![r] = passes]
                BY <2>5, <3>2 DEF ReadLink
            <4>2. /\ passes.browser = request[r].browser /\ passes.step = "revalidate"
                  /\ passes.held = request[r].held
                BY <1>3 DEF Request
            <4> HIDE DEF passes
            <4>3. Good(passes)
                BY <1>3, <4>2
            <4>4. QED
                BY <2>1, <4>1, <4>3
        <3>3. QED
            BY <3>1, <3>2
    <2>6. ASSUME NEW r \in Requests, Revalidate(r)
          PROVE  \A q \in Requests : Good(request'[q])
        <3>1. /\ request'[r].browser = request[r].browser
              /\ request'[r].held \in {None, request[r].held}
              /\ request'[r].step # "create"
            BY <1>3, <2>6 DEF Revalidate, Request
        <3>2. Good(request'[r])
            BY <1>3, <3>1
        <3>3. QED
            BY <2>1, <2>6, <3>2 DEF Revalidate
    <2>7. ASSUME NEW r \in Requests, CheckForm(r)
          PROVE  \A q \in Requests : Good(request'[q])
        <3>1. CASE Goes(r, "create") /\ FormAccepts(r)
            <4>1. request'[r] = [request[r] EXCEPT !.step = "create"]
                BY <3>1 DEF Goes
            <4>2. Good(request'[r])
                BY <1>3, <3>1, <4>1 DEF FormAccepts, Request
            <4>3. QED
                BY <2>1, <3>1, <4>2 DEF Goes
        <3>2. CASE Goes(r, "finish")
            BY <2>3, <3>2 DEF Steps
        <3>3. QED
            BY <2>7, <3>1, <3>2 DEF CheckForm
    <2>8. ASSUME NEW r \in Requests, NEW e \in Emails, CreateUser(r, e)
          PROVE  \A q \in Requests : Good(request'[q])
        <3>1. CASE EmailTaken(e)
            BY <2>2, <2>8, <3>1 DEF CreateUser
        <3>2. CASE ~EmailTaken(e)
            <4>1. request'[r] = [request[r] EXCEPT !.email = e, !.step = "find"]
                BY <2>8, <3>2 DEF CreateUser
            <4>2. Good(request'[r])
                BY <1>3, <4>1 DEF Request
            <4>3. QED
                BY <2>1, <2>8, <3>2, <4>2 DEF CreateUser
        <3>3. QED
            BY <3>1, <3>2
    <2>9. ASSUME NEW r \in Requests, FindInvitation(r)
          PROVE  \A q \in Requests : Good(request'[q])
        <3>1. CASE Candidates(request[r].email) = {}
            BY <2>3, <2>9, <3>1 DEF FindInvitation, Steps
        <3>2. CASE Candidates(request[r].email) # {}
            <4>1. PICK i \in Candidates(request[r].email) : request' = [request EXCEPT ![r] =
                       IF IsValid(i) THEN [@ EXCEPT !.found = i, !.step = "consume"]
                       ELSE [@ EXCEPT !.step = "finish"]]
                BY <2>9, <3>2 DEF FindInvitation
            <4>2. /\ request'[r].browser = request[r].browser
                  /\ request'[r].held = request[r].held
                  /\ request'[r].step # "create"
                BY <1>3, <4>1 DEF Request
            <4>3. Good(request'[r])
                BY <1>3, <4>2
            <4>4. QED
                BY <2>1, <4>1, <4>3
        <3>3. QED
            BY <3>1, <3>2
    <2>10. ASSUME NEW r \in Requests, Consume(r) \/ Finish(r) \/ Crash(r)
           PROVE  \A q \in Requests : Good(request'[q])
        BY <2>2, <2>3, <2>10 DEF Consume, Finish, Crash, Steps
    <2>11. request' = request => \A q \in Requests : Good(request'[q])
        BY <1>3
    <2>12. QED
        BY <2>4, <2>5, <2>6, <2>7, <2>8, <2>9, <2>10, <2>11, RequestWriters
<1>5. QED
    BY <1>2, <1>4 DEF SessionsOpened

\* An ended or running request keeps its browser.
LEMMA BrowsersStay ==
    ASSUME Shape, Step, NEW q \in Requests, request[q].step # "new"
    PROVE  request'[q].browser = request[q].browser
<1> USE DEF Shape
<1>1. request[q] \in Request
    OBVIOUS
<1>2. ASSUME NEW r \in Requests, NEW b \in Browsers, NEW link \in Invitations \cup {None},
             NEW post \in Addresses \cup {None}, Begin(r, b, link, post)
      PROVE  request'[q].browser = request[q].browser
    BY <1>2 DEF Begin
<1>3. ASSUME NEW r \in Requests, NEW s, Goes(r, s) \/ Ends(r, s)
      PROVE  request'[q].browser = request[q].browser
    <2>1. CASE q # r
        BY <1>3, <2>1 DEF Goes, Ends
    <2>2. CASE q = r /\ Goes(r, s)
        <3>1. request'[q] = [request[q] EXCEPT !.step = s]
            BY <2>2 DEF Goes
        <3>2. QED
            BY <1>1, <3>1 DEF Request
    <2>3. CASE q = r /\ Ends(r, s)
        BY <2>3 DEF Ends, Unborn
    <2>4. QED
        BY <1>3, <2>1, <2>2, <2>3
<1>4. ASSUME NEW r \in Requests,
             ReadLink(r) \/ Revalidate(r) \/ CheckForm(r) \/ Consume(r) \/ Finish(r) \/ Crash(r)
      PROVE  request'[q].browser = request[q].browser
    <2>1. ASSUME ReadLink(r)
          PROVE  request'[q].browser = request[q].browser
        <3> DEFINE held == [token |-> request[r].link, email |-> invitation[request[r].link].email]
                   opens == [request[r] EXCEPT !.held = held, !.dirty = TRUE, !.link = None,
                                               !.step = "revalidate"]
                   passes == [request[r] EXCEPT !.link = None, !.step = "revalidate"]
        <3>1. /\ q # r => request'[q] = request[q]
              /\ request'[r] = opens \/ request'[r] = passes
            BY <2>1 DEF ReadLink
        <3>2. opens.browser = request[r].browser /\ passes.browser = request[r].browser
            BY DEF Request
        <3> HIDE DEF opens, passes
        <3>3. QED
            BY <3>1, <3>2
    <2>2. Revalidate(r) => request'[q].browser = request[q].browser
        BY <1>1 DEF Revalidate, Request
    <2>3. QED
        BY <1>3, <1>4, <2>1, <2>2 DEF CheckForm, Consume, Finish, Crash
<1>5. ASSUME NEW r \in Requests, NEW e \in Emails, CreateUser(r, e)
      PROVE  request'[q].browser = request[q].browser
    <2>1. CASE EmailTaken(e)
        BY <1>3, <1>5, <2>1 DEF CreateUser
    <2>2. CASE ~EmailTaken(e)
        <3> DEFINE rec == [request[r] EXCEPT !.email = e, !.step = "find"]
        <3>1. (q # r => request'[q] = request[q]) /\ request'[r] = rec
            BY <1>5, <2>2 DEF CreateUser
        <3>2. rec.browser = request[r].browser
            BY DEF Request
        <3> HIDE DEF rec
        <3>3. QED
            BY <3>1, <3>2
    <2>3. QED
        BY <2>1, <2>2
<1>6. ASSUME NEW r \in Requests, FindInvitation(r)
      PROVE  request'[q].browser = request[q].browser
    <2>1. CASE Candidates(request[r].email) = {}
        BY <1>3, <1>6, <2>1 DEF FindInvitation
    <2>2. CASE Candidates(request[r].email) # {}
        <3>1. PICK i \in Candidates(request[r].email) : request' = [request EXCEPT ![r] =
                   IF IsValid(i) THEN [@ EXCEPT !.found = i, !.step = "consume"]
                   ELSE [@ EXCEPT !.step = "finish"]]
            BY <1>6, <2>2 DEF FindInvitation
        <3>2. QED
            BY <1>1, <3>1 DEF Request
    <2>3. QED
        BY <2>1, <2>2
<1>7. QED
    BY <1>2, <1>4, <1>5, <1>6, RequestWriters

\* An account is created for the address of the session, which its browser opened.
LEMMA OnlyInvitedKept ==
    ASSUME Shape, SessionsOpened, AccountsComeLater, OnlyInvited, Step
    PROVE  OnlyInvited'
<1> USE DEF Shape
<1>1. opened \subseteq opened'
    BY OpenedWriters DEF ReadLink
<1>2. ASSUME NEW q \in Requests, Live(q), account'[q] = account[q]
      PROVE  <<request'[q].browser, account'[q][1]>> \in opened'
    <2>1. request[q].step # "new"
        BY <1>2, InvAssumption DEF AccountsComeLater, Live
    <2>2. QED
        BY <1>1, <1>2, <2>1, BrowsersStay DEF OnlyInvited
<1>3. ASSUME NEW q \in Requests, NEW e \in Emails, CreateUser(q, e), account'[q] # account[q]
      PROVE  <<request'[q].browser, account'[q][1]>> \in opened'
    <2>1. account'[q] = e /\ e[1] = request[q].post /\ request[q].step = "create"
        BY <1>3 DEF CreateUser
    <2>2. QED
        BY <1>1, <2>1, BrowsersStay DEF SessionsOpened
<1>4. ASSUME NEW q \in Requests, Live(q)'
      PROVE  <<request'[q].browser, account'[q][1]>> \in opened'
    <2>1. ASSUME NEW r \in Requests, NEW e \in Emails, CreateUser(r, e)
          PROVE  <<request'[q].browser, account'[q][1]>> \in opened'
        BY <1>2, <1>3, <1>4, <2>1 DEF CreateUser, Live
    <2>2. ASSUME NEW r \in Requests, DeleteUser(r) \/ Anonymise(r)
          PROVE  <<request'[q].browser, account'[q][1]>> \in opened'
        BY <1>2, <1>4, <2>2, InvAssumption DEF DeleteUser, Anonymise, Live
    <2>3. QED
        BY <1>2, <1>4, <2>1, <2>2, AccountWriters DEF Live
<1>5. QED
    BY <1>4 DEF OnlyInvited
-----------------------------------------------------------------------------
(* Links that closed, and signups that ended *)

\* A request's record changes by its own steps only.
LEMMA OwnSteps ==
    ASSUME Shape, Step, NEW q \in Requests
    PROVE  \/ request'[q] = request[q]
           \/ \E b \in Browsers :
                 \E link \in Invitations \cup {None}, post \in Addresses \cup {None} :
                     Begin(q, b, link, post)
           \/ ReadLink(q) \/ Revalidate(q) \/ CheckForm(q)
           \/ \E e \in Emails : CreateUser(q, e) /\ ~EmailTaken(e)
           \/ FindInvitation(q) \/ Consume(q) \/ Finish(q)
           \/ Ends(q, "failed")
<1> USE DEF Shape
<1>1. ASSUME NEW r \in Requests, r # q, NEW s, Goes(r, s) \/ Ends(r, s)
      PROVE  request'[q] = request[q]
    BY <1>1 DEF Goes, Ends
<1>2. ASSUME NEW r \in Requests, r # q, NEW b \in Browsers, NEW link \in Invitations \cup {None},
             NEW post \in Addresses \cup {None}, Begin(r, b, link, post)
      PROVE  request'[q] = request[q]
    BY <1>2 DEF Begin
<1>3. ASSUME NEW r \in Requests, r # q,
             \/ ReadLink(r) \/ Revalidate(r) \/ CheckForm(r) \/ Consume(r) \/ Finish(r) \/ Crash(r)
      PROVE  request'[q] = request[q]
    BY <1>1, <1>3 DEF ReadLink, Revalidate, CheckForm, Consume, Finish, Crash
<1>4. ASSUME NEW r \in Requests, r # q, NEW e \in Emails, CreateUser(r, e)
      PROVE  request'[q] = request[q]
    BY <1>1, <1>4 DEF CreateUser
<1>5. ASSUME NEW r \in Requests, r # q, FindInvitation(r)
      PROVE  request'[q] = request[q]
    BY <1>1, <1>5 DEF FindInvitation
<1>6. \A e \in Emails : CreateUser(q, e) => ~EmailTaken(e) \/ Ends(q, "failed")
    BY DEF CreateUser
<1>7. Crash(q) => Ends(q, "failed")
    BY DEF Crash
<1>8. QED
    BY <1>2, <1>3, <1>4, <1>5, <1>6, <1>7, RequestWriters

\* An account is made by its own request, and then it only leaves.
LEMMA OwnAccount ==
    ASSUME Shape, Step, NEW q \in Requests
    PROVE  \/ account'[q] = account[q]
           \/ account[q] # None /\ account'[q] \in {Left, Gone}
           \/ \E e \in Emails : CreateUser(q, e) /\ ~EmailTaken(e)
    BY AccountWriters, InvAssumption DEF Shape, CreateUser, DeleteUser, Anonymise, Live

\* After ReadLink comes the revalidation.
LEMMA ReadLinkStep ==
    ASSUME Shape, NEW r \in Requests, ReadLink(r)
    PROVE  request'[r].step = "revalidate"
<1> DEFINE held == [token |-> request[r].link, email |-> invitation[request[r].link].email]
           opens == [request[r] EXCEPT !.held = held, !.dirty = TRUE, !.link = None,
                                       !.step = "revalidate"]
           passes == [request[r] EXCEPT !.link = None, !.step = "revalidate"]
<1>1. request'[r] = opens \/ request'[r] = passes
    BY DEF ReadLink, Shape
<1>2. opens.step = "revalidate" /\ passes.step = "revalidate"
    BY DEF Shape, Request
<1> HIDE DEF opens, passes
<1>3. QED
    BY <1>1, <1>2

\* A created account has the e-mail the request keeps.
LEMMA CreateUserStep ==
    ASSUME Shape, NEW r \in Requests, NEW e \in Emails, CreateUser(r, e), ~EmailTaken(e)
    PROVE  request'[r].step = "find" /\ request'[r].email = e /\ account'[r] = e
<1>1. request'[r] = [request[r] EXCEPT !.email = e, !.step = "find"] /\ account'[r] = e
    BY DEF CreateUser, Shape
<1>2. QED
    BY <1>1 DEF Shape, Request

\* The revalidation lets a valid token pass, and a token that was dead all along is not.
LEMMA FormsAreFreshKept ==
    ASSUME Shape, FormsAreFresh, Step, Remember
    PROVE  FormsAreFresh'
<1> USE DEF Shape
<1>1. SUFFICES ASSUME NEW q \in Requests, request'[q].step \in {"form", "create"},
                      request'[q].held # None
               PROVE  request'[q].held.token \notin dead'[q]
    BY DEF FormsAreFresh
<1>2. request[q] \in Request
    OBVIOUS
<1>3. ASSUME request[q].step \in {"form", "create"}, request'[q].held = request[q].held
      PROVE  request'[q].held.token \notin dead'[q]
    BY <1>1, <1>3, DeadTokens DEF FormsAreFresh
<1>4. ASSUME Revalidate(q)
      PROVE  request'[q].held.token \notin dead'[q]
    <2>1. request'[q].held = request[q].held /\ IsValid(request[q].held.token)
        BY <1>1, <1>2, <1>4 DEF Revalidate, Request
    <2>2. \A i \in dead'[q] : i \in Invitations /\ ~IsValid(i)
        <3>1. invitation' = invitation
            BY <1>4 DEF Revalidate
        <3>2. \A i \in dead'[q] : ~IsValid(i)' /\ i \in Invitations
            BY DeadTokens, RememberTypes
        <3>3. QED
            BY <3>1, <3>2 DEF IsValid, Pending, Exists
    <2>3. QED
        BY <2>1, <2>2
<1>5. ASSUME CheckForm(q)
      PROVE  request'[q].held.token \notin dead'[q]
    BY <1>2, <1>3, <1>5 DEF CheckForm, Goes, Request
<1>6. \A s : Ends(q, s) => request'[q].held = None
    BY DEF Ends, Unborn
<1>7. ASSUME NEW b \in Browsers, NEW link \in Invitations \cup {None},
             NEW post \in Addresses \cup {None}, Begin(q, b, link, post)
      PROVE  FALSE
    BY <1>1, <1>7 DEF Begin, Unborn
<1>8. ~ReadLink(q)
    BY <1>1, ReadLinkStep
<1>9. \A e \in Emails : ~(CreateUser(q, e) /\ ~EmailTaken(e))
    BY <1>1, CreateUserStep
<1>10. ~Consume(q) /\ ~Finish(q)
    BY <1>1, <1>2, <1>6 DEF Consume, Finish, Goes, Request
<1>11. ~FindInvitation(q)
    <2> SUFFICES ASSUME FindInvitation(q) PROVE request'[q].step \in {"consume", "finish"}
        BY <1>1
    <2>1. CASE Candidates(request[q].email) = {}
        BY <1>2, <2>1 DEF FindInvitation, Goes, Request
    <2>2. CASE Candidates(request[q].email) # {}
        <3>1. PICK i \in Candidates(request[q].email) : request' = [request EXCEPT ![q] =
                   IF IsValid(i) THEN [@ EXCEPT !.found = i, !.step = "consume"]
                   ELSE [@ EXCEPT !.step = "finish"]]
            BY <2>2 DEF FindInvitation
        <3>2. QED
            BY <1>2, <3>1 DEF Request
    <2>3. QED
        BY <2>1, <2>2
<1>12. request'[q] = request[q] => request'[q].held.token \notin dead'[q]
    BY <1>1, <1>3
<1>13. QED
    BY <1>1, <1>4, <1>5, <1>6, <1>7, <1>8, <1>9, <1>10, <1>11, <1>12, OwnSteps

\* The signal finds what is open to its account, and its UPDATE closes it or finds it closed.
LEMMA OpenShrinksKept ==
    ASSUME Shape, Shape', UniquePending(invitation), OpenShrinks, AccountsComeLater, Step, Remember
    PROVE  OpenShrinks'
<1> USE DEF Shape
<1> SUFFICES ASSUME NEW q \in Requests
             PROVE  /\ \A i \in open'[q] : IsValid(i)' /\ invitation'[i].email = account'[q] /\ Live(q)'
                    /\ request'[q].step \in {"find", "consume"} /\ Live(q)'
                          => account'[q] = request'[q].email
                    /\ request'[q].step = "consume" => open'[q] \subseteq {request'[q].found}
                    /\ request'[q].step \in {"finish", "done"} => open'[q] = {}
    BY DEF OpenShrinks
<1>1. request[q] \in Request
    OBVIOUS
<1>2. \A i \in open'[q] : IsValid(i)' /\ invitation'[i].email = account'[q] /\ Live(q)'
    <2> SUFFICES ASSUME NEW i \in open'[q]
                 PROVE  IsValid(i)' /\ invitation'[i].email = account'[q] /\ Live(q)'
        OBVIOUS
    <2>1. i \in Invitations /\ IsValid(i)' /\ invitation'[i].email = account'[q]
        BY OpenInvitations
    <2>2. invitation'[i] \in Invitation
        BY <2>1 DEF IsValid, Pending, Exists
    <2>3. account'[q] \in Emails
        BY <2>1, <2>2 DEF Invitation
    <2>4. QED
        BY <2>1, <2>3 DEF Live
\* What is open to an account does not grow.
<1>3. account[q] # None \/ account'[q] = None => open'[q] \subseteq open[q]
    <2>1. account[q] # None => open'[q] \subseteq open[q]
        BY OpenInvitations
    <2>2. account'[q] = None => open'[q] = {}
        BY <1>2, InvAssumption DEF Live
    <2>3. QED
        BY <2>1, <2>2
<1>4. account'[q] = account[q] \/ account'[q] \in {Left, Gone} => open'[q] \subseteq open[q]
    BY <1>2, <1>3, InvAssumption DEF Live
<1>5. ASSUME NEW e \in Emails, CreateUser(q, e), ~EmailTaken(e)
      PROVE  request'[q].step = "find" /\ account'[q] = request'[q].email
    BY <1>5, CreateUserStep
<1>6. CASE request'[q] = request[q]
    <2>1. ASSUME NEW e \in Emails, CreateUser(q, e), ~EmailTaken(e)
          PROVE  FALSE
        BY <1>5, <1>6, <2>1 DEF CreateUser
    <2>2. account'[q] = account[q] \/ account'[q] \in {Left, Gone}
        BY <2>1, OwnAccount
    <2>3. open'[q] \subseteq open[q]
        BY <1>4, <2>2
    <2>4. Live(q)' => account'[q] = account[q] /\ Live(q)
        BY <2>2, InvAssumption DEF Live
    <2>5. QED
        BY <1>2, <1>6, <2>3, <2>4 DEF OpenShrinks
<1>7. ASSUME account'[q] = account[q], request[q].step \in {"new", "link", "revalidate", "form"}
      PROVE  open'[q] = {}
    BY <1>2, <1>7, InvAssumption DEF AccountsComeLater, Live
<1>8. ASSUME NEW b \in Browsers, NEW link \in Invitations \cup {None},
             NEW post \in Addresses \cup {None}, Begin(q, b, link, post)
      PROVE  request'[q].step \notin {"find", "consume", "finish", "done"}
    BY <1>8 DEF Begin, Unborn
<1>9. ASSUME Revalidate(q) \/ CheckForm(q)
      PROVE  request'[q].step \notin {"find", "consume"} /\ open'[q] = {}
    <2>1. Revalidate(q) => request'[q].step \in {"finish", "form"}
        BY <1>1 DEF Revalidate, Request
    <2>2. CheckForm(q) => request'[q].step \in {"finish", "create"}
        BY <1>1 DEF CheckForm, Goes, Request
    <2>3. QED
        BY <1>7, <1>9, <2>1, <2>2 DEF Revalidate, CheckForm
<1>10. CASE FindInvitation(q)
    <2>1. /\ invitation' = invitation /\ account' = account /\ request[q].step = "find"
        BY <1>10 DEF FindInvitation
    <2>2. open'[q] \subseteq open[q]
        BY <1>4, <2>1
    \* The signal's SELECT finds what is open.
    <2>3. \A i \in open[q] : i \in Candidates(request[q].email) /\ IsValid(i)
        BY <2>1 DEF OpenShrinks, Candidates, IsValid
    <2>4. CASE Candidates(request[q].email) = {}
        <3>1. request'[q] = [request[q] EXCEPT !.step = "finish"]
            BY <1>10, <2>4 DEF FindInvitation, Goes
        <3>2. request'[q].step = "finish"
            BY <1>1, <3>1 DEF Request
        <3>3. QED
            BY <1>2, <2>2, <2>3, <2>4, <3>2
    <2>5. CASE Candidates(request[q].email) # {}
        <3>1. PICK i \in Candidates(request[q].email) : request' = [request EXCEPT ![q] =
                   IF IsValid(i) THEN [@ EXCEPT !.found = i, !.step = "consume"]
                   ELSE [@ EXCEPT !.step = "finish"]]
            BY <1>10, <2>5 DEF FindInvitation
        <3>2. open[q] \subseteq {i}
            BY <2>3 DEF UniquePending, Candidates, Pending
        <3>3. CASE IsValid(i)
            <4>1. /\ request'[q].found = i /\ request'[q].step = "consume"
                  /\ request'[q].email = request[q].email
                BY <1>1, <3>1, <3>3 DEF Request
            <4>2. Live(q)' => account'[q] = request'[q].email
                BY <2>1, <4>1 DEF OpenShrinks, Live
            <4>3. QED
                BY <1>2, <2>2, <3>2, <4>1, <4>2
        <3>4. CASE ~IsValid(i)
            <4>1. request'[q].step = "finish"
                BY <1>1, <3>1, <3>4 DEF Request
            <4>2. open[q] = {}
                BY <2>3, <3>2, <3>4
            <4>3. QED
                BY <1>2, <2>2, <4>1, <4>2
        <3>5. QED
            BY <3>3, <3>4
    <2>6. QED
        BY <2>4, <2>5
<1>11. CASE Consume(q)
    <2> DEFINE f == request[q].found
    <2>1. request[q].step = "consume" /\ account' = account
        BY <1>11 DEF Consume
    <2>2. open'[q] \subseteq open[q] /\ open[q] \subseteq {f}
        BY <1>4, <2>1 DEF OpenShrinks
    <2>3. Ends(q, "failed") => request'[q].step = "failed"
        BY DEF Ends, Unborn
    <2>4. CASE Ends(q, "failed")
        BY <1>2, <2>4, <2>3
    <2>5. CASE Goes(q, "finish")
        <3>1. request'[q].step = "finish"
            BY <1>1, <2>5 DEF Goes, Request
        \* The UPDATE closes it, or finds it closed.
        <3>2. ASSUME NEW i \in open'[q]
              PROVE  FALSE
            <4>1. i = f /\ i \in open[q] /\ i \in Invitations /\ Pending(i)'
                BY <2>2, <3>2, OpenInvitations DEF IsValid
            <4>2. CASE ~Consumes(f)
                BY <4>1, <4>2 DEF OpenShrinks, Consumes, IsValid
            <4>3. CASE Consumes(f) /\ invitation' = [invitation EXCEPT ![f].consumer = q]
                <5>1. invitation[i] \in Invitation
                    BY <4>1, <4>3 DEF Consumes, Pending, Exists
                <5>2. invitation'[i].consumer = q
                    BY <4>1, <4>3, <5>1 DEF Invitation
                <5>3. QED
                    BY <4>1, <5>2, InvAssumption DEF Pending
            <4>4. QED
                BY <1>11, <2>3, <3>1, <4>2, <4>3 DEF Consume
        <3>3. QED
            BY <1>2, <2>2, <3>1, <3>2
    <2>6. QED
        BY <1>11, <2>4, <2>5 DEF Consume
<1>12. CASE Finish(q)
    <2>1. request'[q].step = "done" /\ request[q].step = "finish" /\ account' = account
        BY <1>12 DEF Finish, Ends, Unborn
    <2>2. open'[q] \subseteq open[q] /\ open[q] = {}
        BY <1>4, <2>1 DEF OpenShrinks
    <2>3. QED
        BY <1>2, <2>1, <2>2
<1>13. CASE Ends(q, "failed")
    <2>1. request'[q].step = "failed"
        BY <1>13 DEF Ends, Unborn
    <2>2. QED
        BY <1>2, <2>1
<1>14. CASE ReadLink(q)
    BY <1>2, <1>14, ReadLinkStep
<1>15. QED
    BY <1>2, <1>5, <1>6, <1>8, <1>9, <1>10, <1>11, <1>12, <1>13, <1>14, OwnSteps
-----------------------------------------------------------------------------
(* The theorems *)

\* Every step keeps the invariant.
LEMMA InvKept == InvInv /\ [InvNext]_invVars => InvInv'
<1> SUFFICES ASSUME InvInv, [InvNext]_invVars PROVE InvInv'
    OBVIOUS
<1>1. CASE InvNext
    <2>1. Step /\ Remember
        BY <1>1 DEF InvNext
    <2>2. /\ Shape /\ StepsHold /\ UniquePending(invitation) /\ UniqueAccounts /\ ConsumersExist
          /\ SessionsOpened /\ OnlyInvited /\ FormsAreFresh /\ OpenShrinks /\ AccountsComeLater
          /\ EditorHolds
        BY DEF InvInv
    <2>3. Shape' /\ StepsHold' /\ AccountsComeLater'
        BY <2>1, <2>2, ShapeKept, StepsHoldKept, AccountsComeLaterKept
    <2>4. UniquePending(invitation)' /\ UniqueAccounts' /\ ConsumersExist' /\ EditorHolds'
        BY <2>1, <2>2, UniquePendingKept, UniqueAccountsKept, ConsumersExistKept, EditorHoldsKept
    <2>5. SessionsOpened' /\ OnlyInvited'
        BY <2>1, <2>2, SessionsOpenedKept, OnlyInvitedKept
    <2>6. FormsAreFresh' /\ OpenShrinks'
        BY <2>1, <2>2, <2>3, FormsAreFreshKept, OpenShrinksKept
    <2>7. QED
        BY <2>3, <2>4, <2>5, <2>6 DEF InvInv
<1>2. CASE UNCHANGED invVars
    BY <1>2 DEF invVars, InvInv, Shape, StepsHold, UniquePending, UniqueAccounts, ConsumersExist,
           SessionsOpened, OnlyInvited, FormsAreFresh, OpenShrinks, AccountsComeLater, EditorHolds,
           Exists, Live, IsValid, Pending
<1>3. QED
    BY <1>1, <1>2

\* The invariant holds in every reachable state of the closed beta (apps/accounts).
THEOREM InvInvariant == InvSpec => []InvInv
    BY InitInv, InvKept, PTL DEF InvSpec

\* The state is well typed, the unique indexes and the foreign key hold (models.py:44, 116-123).
THEOREM InvTyped == InvSpec => []InvTypeOK
<1>1. InvInv => InvTypeOK
    BY DEF InvInv, Shape, UniqueAccounts, ConsumersExist, InvTypeOK
<1>2. QED
    BY <1>1, InvInvariant, PTL

\* Nobody has an account whose browser did not open a valid invitation for the address
\* (middleware.py, adapter.py: the token in the session decides).
THEOREM OnlyInvitedGetIn == InvSpec => []OnlyInvited
<1>1. InvInv => OnlyInvited
    BY DEF InvInv
<1>2. QED
    BY <1>1, InvInvariant, PTL

\* No request that began after a link closed creates an account with it
\* (middleware.py, _revalidate_session_token).
THEOREM LateLinksStayClosed == InvSpec => []LateLinksAreClosed
<1>1. InvInv => LateLinksAreClosed
    BY InvAssumption DEF InvInv, StepsHold, FormsAreFresh, LateLinksAreClosed
<1>2. QED
    BY <1>1, InvInvariant, PTL

\* A signup that ended leaves no invitation open that was valid for its e-mail all along
\* (signals.py, consume_invitation_on_signup).
THEOREM SignupClosesItsInvitation == InvSpec => []SignupCloses
<1>1. InvInv => SignupCloses
    BY DEF InvInv, OpenShrinks, SignupCloses
<1>2. QED
    BY <1>1, InvInvariant, PTL

\* No step gives a consumed invitation to another account.
LEMMA NotTakenOverStep ==
    ASSUME InvInv, [InvNext]_invVars, NEW i \in Invitations,
           Exists(invitation, i), Exists(invitation', i), invitation[i].consumer # None
    PROVE  invitation'[i].consumer \in {invitation[i].consumer, None}
<1> USE DEF InvInv, Shape
<1>1. CASE InvNext
    <2>1. Step
        BY <1>1 DEF InvNext
    <2>2. invitation[i] \in Invitation
        BY DEF Exists
    <2>3. ASSUME NEW r \in Requests, Consume(r)
          PROVE  invitation'[i].consumer \in {invitation[i].consumer, None}
        BY <2>3 DEF Consume, Consumes, Pending
    <2>4. ASSUME NEW r \in Requests, DeleteUser(r)
          PROVE  invitation'[i].consumer \in {invitation[i].consumer, None}
        BY <2>2, <2>4 DEF DeleteUser, Invitation
    <2>5. ASSUME NEW j \in Invitations, Expire(j) \/ DeleteInvitation(j)
          PROVE  invitation'[i].consumer \in {invitation[i].consumer, None}
        BY <2>2, <2>5 DEF Expire, DeleteInvitation, Exists, Invitation
    <2>6. ASSUME NEW j \in Invitations, NEW e \in Emails, Invite(j, e)
          PROVE  invitation'[i].consumer \in {invitation[i].consumer, None}
        BY <2>6 DEF Invite, Exists
    \* A form that read another consumer is refused, for that account is gone.
    <2>7. ASSUME NEW e \in Emails, NEW expired \in BOOLEAN, EditSave(e, expired)
          PROVE  invitation'[i].consumer \in {invitation[i].consumer, None}
        BY <2>7 DEF EditSave, EditorHolds
    <2>8. QED
        BY <2>1, <2>3, <2>4, <2>5, <2>6, <2>7, InvitationWriters
<1>2. CASE UNCHANGED invVars
    BY <1>2 DEF invVars
<1>3. QED
    BY <1>1, <1>2

\* A consumed invitation never passes straight to another account (signals.py, the
\* conditional UPDATE), whatever stale form the staff saves.
THEOREM ConsumersStay == InvSpec => NotTakenOver
<1>1. InvInv /\ [InvNext]_invVars =>
         [\A i \in Invitations :
             Exists(invitation, i) /\ Exists(invitation', i) /\ invitation[i].consumer # None
             => invitation'[i].consumer \in {invitation[i].consumer, None}]_invVars
    BY NotTakenOverStep
<1>2. QED
    BY <1>1, InvInvariant, PTL DEF InvSpec, NotTakenOver
=============================================================================
