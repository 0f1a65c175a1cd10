------------------------ MODULE ContributionsProofs ------------------------
(***************************************************************************)
(* What the contributions promise for any number of users, requests,       *)
(* observations, builds and texts, in three parts: the consents by         *)
(* themselves (Consent), the versions by themselves (Datasets), and what   *)
(* the community dataset promises the users whose consents it reads        *)
(* (Contributions).                                                        *)
(***************************************************************************)
EXTENDS Contributions, FiniteSetTheorems, TLAPS

-----------------------------------------------------------------------------
(***************************************************************************)
(* Consent: stored rows stay well formed, an answered and uncontested      *)
(* revocation holds, and a deletion nobody raced is final.  The argument   *)
(* rests on two facts: two requests of a user that run at once know each   *)
(* other (RivalsKnown), and only a running grant makes a row active        *)
(* (OnlyGrantsActivate).                                                   *)
(***************************************************************************)

-----------------------------------------------------------------------------
(* The inductive invariant, part by part *)

\* A request about to save holds the row it read.
CopyHeld == \A r \in Requests : request[r].step = "save" => request[r].copy # NoRow

\* Only grants run get_or_create.
GrantsCreate ==
    \A r \in Requests : request[r].step = "get_or_create" => request[r].op = "grant"

RivalsKnown ==
    \A r, q \in Requests :
        r # q /\ Running(r) /\ Running(q) /\ request[r].user = request[q].user
            => q \in request[r].rivals

Unopposed(r) == \A q \in request[r].rivals : request[q].op = "revoke"

\* No grant runs for a user who is opted out ...
NoGrantRuns(u) ==
    \A q \in Requests : Running(q) /\ request[q].user = u => request[q].op = "revoke"

OptedOutRests == \A u \in optedOut : ~IsActive(u) /\ NoGrantRuns(u)

\* ... and the row an unopposed revocation is about to report on is inactive.
AnswerStands ==
    \A r \in Requests :
        request[r].op = "revoke" /\ request[r].step = "audit" /\ Unopposed(r)
            => ~IsActive(request[r].user)

\* The row of a quiet user is gone, or goes when the open deletion commits.
QuietRests ==
    \A u \in quiet :
        /\ InFlight(u) = {}
        /\ erasure[u] \in {"cleared", "committed", "audited"}
        /\ consent[u] = NoRow \/ (erasure[u] = "cleared" /\ u \in doomed)

ErasureStep(u) ==
    EraseBegin(u) \/ EraseConsents(u) \/ EraseCommit(u) \/ EraseAudit(u) \/ EraseRollback(u)

TypeInv == ConsentTypeOK /\ CopyHeld /\ GrantsCreate
RevocationInv == RivalsKnown /\ OptedOutRests /\ AnswerStands

-----------------------------------------------------------------------------
(* Types *)

\* What every request starts as, and the rows a save stores, have their types.
LEMMA InitTyped == ConsentInit => TypeInv
<1> SUFFICES ASSUME ConsentInit PROVE TypeInv
    OBVIOUS
<1>1. PICK asked \in [Requests -> {[op |-> o, user |-> u, text |-> t, step |-> "waiting",
                copy |-> NoRow, wasActive |-> FALSE, rivals |-> {}, wrote |-> FALSE,
                logged |-> FALSE] : o \in {"grant", "revoke"}, u \in Users, t \in Texts}] :
             request = asked
    BY DEF ConsentInit
<1>2. ASSUME NEW r \in Requests PROVE request[r] \in Request /\ request[r].step = "waiting"
    <2>1. PICK o \in {"grant", "revoke"}, u \in Users, t \in Texts :
             request[r] = [op |-> o, user |-> u, text |-> t, step |-> "waiting",
                copy |-> NoRow, wasActive |-> FALSE, rivals |-> {}, wrote |-> FALSE,
                logged |-> FALSE]
        BY <1>1
    <2>2. QED
        BY <2>1 DEF Request, Steps
<1>3. request \in [Requests -> Request]
    BY <1>1, <1>2
<1>4. QED
    BY <1>2, <1>3 DEF ConsentInit, TypeInv, ConsentTypeOK, CopyHeld, GrantsCreate, ErasureSteps

\* Entering a view.
LEMMA BeginTyped == ASSUME TypeInv, NEW r \in Requests, Begin(r) PROVE TypeInv'
<1>1. ASSUME NEW q \in Requests
      PROVE  /\ request'[q] \in Request
             /\ request'[q].step = "save" => request'[q].copy # NoRow
             /\ request'[q].step = "get_or_create" => request'[q].op = "grant"
    <2> DEFINE entered == [request[r] EXCEPT
                   !.step = IF request[r].op = "grant" THEN "get_or_create" ELSE "was_active",
                   !.rivals = InFlight(request[r].user)]
               met == [request[q] EXCEPT !.rivals = @ \cup {r}]
    <2>1. request[q] \in Request /\ request[r] \in Request
        BY DEF TypeInv, ConsentTypeOK
    <2>2. /\ entered \in Request /\ entered.step # "save"
          /\ entered.step = "get_or_create" => entered.op = "grant"
        BY <2>1 DEF Request, Steps, InFlight
    <2>3. met \in Request /\ met.step = request[q].step
          /\ met.op = request[q].op /\ met.copy = request[q].copy
        BY <2>1 DEF Request
    <2>4. request'[q] = IF q = r THEN entered
                        ELSE IF q \in InFlight(request[r].user) THEN met ELSE request[q]
        BY DEF Begin, Enter
    <2> HIDE DEF entered, met
    <2>5. QED
        BY <2>1, <2>2, <2>3, <2>4 DEF TypeInv, CopyHeld, GrantsCreate
<1>2. CopyHeld' /\ GrantsCreate'
    BY <1>1 DEF CopyHeld, GrantsCreate
<1>3. request' \in [Requests -> Request]
    BY <1>1 DEF Begin, Enter
<1>4. QED
    BY <1>2, <1>3 DEF TypeInv, ConsentTypeOK, Begin, Enter

\* A step of one request that stores well-formed rows and holds what it saves.
LEMMA OneRequestTyped ==
    ASSUME TypeInv, NEW r \in Requests, NEW next \in Request,
           request' = [request EXCEPT ![r] = next],
           next.step = "save" => next.copy # NoRow,
           next.step # "get_or_create",
           consent' \in [Users -> Row \cup {NoRow}],
           \A u \in Users : consent'[u] # NoRow => (consent'[u].active <=> ~consent'[u].revoked),
           optedOut' \subseteq Users,
           UNCHANGED <<erasure, doomed, quiet>>
    PROVE  TypeInv'
<1>1. request' \in [Requests -> Request]
    BY DEF TypeInv, ConsentTypeOK
<1>2. CopyHeld' /\ GrantsCreate'
    BY DEF TypeInv, ConsentTypeOK, CopyHeld, GrantsCreate
<1>3. QED
    BY <1>1, <1>2 DEF TypeInv, ConsentTypeOK

\* Each statement of a request, and its death.
LEMMA RequestTyped ==
    ASSUME TypeInv, NEW r \in Requests, RequestStep(r) \/ Crash(r) PROVE TypeInv'
<1> DEFINE u == request[r].user
           q == request[r]
<1>1. q \in Request /\ u \in Users /\ q.text \in Texts /\ q.copy \in Row \cup {NoRow}
    BY DEF TypeInv, ConsentTypeOK, Request
<1>2. /\ consent \in [Users -> Row \cup {NoRow}] /\ request \in [Requests -> Request]
      /\ \A v \in Users : consent[v] # NoRow => (consent[v].active <=> ~consent[v].revoked)
      /\ optedOut \subseteq Users /\ Settle(r) \subseteq Users
    BY <1>1 DEF TypeInv, ConsentTypeOK, Settle
<1>3. NoRow \notin Row
    BY NoRowAssumption DEF Row
<1>4. IsActive(u) \in BOOLEAN
    BY Zenon DEF IsActive
<1>5. CASE GetOrCreate(r)
    <2> DEFINE new == [pk |-> r, active |-> TRUE, text |-> q.text, revoked |-> FALSE]
               row == IF consent[u] = NoRow THEN new ELSE consent[u]
               next == [q EXCEPT !.copy = row,
                           !.step = IF consent[u] = NoRow \/ consent[u].active
                                    THEN "audit" ELSE "save"]
    <2>1. new \in Row /\ new.active /\ ~new.revoked
        BY <1>1 DEF Row
    <2>2. row \in Row
        BY <1>1, <1>2, <2>1
    <2>3. next \in Request /\ next.copy = row /\ next.step \in {"audit", "save"}
        <3> HIDE DEF row
        <3>1. QED
            BY <1>1, <2>2 DEF Request, Steps
    <2>4. request' = [request EXCEPT ![r] = next]
        BY <1>2, <1>5 DEF GetOrCreate, Request
    <2>5. consent' \in [Users -> Row \cup {NoRow}]
        BY <1>1, <1>2, <1>5, <2>1 DEF GetOrCreate
    <2>6. \A v \in Users : consent'[v] # NoRow => (consent'[v].active <=> ~consent'[v].revoked)
        BY <1>1, <1>2, <1>5, <2>1 DEF GetOrCreate
    <2>7. optedOut' \subseteq Users /\ UNCHANGED <<erasure, doomed, quiet>>
        BY <1>2, <1>5 DEF GetOrCreate
    <2> HIDE DEF next
    <2>8. QED
        BY <1>3, <2>2, <2>3, <2>4, <2>5, <2>6, <2>7, OneRequestTyped
<1>6. CASE GrantSave(r)
    <2> DEFINE next == [q EXCEPT !.step = "audit"]
    <2>1. GrantedRow(r) \in Row /\ GrantedRow(r).active /\ ~GrantedRow(r).revoked
        BY <1>1, <1>6 DEF GrantSave, GrantedRow, Row, TypeInv, CopyHeld
    <2>2. next \in Request /\ next.step = "audit"
        BY <1>1 DEF Request, Steps
    <2>3. request' = [request EXCEPT ![r] = next] /\ consent' = [consent EXCEPT ![u] = GrantedRow(r)]
        BY <1>2, <1>6 DEF GrantSave, Request
    <2>4. optedOut' \subseteq Users /\ UNCHANGED <<erasure, doomed, quiet>>
        BY <1>2, <1>6 DEF GrantSave
    <2>5. /\ consent' \in [Users -> Row \cup {NoRow}]
          /\ \A v \in Users : consent'[v] # NoRow => (consent'[v].active <=> ~consent'[v].revoked)
        BY <1>1, <1>2, <2>1, <2>3
    <2> HIDE DEF next
    <2>6. QED
        BY <2>2, <2>3, <2>4, <2>5, OneRequestTyped
<1>7. CASE RevokeSave(r)
    <2> DEFINE active == IsActive(u)
               next == [q EXCEPT !.step = IF q.wasActive THEN "audit" ELSE "done",
                                 !.wrote = active]
    <2>1. RevokedRow(r) \in Row /\ ~RevokedRow(r).active /\ RevokedRow(r).revoked
        BY <1>1, <1>7 DEF RevokeSave, RevokedRow, Row, TypeInv, CopyHeld
    <2>2. request' = [request EXCEPT ![r] = next] /\ consent' = [consent EXCEPT ![u] = RevokedRow(r)]
        <3>1. request' = [request EXCEPT
                  ![r].step = IF q.wasActive THEN "audit" ELSE "done", ![r].wrote = active]
            BY <1>7 DEF RevokeSave
        <3>2. consent' = [consent EXCEPT ![u] = RevokedRow(r)]
            BY <1>7 DEF RevokeSave
        <3> HIDE DEF active
        <3>3. QED
            BY <1>2, <3>1, <3>2
    <2>3. optedOut' \subseteq Users /\ UNCHANGED <<erasure, doomed, quiet>>
        BY <1>2, <1>7 DEF RevokeSave
    <2>4. next \in Request /\ next.step \in {"audit", "done"}
        <3> HIDE DEF active
        <3>1. QED
            BY <1>1, <1>4 DEF Request, Steps, active
    <2>5. /\ consent' \in [Users -> Row \cup {NoRow}]
          /\ \A v \in Users : consent'[v] # NoRow => (consent'[v].active <=> ~consent'[v].revoked)
        BY <1>1, <1>2, <2>1, <2>2
    <2> HIDE DEF next
    <2>6. QED
        BY <2>2, <2>3, <2>4, <2>5, OneRequestTyped
<1>8. CASE CheckActive(r)
    <2> DEFINE active == IsActive(u)
               next == [q EXCEPT !.wasActive = active, !.step = "get"]
    <2>1. request' = [request EXCEPT ![r] = next]
        <3>1. request' = [request EXCEPT ![r].wasActive = active, ![r].step = "get"]
            BY <1>8 DEF CheckActive
        <3> HIDE DEF active
        <3>2. QED
            BY <1>2, <3>1
    <2>2. next \in Request /\ next.step = "get"
        <3> HIDE DEF active
        <3>1. QED
            BY <1>1, <1>4 DEF Request, Steps, active
    <2>3. UNCHANGED <<consent, erasure, doomed, optedOut, quiet>>
        BY <1>8 DEF CheckActive
    <2> HIDE DEF next
    <2>4. QED
        BY <1>2, <2>1, <2>2, <2>3, OneRequestTyped
<1>9. CASE RevokeGet(r)
    <2> DEFINE next == [q EXCEPT !.copy = consent[u], !.step = AfterGet(r)]
    <2>1. AfterGet(r) \in {"save", "audit", "done"} /\ (AfterGet(r) = "save" => consent[u] # NoRow)
        BY DEF AfterGet, IsActive
    <2>2. next \in Request /\ next.step = AfterGet(r) /\ next.copy = consent[u]
        BY <1>1, <1>2, <2>1 DEF Request, Steps
    <2>3. request' = [request EXCEPT ![r] = next]
        BY <1>2, <1>9 DEF RevokeGet
    <2>4. optedOut' \subseteq Users /\ UNCHANGED <<consent, erasure, doomed, quiet>>
        BY <1>2, <1>9 DEF RevokeGet
    <2> HIDE DEF next
    <2>5. QED
        BY <1>2, <2>1, <2>2, <2>3, <2>4, OneRequestTyped
<1>10. CASE SaveFails(r) \/ Crash(r)
    <2> DEFINE next == [q EXCEPT !.step = "failed"]
    <2>1. next \in Request /\ next.step = "failed"
        BY <1>1 DEF Request, Steps
    <2>2. request' = [request EXCEPT ![r] = next]
        BY <1>2, <1>10 DEF SaveFails, Crash
    <2>3. UNCHANGED <<consent, erasure, doomed, optedOut, quiet>>
        BY <1>10 DEF SaveFails, Crash
    <2> HIDE DEF next
    <2>4. QED
        BY <1>2, <2>1, <2>2, <2>3, OneRequestTyped
<1>11. CASE Audit(r)
    <2> DEFINE next == [q EXCEPT !.logged = TRUE, !.step = "done"]
    <2>1. next \in Request /\ next.step = "done"
        BY <1>1 DEF Request, Steps
    <2>2. request' = [request EXCEPT ![r] = next]
        BY <1>2, <1>11 DEF Audit
    <2>3. optedOut' \subseteq Users /\ UNCHANGED <<consent, erasure, doomed, quiet>>
        BY <1>2, <1>11 DEF Audit
    <2> HIDE DEF next
    <2>4. QED
        BY <1>2, <2>1, <2>2, <2>3, OneRequestTyped
<1>12. QED
    BY <1>5, <1>6, <1>7, <1>8, <1>9, <1>10, <1>11 DEF RequestStep

\* Each step of a deletion.
LEMMA ErasureTyped ==
    ASSUME TypeInv, NEW u \in Users, ErasureStep(u) PROVE TypeInv'
<1> USE DEF TypeInv, ConsentTypeOK, CopyHeld, GrantsCreate, ErasureSteps
<1>1. CASE EraseBegin(u)
    BY <1>1 DEF EraseBegin
<1>2. CASE EraseConsents(u)
    BY <1>2 DEF EraseConsents
<1>3. CASE EraseCommit(u)
    BY <1>3 DEF EraseCommit
<1>4. CASE EraseAudit(u)
    BY <1>4 DEF EraseAudit
<1>5. CASE EraseRollback(u)
    BY <1>5 DEF EraseRollback
<1>6. QED
    BY <1>1, <1>2, <1>3, <1>4, <1>5 DEF ErasureStep

LEMMA StepTyped == TypeInv /\ [ConsentNext]_consentVars => TypeInv'
<1> SUFFICES ASSUME TypeInv, [ConsentNext]_consentVars PROVE TypeInv'
    OBVIOUS
<1>1. CASE ConsentNext
    BY <1>1, BeginTyped, RequestTyped, ErasureTyped DEF ConsentNext, ErasureStep
<1>2. CASE UNCHANGED consentVars
    BY <1>2 DEF consentVars, TypeInv, ConsentTypeOK, CopyHeld, GrantsCreate
<1>3. QED
    BY <1>1, <1>2

\* The variables keep their types, and every stored row is one that clean() accepts,
\* whatever requests and deletions interleave (grant_consent, revoke_consent, clean).
THEOREM ConsentTyped == ConsentSpec => []ConsentTypeOK
<1>1. TypeInv => ConsentTypeOK
    BY DEF TypeInv
<1>2. QED
    BY InitTyped, StepTyped, <1>1, PTL DEF ConsentSpec

-----------------------------------------------------------------------------
(* Revocation *)

\* A statement of one request, or its death, leaves what every request asks, whom it
\* met, and how far the others are; it starts nothing.
LEMMA RequestFrame ==
    ASSUME TypeInv, NEW r \in Requests, RequestStep(r) \/ Crash(r)
    PROVE  /\ Running(r)
           /\ \A q \in Requests :
                  /\ request'[q].op = request[q].op
                  /\ request'[q].user = request[q].user
                  /\ request'[q].rivals = request[q].rivals
                  /\ q # r => request'[q] = request[q]
                  /\ Running(q)' => Running(q)
<1>1. request \in [Requests -> Request]
    BY DEF TypeInv, ConsentTypeOK
<1>2. Running(r)
    BY DEF RequestStep, Running, GetOrCreate, GrantSave, SaveFails, CheckActive, RevokeGet,
           RevokeSave, Audit, Crash
<1>3. \A q \in Requests :
          /\ request'[q].op = request[q].op
          /\ request'[q].user = request[q].user
          /\ request'[q].rivals = request[q].rivals
          /\ q # r => request'[q] = request[q]
    <2>1. CASE GetOrCreate(r)
        BY <1>1, <2>1 DEF GetOrCreate, Request
    <2>2. CASE GrantSave(r)
        BY <1>1, <2>2 DEF GrantSave, Request
    <2>3. CASE SaveFails(r) \/ Crash(r)
        BY <1>1, <2>3 DEF SaveFails, Crash, Request
    <2>4. CASE CheckActive(r)
        <3>1. PICK a : request' = [request EXCEPT ![r].wasActive = a, ![r].step = "get"]
            BY <2>4 DEF CheckActive
        <3>2. QED
            BY <1>1, <3>1 DEF Request
    <2>5. CASE RevokeGet(r)
        <3>1. PICK c, s : request' = [request EXCEPT ![r].copy = c, ![r].step = s]
            BY <2>5 DEF RevokeGet
        <3>2. QED
            BY <1>1, <3>1 DEF Request
    <2>6. CASE RevokeSave(r)
        <3>1. PICK s, w : request' = [request EXCEPT ![r].step = s, ![r].wrote = w]
            BY <2>6 DEF RevokeSave
        <3>2. QED
            BY <1>1, <3>1 DEF Request
    <2>7. CASE Audit(r)
        BY <1>1, <2>7 DEF Audit, Request
    <2>8. QED
        BY <2>1, <2>2, <2>3, <2>4, <2>5, <2>6, <2>7 DEF RequestStep
<1>4. \A q \in Requests : Running(q)' => Running(q)
    BY <1>2, <1>3 DEF Running
<1>5. QED
    BY <1>2, <1>3, <1>4

\* A row turns active only by a grant of its user that is running (GetOrCreate,
\* GrantSave).
LEMMA OnlyGrantsActivate ==
    ASSUME TypeInv, NEW r \in Requests, RequestStep(r) \/ Crash(r),
           NEW u \in Users, ~IsActive(u), IsActive(u)'
    PROVE  request[r].op = "grant" /\ request[r].user = u
<1>1. /\ consent \in [Users -> Row \cup {NoRow}] /\ request[r].user \in Users
      /\ request[r].step = "get_or_create" => request[r].op = "grant"
      /\ request[r].step = "save" => request[r].copy \in Row
    BY DEF TypeInv, ConsentTypeOK, GrantsCreate, CopyHeld, Request
<1>2. consent'[u] # consent[u]
    BY DEF IsActive
<1>3. CASE GetOrCreate(r)
    BY <1>1, <1>2, <1>3 DEF GetOrCreate
<1>4. CASE GrantSave(r)
    BY <1>1, <1>2, <1>4 DEF GrantSave
<1>5. CASE RevokeSave(r)
    <2>1. ~RevokedRow(r).active
        BY <1>1, <1>5 DEF RevokeSave, RevokedRow, Row
    <2>2. QED
        BY <1>1, <1>2, <1>5, <2>1 DEF RevokeSave, IsActive
<1>6. CASE SaveFails(r) \/ CheckActive(r) \/ RevokeGet(r) \/ Audit(r) \/ Crash(r)
    BY <1>2, <1>6 DEF SaveFails, CheckActive, RevokeGet, Audit, Crash
<1>7. QED
    BY <1>3, <1>4, <1>5, <1>6 DEF RequestStep

\* What a revocation leaves behind when it goes on to its audit event.
LEMMA RevocationLeavesInactive ==
    ASSUME TypeInv, NEW r \in Requests, RequestStep(r) \/ Crash(r),
           request[r].op = "revoke", request'[r].step \in {"audit", "done"},
           request[r].step # "audit"
    PROVE  ~IsActive(request[r].user)'
<1>1. /\ consent \in [Users -> Row \cup {NoRow}] /\ request \in [Requests -> Request]
      /\ request[r].user \in Users
      /\ request[r].step = "get_or_create" => request[r].op = "grant"
      /\ request[r].step = "save" => request[r].copy \in Row
    BY DEF TypeInv, ConsentTypeOK, GrantsCreate, CopyHeld, Request
<1>2. request'[r].user = request[r].user
    BY RequestFrame
<1>3. CASE RevokeGet(r)
    <2>1. request'[r].step = AfterGet(r) /\ consent' = consent
        BY <1>1, <1>3 DEF RevokeGet, Request
    <2>2. QED
        BY <1>2, <2>1 DEF AfterGet, IsActive
<1>4. CASE RevokeSave(r)
    <2>1. ~RevokedRow(r).active
        BY <1>1, <1>4 DEF RevokeSave, RevokedRow, Row
    <2>2. QED
        BY <1>1, <1>2, <1>4, <2>1 DEF RevokeSave, IsActive
<1>5. CASE CheckActive(r)
    <2>1. PICK a : request' = [request EXCEPT ![r].wasActive = a, ![r].step = "get"]
        BY <1>5 DEF CheckActive
    <2>2. QED
        BY <1>1, <2>1 DEF Request
<1>6. CASE SaveFails(r) \/ Crash(r)
    BY <1>1, <1>6 DEF SaveFails, Crash, Request
<1>7. QED
    BY <1>1, <1>3, <1>4, <1>5, <1>6 DEF RequestStep, GetOrCreate, GrantSave, Audit

\* After its audit event a request only ends.
LEMMA AuditEnds ==
    ASSUME TypeInv, NEW r \in Requests, RequestStep(r) \/ Crash(r), request[r].step = "audit"
    PROVE  consent' = consent /\ request'[r].step \in {"done", "failed"}
<1>1. Audit(r) \/ Crash(r)
    BY DEF RequestStep, GetOrCreate, GrantSave, SaveFails, CheckActive, RevokeGet, RevokeSave
<1>2. request \in [Requests -> Request]
    BY DEF TypeInv, ConsentTypeOK
<1>3. QED
    BY <1>1, <1>2 DEF Audit, Crash, Request

\* Who joins the opted-out users: the user of an unopposed revocation that ends.
LEMMA NewlyOptedOut ==
    ASSUME TypeInv, AnswerStands, NEW r \in Requests, RequestStep(r) \/ Crash(r),
           NEW u \in optedOut', u \notin optedOut
    PROVE  /\ request[r].user = u /\ request[r].op = "revoke" /\ Unopposed(r)
           /\ ~IsActive(u)'
<1>1. request \in [Requests -> Request]
    BY DEF TypeInv, ConsentTypeOK
<1>2. optedOut' = Settle(r) /\ request'[r].step = "done"
    <2>1. CASE RevokeGet(r)
        BY <1>1, <2>1 DEF RevokeGet, Request
    <2>2. CASE RevokeSave(r)
        <3>1. PICK w : request' = [request EXCEPT
                  ![r].step = IF request[r].wasActive THEN "audit" ELSE "done", ![r].wrote = w]
            BY <2>2 DEF RevokeSave
        <3>2. QED
            BY <1>1, <2>2, <3>1 DEF RevokeSave, Request
    <2>3. CASE Audit(r)
        BY <1>1, <2>3 DEF Audit, Request
    <2>4. QED
        BY <2>1, <2>2, <2>3 DEF RequestStep, GetOrCreate, GrantSave, SaveFails, CheckActive, Crash
<1>3. request[r].user = u /\ request[r].op = "revoke" /\ Unopposed(r)
    BY <1>2 DEF Settle, Unopposed
<1>4. ~IsActive(u)'
    <2>1. CASE request[r].step = "audit"
        <3>1. ~IsActive(u) /\ consent' = consent
            BY <1>3, <2>1, AuditEnds DEF AnswerStands
        <3>2. QED
            BY <3>1 DEF IsActive
    <2>2. CASE request[r].step # "audit"
        <3>1. ~IsActive(request[r].user)'
            BY <1>2, <1>3, <2>2, RevocationLeavesInactive
        <3>2. (request[r].user)' = u
            BY <1>3, RequestFrame
        <3>3. QED
            BY <3>1, <3>2 DEF IsActive
    <2>3. QED
        BY <2>1, <2>2
<1>5. QED
    BY <1>3, <1>4

LEMMA RevocationInit == ConsentInit /\ TypeInv => RevocationInv
<1> SUFFICES ASSUME ConsentInit, TypeInv PROVE RevocationInv
    OBVIOUS
<1>1. ASSUME NEW r \in Requests PROVE request[r].step = "waiting"
    BY DEF ConsentInit
<1>2. QED
    BY <1>1 DEF ConsentInit, RevocationInv, RivalsKnown, OptedOutRests, AnswerStands, Running

\* A request that enters meets every request of its user that runs, and they meet it.
LEMMA BeginRevocation ==
    ASSUME TypeInv, RevocationInv, NEW r \in Requests, Begin(r) PROVE RevocationInv'
<1> DEFINE entered == [request[r] EXCEPT
               !.step = IF request[r].op = "grant" THEN "get_or_create" ELSE "was_active",
               !.rivals = InFlight(request[r].user)]
           met(q) == [request[q] EXCEPT !.rivals = @ \cup {r}]
<1>1. \A q \in Requests : request[q] \in Request
    BY DEF TypeInv, ConsentTypeOK
<1>2. \A q \in Requests :
          request'[q] = IF q = r THEN entered
                        ELSE IF q \in InFlight(request[r].user) THEN met(q) ELSE request[q]
    BY DEF Begin, Enter
<1>3. ASSUME NEW q \in Requests
      PROVE  /\ request'[q].op = request[q].op /\ request'[q].user = request[q].user
             /\ q # r => /\ request'[q].step = request[q].step
                         /\ request[q].rivals \subseteq request'[q].rivals
             /\ q \in InFlight(request[r].user) => q # r /\ r \in request'[q].rivals
    <2>1. /\ entered.op = request[r].op /\ entered.user = request[r].user
          /\ request[r].step = "waiting"
        BY <1>1 DEF Request, Begin, Enter
    <2>2. /\ met(q).op = request[q].op /\ met(q).user = request[q].user
          /\ met(q).step = request[q].step /\ met(q).rivals = request[q].rivals \cup {r}
        BY <1>1 DEF Request
    <2>3. q \in InFlight(request[r].user) => q # r
        BY <2>1 DEF InFlight, Running
    <2> HIDE DEF entered, met
    <2>4. QED
        BY <1>2, <2>1, <2>2, <2>3
<1>4. /\ request'[r].rivals = InFlight(request[r].user)
      /\ request'[r].step \in {"get_or_create", "was_active"}
    BY <1>1, <1>2 DEF Request
<1> HIDE DEF entered, met
<1>5. RivalsKnown'
    <2> SUFFICES ASSUME NEW p \in Requests, NEW q \in Requests, p # q, Running(p)', Running(q)',
                        request'[p].user = request'[q].user
                 PROVE  q \in request'[p].rivals
        BY DEF RivalsKnown
    <2>1. \A x \in Requests \ {r} : Running(x)' => Running(x)
        BY <1>3 DEF Running
    <2>2. CASE p = r
        BY <1>3, <1>4, <2>1, <2>2 DEF InFlight
    <2>3. CASE q = r
        BY <1>3, <2>1, <2>3 DEF InFlight
    <2>4. CASE p # r /\ q # r
        BY <1>3, <2>1, <2>4 DEF RevocationInv, RivalsKnown
    <2>5. QED
        BY <2>2, <2>3, <2>4
<1>6. OptedOutRests'
    <2> SUFFICES ASSUME NEW u \in optedOut' PROVE ~IsActive(u)' /\ NoGrantRuns(u)'
        BY DEF OptedOutRests
    <2>1. u \in optedOut /\ (request[r].user = u => request[r].op = "revoke")
        BY <1>1 DEF Begin, Enter, Request
    <2>2. ~IsActive(u)'
        BY <2>1 DEF RevocationInv, OptedOutRests, Begin, Enter, IsActive
    <2>3. NoGrantRuns(u)'
        BY <1>3, <2>1 DEF RevocationInv, OptedOutRests, NoGrantRuns, Running
    <2>4. QED
        BY <2>2, <2>3
<1>7. AnswerStands'
    <2> SUFFICES ASSUME NEW q \in Requests, request'[q].op = "revoke",
                        request'[q].step = "audit", Unopposed(q)'
                 PROVE  ~IsActive(request[q].user)'
        BY <1>3 DEF AnswerStands
    <2>1. q # r /\ request[q].step = "audit" /\ request[q].op = "revoke"
        BY <1>3, <1>4
    <2>2. Unopposed(q)
        <3>1. request[q].rivals \subseteq Requests
            BY <1>1 DEF Request
        <3>2. QED
            BY <1>3, <2>1, <3>1 DEF Unopposed
    <2>3. consent' = consent /\ ~IsActive(request[q].user)
        BY <2>1, <2>2 DEF RevocationInv, AnswerStands, Begin, Enter
    <2>4. request[q].user' = request[q].user
        BY <1>3
    <2>5. QED
        BY <2>3, <2>4 DEF IsActive
<1>8. QED
    BY <1>5, <1>6, <1>7 DEF RevocationInv

LEMMA RequestRevocation ==
    ASSUME TypeInv, RevocationInv, NEW r \in Requests, RequestStep(r) \/ Crash(r)
    PROVE  RevocationInv'
<1>1. /\ Running(r) /\ request[r].user \in Users
      /\ \A q \in Requests : request[q] \in Request
    BY RequestFrame DEF TypeInv, ConsentTypeOK, Request
<1>2. \A q \in Requests :
          /\ request'[q].op = request[q].op /\ request'[q].user = request[q].user
          /\ request'[q].rivals = request[q].rivals
          /\ q # r => request'[q] = request[q]
          /\ Running(q)' => Running(q)
    BY RequestFrame
<1>3. RivalsKnown'
    BY <1>2 DEF RevocationInv, RivalsKnown
<1>4. OptedOutRests'
    <2> SUFFICES ASSUME NEW u \in optedOut' PROVE ~IsActive(u)' /\ NoGrantRuns(u)'
        BY DEF OptedOutRests
    <2>1. u \in Users
        BY StepTyped DEF TypeInv, ConsentTypeOK, ConsentNext
    <2>2. CASE u \in optedOut
        <3>1. ~IsActive(u) /\ NoGrantRuns(u)
            BY <2>2 DEF RevocationInv, OptedOutRests
        <3>2. ~IsActive(u)'
            BY <1>1, <2>1, <3>1, OnlyGrantsActivate DEF NoGrantRuns
        <3>3. NoGrantRuns(u)'
            BY <1>2, <3>1 DEF NoGrantRuns
        <3>4. QED
            BY <3>2, <3>3
    <2>3. CASE u \notin optedOut
        <3>1. /\ request[r].user = u /\ request[r].op = "revoke" /\ Unopposed(r)
              /\ ~IsActive(u)'
            BY <2>3, NewlyOptedOut DEF RevocationInv
        <3>2. NoGrantRuns(u)'
            BY <1>1, <1>2, <3>1 DEF NoGrantRuns, Unopposed, RevocationInv, RivalsKnown
        <3>3. QED
            BY <3>1, <3>2
    <2>4. QED
        BY <2>2, <2>3
<1>5. AnswerStands'
    <2> SUFFICES ASSUME NEW q \in Requests, request'[q].op = "revoke",
                        request'[q].step = "audit", Unopposed(q)'
                 PROVE  ~IsActive(request[q].user)'
        BY <1>2 DEF AnswerStands
    <2>1. request[q].op = "revoke" /\ Unopposed(q) /\ request[q].user \in Users
        <3>1. request[q].rivals \subseteq Requests
            BY <1>1 DEF Request
        <3>2. QED
            BY <1>1, <1>2, <3>1 DEF Unopposed, Request
    <2>2. CASE q = r
        <3>1. request[r].step # "audit"
            BY <2>2, AuditEnds
        <3>2. QED
            BY <2>1, <2>2, <3>1, RevocationLeavesInactive
    <2>3. CASE q # r
        <3>1. request[q].step = "audit" /\ Running(q)
            BY <1>2, <2>3 DEF Running
        <3>2. ~IsActive(request[q].user)
            BY <2>1, <3>1 DEF RevocationInv, AnswerStands
        <3>3. ~(request[r].op = "grant" /\ request[r].user = request[q].user)
            BY <1>1, <2>1, <2>3, <3>1 DEF Unopposed, RevocationInv, RivalsKnown
        <3>4. (request[q].user)' = request[q].user
            BY <1>2
        <3>5. QED
            BY <2>1, <3>2, <3>3, <3>4, OnlyGrantsActivate
    <2>4. QED
        BY <2>2, <2>3
<1>6. QED
    BY <1>3, <1>4, <1>5 DEF RevocationInv

\* A deletion activates no row and touches no request.
LEMMA ErasureRevocation ==
    ASSUME TypeInv, RevocationInv, NEW u \in Users, ErasureStep(u) PROVE RevocationInv'
<1>1. request' = request /\ optedOut' = optedOut
    BY DEF ErasureStep, EraseBegin, EraseConsents, EraseCommit, EraseAudit, EraseRollback
<1>2. ASSUME NEW v \in Users, IsActive(v)' PROVE IsActive(v)
    BY <1>2 DEF ErasureStep, EraseBegin, EraseConsents, EraseCommit, EraseAudit, EraseRollback,
       IsActive, TypeInv, ConsentTypeOK
<1>3. optedOut \subseteq Users /\ \A q \in Requests : request[q].user \in Users
    BY DEF TypeInv, ConsentTypeOK, Request
<1>4. RivalsKnown' /\ OptedOutRests'
    BY <1>1, <1>2, <1>3 DEF RevocationInv, RivalsKnown, OptedOutRests, NoGrantRuns, Running
<1>5. AnswerStands'
    <2> SUFFICES ASSUME NEW q \in Requests, request[q].op = "revoke",
                        request[q].step = "audit", Unopposed(q)
                 PROVE  ~IsActive(request[q].user)'
        BY <1>1 DEF AnswerStands, Unopposed
    <2>1. ~IsActive(request[q].user) /\ (request[q].user)' = request[q].user
        BY <1>1 DEF RevocationInv, AnswerStands
    <2>2. QED
        BY <1>2, <1>3, <2>1
<1>6. QED
    BY <1>4, <1>5 DEF RevocationInv

\* The invariant of consents, from which the theorems follow.
LEMMA RevocationStep == TypeInv /\ RevocationInv /\ [ConsentNext]_consentVars => RevocationInv'
<1> SUFFICES ASSUME TypeInv, RevocationInv, [ConsentNext]_consentVars PROVE RevocationInv'
    OBVIOUS
<1>1. CASE ConsentNext
    BY <1>1, BeginRevocation, RequestRevocation, ErasureRevocation DEF ConsentNext, ErasureStep
<1>2. CASE UNCHANGED consentVars
    BY <1>2 DEF consentVars, RevocationInv, RivalsKnown, OptedOutRests, AnswerStands,
       NoGrantRuns, Unopposed, Running, IsActive
<1>3. QED
    BY <1>1, <1>2

\* A revocation that was answered, and that no grant overlapped, holds until the user
\* asks to grant again, for any number of requests and users: the full-row saves of
\* slower requests never bring the consent back (grant_consent, revoke_consent).
THEOREM RevocationHolds == ConsentSpec => []RevocationSticks
<1>1. RevocationInv => RevocationSticks
    BY DEF RevocationInv, OptedOutRests, RevocationSticks
<1>2. QED
    BY InitTyped, RevocationInit, StepTyped, RevocationStep, <1>1, PTL DEF ConsentSpec

-----------------------------------------------------------------------------
(* Erasure *)

\* A request touches no row but its user's.
LEMMA OnlyOwnRow ==
    ASSUME TypeInv, NEW r \in Requests, RequestStep(r) \/ Crash(r),
           NEW u \in Users, u # request[r].user
    PROVE  consent'[u] = consent[u]
BY DEF TypeInv, ConsentTypeOK, RequestStep, GetOrCreate, GrantSave, SaveFails, CheckActive,
   RevokeGet, RevokeSave, Audit, Crash

\* A quiet user stays undisturbed while requests come and go ...
LEMMA RequestQuiet ==
    ASSUME TypeInv, QuietRests, NEW r \in Requests, Begin(r) \/ RequestStep(r) \/ Crash(r)
    PROVE  QuietRests'
<1>1. quiet' \subseteq quiet /\ quiet \subseteq Users /\ UNCHANGED <<erasure, doomed>>
    BY DEF TypeInv, ConsentTypeOK, Begin, Enter, RequestStep, GetOrCreate, GrantSave, SaveFails,
       CheckActive, RevokeGet, RevokeSave, Audit, Crash
<1> SUFFICES ASSUME NEW u \in quiet'
             PROVE  /\ InFlight(u)' = {}
                    /\ consent'[u] = consent[u]
    BY <1>1 DEF QuietRests
<1>2. \A q \in Requests : request[q].user = u => ~Running(q)
    BY <1>1 DEF QuietRests, InFlight
<1>3. CASE Begin(r)
    <2>1. request[r].user # u /\ consent' = consent
        BY <1>3 DEF Begin, Enter
    <2>2. \A q \in Requests : request'[q].user = request[q].user /\ (q # r => request'[q].step = request[q].step)
        <3>1. \A q \in Requests : request[q] \in Request
            BY DEF TypeInv, ConsentTypeOK
        <3>2. ASSUME NEW q \in Requests
              PROVE  request'[q].user = request[q].user /\ (q # r => request'[q].step = request[q].step)
            BY <1>3, <3>1 DEF Begin, Enter, Request
        <3>3. QED
            BY <3>2
    <2>3. QED
        BY <1>2, <2>1, <2>2 DEF InFlight, Running
<1>4. CASE RequestStep(r) \/ Crash(r)
    <2>1. Running(r) /\ \A q \in Requests :
                            request'[q].user = request[q].user /\ (Running(q)' => Running(q))
        BY <1>4, RequestFrame
    <2>2. request[r].user # u
        BY <1>2, <2>1
    <2>3. consent'[u] = consent[u]
        BY <1>1, <1>4, <2>2, OnlyOwnRow
    <2>4. QED
        BY <1>2, <2>1, <2>3 DEF InFlight
<1>5. QED
    BY <1>3, <1>4

\* ... and while deletions, theirs included, go on.
LEMMA ErasureQuiet ==
    ASSUME TypeInv, QuietRests, NEW v \in Users, ErasureStep(v) PROVE QuietRests'
<1>1. request' = request /\ quiet \subseteq Users /\ quiet' \subseteq Users
    BY DEF TypeInv, ConsentTypeOK, ErasureStep, EraseBegin, EraseConsents, EraseCommit,
       EraseAudit, EraseRollback
<1> SUFFICES ASSUME NEW u \in quiet'
             PROVE  /\ InFlight(u) = {}
                    /\ erasure'[u] \in {"cleared", "committed", "audited"}
                    /\ consent'[u] = NoRow \/ (erasure'[u] = "cleared" /\ u \in doomed')
    BY <1>1 DEF QuietRests, InFlight, Running
<1>2. CASE u = v
    BY <1>1, <1>2 DEF TypeInv, ConsentTypeOK, QuietRests, ErasureStep, EraseBegin,
       EraseConsents, EraseCommit, EraseAudit, EraseRollback
<1>3. CASE u # v
    <2>1. erasure'[u] = erasure[u] /\ consent'[u] = consent[u] /\ (u \in doomed => u \in doomed')
        BY <1>1, <1>3 DEF TypeInv, ConsentTypeOK, ErasureStep, EraseBegin, EraseConsents,
           EraseCommit, EraseAudit, EraseRollback
    <2>2. u \in quiet
        BY <1>3 DEF ErasureStep, EraseBegin, EraseConsents, EraseCommit, EraseAudit, EraseRollback
    <2>3. QED
        BY <2>1, <2>2 DEF QuietRests
<1>4. QED
    BY <1>2, <1>3

LEMMA QuietStep == TypeInv /\ QuietRests /\ [ConsentNext]_consentVars => QuietRests'
<1> SUFFICES ASSUME TypeInv, QuietRests, [ConsentNext]_consentVars PROVE QuietRests'
    OBVIOUS
<1>1. CASE ConsentNext
    BY <1>1, RequestQuiet, ErasureQuiet DEF ConsentNext, ErasureStep
<1>2. CASE UNCHANGED consentVars
    BY <1>2 DEF consentVars, QuietRests, InFlight, Running
<1>3. QED
    BY <1>1, <1>2

\* Once delete_account has committed for a user none of whose requests ran since its
\* delete statement, that user has no consent row ever again (delete_account).
THEOREM ErasureStays == ConsentSpec => []QuietErasureIsFinal
<1>1. ConsentInit => QuietRests
    BY DEF ConsentInit, QuietRests
<1>2. QuietRests => QuietErasureIsFinal
    BY DEF QuietRests, QuietErasureIsFinal, Erased
<1>3. QED
    BY InitTyped, StepTyped, QuietStep, <1>1, <1>2, PTL DEF ConsentSpec

-----------------------------------------------------------------------------
(* Requests that run alone *)

\* What the audit trail of a request rests on at each of its steps.
AnswersTruly(r) ==
    LET q == request[r]
    IN  /\ q.op = "grant" => /\ q.step \notin {"was_active", "get"}
                             /\ q.step = "audit" => IsActive(q.user)
        /\ q.op = "revoke" =>
              /\ q.step \notin {"audit", "done", "failed"} => ~q.wrote /\ ~q.logged
              /\ q.step = "get" => (q.wasActive <=> IsActive(q.user))
              /\ q.step = "save" => q.wasActive /\ IsActive(q.user)
              /\ q.step = "audit" => q.wrote /\ ~q.logged
              /\ q.step = "done" => (q.logged <=> q.wrote)

Alone(r) == request[r].rivals = {} /\ ~Erased(request[r].user)

\* A request that was not sent yet has done nothing.
Unsent(r) == request[r].step = "waiting" => ~request[r].wrote /\ ~request[r].logged

AloneInv == \A r \in Requests : Unsent(r) /\ (Alone(r) => AnswersTruly(r))

LEMMA AloneInit == ConsentInit /\ TypeInv => AloneInv
<1> SUFFICES ASSUME ConsentInit, TypeInv, NEW r \in Requests PROVE Unsent(r) /\ AnswersTruly(r)
    BY DEF AloneInv
<1>1. PICK asked \in [Requests -> {[op |-> o, user |-> u, text |-> t, step |-> "waiting",
                copy |-> NoRow, wasActive |-> FALSE, rivals |-> {}, wrote |-> FALSE,
                logged |-> FALSE] : o \in {"grant", "revoke"}, u \in Users, t \in Texts}] :
             request = asked
    BY DEF ConsentInit
<1>2. PICK o \in {"grant", "revoke"}, u \in Users, t \in Texts :
         request[r] = [op |-> o, user |-> u, text |-> t, step |-> "waiting",
            copy |-> NoRow, wasActive |-> FALSE, rivals |-> {}, wrote |-> FALSE,
            logged |-> FALSE]
    BY <1>1
<1>3. request[r].step = "waiting" /\ ~request[r].wrote /\ ~request[r].logged
    BY <1>2
<1>4. QED
    BY <1>3 DEF AnswersTruly, Unsent

\* A statement of a request leaves it sent.
LEMMA StaysSent ==
    ASSUME TypeInv, NEW r \in Requests, RequestStep(r) \/ Crash(r)
    PROVE  request'[r].step # "waiting"
<1>1. request \in [Requests -> Request]
    BY DEF TypeInv, ConsentTypeOK
<1>2. CASE CheckActive(r)
    <2>1. PICK a : request' = [request EXCEPT ![r].wasActive = a, ![r].step = "get"]
        BY <1>2 DEF CheckActive
    <2>2. QED
        BY <1>1, <2>1 DEF Request
<1>3. CASE RevokeSave(r)
    <2>1. PICK w : request' = [request EXCEPT
              ![r].step = IF request[r].wasActive THEN "audit" ELSE "done", ![r].wrote = w]
        BY <1>3 DEF RevokeSave
    <2>2. QED
        BY <1>1, <2>1 DEF Request
<1>4. CASE RevokeGet(r)
    BY <1>1, <1>4 DEF RevokeGet, AfterGet, Request
<1>5. CASE GetOrCreate(r) \/ GrantSave(r) \/ SaveFails(r) \/ Audit(r) \/ Crash(r)
    BY <1>1, <1>5 DEF GetOrCreate, GrantSave, SaveFails, Audit, Crash, Request
<1>6. QED
    BY <1>2, <1>3, <1>4, <1>5 DEF RequestStep

\* A request whose own record stands, and whose user's row stands while it runs, keeps
\* what it rests on.
LEMMA Undisturbed ==
    ASSUME NEW q \in Requests, AnswersTruly(q), request'[q] = request[q],
           Running(q) => consent'[request[q].user] = consent[request[q].user]
    PROVE  AnswersTruly(q)'
BY DEF AnswersTruly, Running, IsActive

\* The statements of a request that is alone: what it read is what it overwrites, and
\* its event is written exactly when it turned the row.
LEMMA OwnStepAnswers ==
    ASSUME TypeInv, NEW r \in Requests, AnswersTruly(r), RequestStep(r) \/ Crash(r)
    PROVE  AnswersTruly(r)'
<1> DEFINE u == request[r].user
           q == request[r]
<1>1. /\ consent \in [Users -> Row \cup {NoRow}] /\ request \in [Requests -> Request]
      /\ u \in Users /\ q \in Request /\ q.op \in {"grant", "revoke"}
      /\ q.step = "get_or_create" => q.op = "grant"
      /\ q.step = "save" => q.copy \in Row
    BY DEF TypeInv, ConsentTypeOK, GrantsCreate, CopyHeld, Request
<1>2. NoRow \notin Row
    BY NoRowAssumption DEF Row
<1>3. request'[r].op = q.op /\ request'[r].user = u
    BY RequestFrame
<1>4. CASE GetOrCreate(r)
    <2>1. /\ q.op = "grant" /\ request'[r].step = (IF consent[u] = NoRow \/ consent[u].active
                                                   THEN "audit" ELSE "save")
        BY <1>1, <1>4 DEF GetOrCreate, Request
    <2>2. CASE consent[u] = NoRow
        <3> DEFINE new == [pk |-> r, active |-> TRUE, text |-> q.text, revoked |-> FALSE]
        <3>1. new \in Row /\ new.active
            BY <1>1 DEF Row, Request
        <3>2. consent'[u] = new
            BY <1>1, <1>4, <2>2 DEF GetOrCreate
        <3> HIDE DEF new
        <3>3. QED
            BY <1>2, <1>3, <2>1, <2>2, <3>1, <3>2 DEF AnswersTruly, IsActive
    <2>3. CASE consent[u] # NoRow
        <3>1. consent' = consent
            BY <1>4, <2>3 DEF GetOrCreate
        <3>2. QED
            BY <1>3, <2>1, <2>3, <3>1 DEF AnswersTruly, IsActive
    <2>4. QED
        BY <2>2, <2>3
<1>5. CASE GrantSave(r)
    <2>1. GrantedRow(r) \in Row /\ GrantedRow(r).active
        BY <1>1, <1>5 DEF GrantSave, GrantedRow, Row, Request
    <2>2. consent'[u] = GrantedRow(r) /\ q.op = "grant" /\ request'[r].step = "audit"
        BY <1>1, <1>5 DEF GrantSave, Request
    <2>3. QED
        BY <1>2, <1>3, <2>1, <2>2 DEF AnswersTruly, IsActive
<1>6. CASE CheckActive(r)
    <2> DEFINE active == IsActive(u)
    <2>1. request' = [request EXCEPT ![r].wasActive = active, ![r].step = "get"]
        BY <1>6 DEF CheckActive
    <2>2. active <=> IsActive(u)'
        BY <1>3, <1>6 DEF CheckActive, IsActive
    <2>3. q.op = "revoke" /\ ~q.wrote /\ ~q.logged
        BY <1>1, <1>6 DEF CheckActive, AnswersTruly
    <2> HIDE DEF active
    <2>4. /\ request'[r].step = "get" /\ request'[r].wasActive = active
          /\ request'[r].wrote = q.wrote /\ request'[r].logged = q.logged
        BY <1>1, <2>1 DEF Request
    <2>5. QED
        BY <1>3, <2>2, <2>3, <2>4 DEF AnswersTruly, IsActive
<1>7. CASE RevokeGet(r)
    <2>1. /\ request'[r].step = AfterGet(r) /\ request'[r].wasActive = q.wasActive
          /\ request'[r].wrote = q.wrote /\ request'[r].logged = q.logged
        BY <1>1, <1>7 DEF RevokeGet, Request
    <2>2. q.op = "revoke" /\ ~q.wrote /\ ~q.logged /\ (q.wasActive <=> IsActive(u))
        BY <1>1, <1>7 DEF RevokeGet, AnswersTruly
    <2>3. consent' = consent
        BY <1>7 DEF RevokeGet
    <2>4. /\ AfterGet(r) \in {"save", "done"}
          /\ AfterGet(r) = "save" => q.wasActive /\ IsActive(u)
        BY <2>2 DEF AfterGet, IsActive
    <2>5. QED
        BY <1>1, <1>3, <2>1, <2>2, <2>3, <2>4 DEF AnswersTruly, IsActive
<1>8. CASE RevokeSave(r)
    <2> DEFINE active == IsActive(u)
    <2>1. request' = [request EXCEPT ![r].step = IF q.wasActive THEN "audit" ELSE "done",
                                     ![r].wrote = active]
        BY <1>8 DEF RevokeSave
    <2>2. q.op = "revoke" /\ q.wasActive /\ ~q.logged /\ active
        BY <1>8 DEF RevokeSave, AnswersTruly
    <2> HIDE DEF active
    <2>3. /\ request'[r].step = "audit" /\ request'[r].wrote
          /\ request'[r].logged = q.logged
        BY <1>1, <2>1, <2>2 DEF Request
    <2>4. ~request'[r].logged /\ request'[r].op = "revoke"
        BY <1>3, <2>2, <2>3
    <2>5. QED
        BY <2>3, <2>4 DEF AnswersTruly, IsActive
<1>9. CASE SaveFails(r) \/ Crash(r)
    <2>1. request'[r].step = "failed"
        BY <1>1, <1>9 DEF SaveFails, Crash, Request
    <2>2. QED
        BY <2>1 DEF AnswersTruly
<1>10. CASE Audit(r)
    <2>1. /\ request'[r].step = "done" /\ request'[r].logged = TRUE
          /\ request'[r].wrote = q.wrote
        BY <1>1, <1>10 DEF Audit, Request
    <2>2. q.op = "revoke" => q.wrote
        BY <1>10 DEF Audit, AnswersTruly
    <2>3. QED
        BY <1>3, <2>1, <2>2 DEF AnswersTruly
<1>11. QED
    BY <1>4, <1>5, <1>6, <1>7, <1>8, <1>9, <1>10 DEF RequestStep

\* Entering a view makes every running request of the user known to the newcomer.
LEMMA BeginAlone ==
    ASSUME TypeInv, AloneInv, NEW r \in Requests, Begin(r) PROVE AloneInv'
<1> DEFINE entered == [request[r] EXCEPT
               !.step = IF request[r].op = "grant" THEN "get_or_create" ELSE "was_active",
               !.rivals = InFlight(request[r].user)]
           met(q) == [request[q] EXCEPT !.rivals = @ \cup {r}]
<1>1. \A q \in Requests : request[q] \in Request
    BY DEF TypeInv, ConsentTypeOK
<1>2. /\ \A q \in Requests :
             request'[q] = IF q = r THEN entered
                           ELSE IF q \in InFlight(request[r].user) THEN met(q) ELSE request[q]
      /\ consent' = consent /\ erasure' = erasure
    BY DEF Begin, Enter
<1> SUFFICES ASSUME NEW q \in Requests PROVE Unsent(q)' /\ (Alone(q)' => AnswersTruly(q)')
    BY DEF AloneInv
<1>3. CASE q = r
    <2>1. /\ entered.step = IF request[r].op = "grant" THEN "get_or_create" ELSE "was_active"
          /\ entered.op = request[r].op /\ entered.user = request[r].user
          /\ entered.wrote = request[r].wrote /\ entered.logged = request[r].logged
        BY <1>1 DEF Request
    <2>2. request'[q] = entered
        BY <1>2, <1>3
    <2>3. ~request[r].wrote /\ ~request[r].logged
        BY DEF Begin, Enter, AloneInv, Unsent
    <2> HIDE DEF entered
    <2>4. QED
        BY <1>3, <2>1, <2>2, <2>3 DEF AnswersTruly, Unsent, IsActive
<1>4. CASE q # r /\ q \in InFlight(request[r].user)
    <2>1. r \in met(q).rivals /\ met(q).step = request[q].step
        BY <1>1 DEF Request
    <2>2. request'[q] = met(q) /\ request[q].step # "waiting"
        BY <1>2, <1>4 DEF InFlight, Running
    <2> HIDE DEF met
    <2>3. QED
        BY <2>1, <2>2 DEF Alone, Unsent
<1>5. CASE q # r /\ q \notin InFlight(request[r].user)
    <2>1. request'[q] = request[q]
        BY <1>2, <1>5
    <2>2. Unsent(q)'
        BY <2>1 DEF AloneInv, Unsent
    <2>3. Alone(q)' => Alone(q)
        BY <1>2, <2>1 DEF Alone, Erased
    <2>4. QED
        BY <1>2, <2>1, <2>2, <2>3, Undisturbed DEF AloneInv
<1>6. QED
    BY <1>3, <1>4, <1>5

\* A statement of another request finds no request of its user running alone.
LEMMA RequestAlone ==
    ASSUME TypeInv, RevocationInv, AloneInv, NEW r \in Requests, RequestStep(r) \/ Crash(r)
    PROVE  AloneInv'
<1>0. ASSUME NEW q \in Requests PROVE Unsent(q)'
    BY RequestFrame, StaysSent DEF AloneInv, Unsent
<1> SUFFICES ASSUME NEW q \in Requests, Alone(q)' PROVE AnswersTruly(q)'
    BY <1>0 DEF AloneInv
<1>1. /\ Running(r) /\ request'[q].user = request[q].user
      /\ request'[q].rivals = request[q].rivals
      /\ q # r => request'[q] = request[q]
    BY RequestFrame
<1>2. erasure' = erasure
    BY DEF RequestStep, GetOrCreate, GrantSave, SaveFails, CheckActive, RevokeGet, RevokeSave,
           Audit, Crash
<1>3. AnswersTruly(q) /\ request[q].rivals = {}
    BY <1>1, <1>2 DEF Alone, AloneInv, Erased
<1>4. CASE q = r
    BY <1>3, <1>4, OwnStepAnswers
<1>5. CASE q # r
    <2>1. Running(q) => request[q].user # request[r].user
        BY <1>1, <1>3, <1>5 DEF RevocationInv, RivalsKnown
    <2>2. request[q].user \in Users
        BY DEF TypeInv, ConsentTypeOK, Request
    <2>3. Running(q) => consent'[request[q].user] = consent[request[q].user]
        BY <2>1, <2>2, OnlyOwnRow
    <2>4. QED
        BY <1>1, <1>3, <1>5, <2>3, Undisturbed
<1>6. QED
    BY <1>4, <1>5

\* A deletion that did not commit left every row where it was.
LEMMA ErasureAlone ==
    ASSUME TypeInv, AloneInv, NEW v \in Users, ErasureStep(v) PROVE AloneInv'
<1>1. request' = request
    BY DEF ErasureStep, EraseBegin, EraseConsents, EraseCommit, EraseAudit, EraseRollback
<1> SUFFICES ASSUME NEW q \in Requests, Alone(q)' PROVE AnswersTruly(q)'
    BY <1>1 DEF AloneInv, Unsent
<1> DEFINE u == request[q].user
<1>2. u \in Users /\ request[q].rivals = {} /\ ~(erasure'[u] \in {"committed", "audited"})
    BY <1>1 DEF TypeInv, ConsentTypeOK, Request, Alone, Erased
<1>3. ~Erased(u) /\ consent'[u] = consent[u]
    <2>1. CASE u = v
        BY <1>2, <2>1 DEF TypeInv, ConsentTypeOK, ErasureStep, EraseBegin, EraseConsents,
           EraseCommit, EraseAudit, EraseRollback, Erased
    <2>2. CASE u # v
        BY <1>2, <2>2 DEF TypeInv, ConsentTypeOK, ErasureStep, EraseBegin, EraseConsents,
           EraseCommit, EraseAudit, EraseRollback, Erased
    <2>3. QED
        BY <2>1, <2>2
<1>4. QED
    BY <1>1, <1>2, <1>3, Undisturbed DEF AloneInv, Alone

LEMMA AloneStep ==
    TypeInv /\ RevocationInv /\ AloneInv /\ [ConsentNext]_consentVars => AloneInv'
<1> SUFFICES ASSUME TypeInv, RevocationInv, AloneInv, [ConsentNext]_consentVars PROVE AloneInv'
    OBVIOUS
<1>1. CASE ConsentNext
    BY <1>1, BeginAlone, RequestAlone, ErasureAlone DEF ConsentNext, ErasureStep
<1>2. CASE UNCHANGED consentVars
    BY <1>2 DEF consentVars, AloneInv, Unsent, Alone, AnswersTruly, Erased, IsActive
<1>3. QED
    BY <1>1, <1>2

\* A consent request of a user who had no other request and no deletion running is
\* audited truly: a revocation exactly when it turned an active row inactive, a grant
\* only with an active row to show (services.grant_consent, services.revoke_consent).
THEOREM AloneIsAudited == ConsentSpec => []AloneRequestIsAudited
<1>1. AloneInv => AloneRequestIsAudited
    BY DEF AloneInv, Alone, AnswersTruly, AloneRequestIsAudited, Erased
<1>2. QED
    BY InitTyped, RevocationInit, AloneInit, StepTyped, RevocationStep, AloneStep, <1>1, PTL
       DEF ConsentSpec

-----------------------------------------------------------------------------
(***************************************************************************)
(* Datasets: a version exists only with its audit event, numbers are       *)
(* distinct and follow one another, the page shows no version below the    *)
(* threshold, and the versions implement DatasetLedger.  The uniqueness of *)
(* a number comes from the unique column and its absence of gaps from the  *)
(* lock on the version it is counted from.                                 *)
(***************************************************************************)

\* A version on the page got there by its sample, or the staff's hand.
Earned(b) ==
    version[b].public /\ ~version[b].byHand =>
        Cardinality(version[b].rows) >= MinSample /\ version[b].status = "public"

AllEarned == \A b \in Stored : Earned(b)

\* A change form holds what its version holds, or held when the staff deleted it.
FormFits ==
    form # NoVersion =>
        /\ form.row.byHand
        /\ form.of \in Stored => /\ form.row.number = version[form.of].number
                                 /\ form.row.rows = version[form.of].rows
                                 /\ form.row.text = version[form.of].text
        /\ form.of \notin Stored => pruned

FormNumbered == form # NoVersion => form.row.number > 0

NumbersInv == NumbersFollow /\ FormNumbered

\* What Django's save() of a change form comes to.
Updates(b) ==
    /\ AdminSave(b) /\ b \in Stored /\ build' = build
    /\ version' = [version EXCEPT ![b] = form.row]

Reinserts(b) ==
    /\ AdminSave(b) /\ b \notin Stored /\ form.row.number \notin Numbers
    /\ version' = [version EXCEPT ![b] = form.row] /\ build' = Unseen(b)

LEMMA SaveCases ==
    ASSUME NEW b \in Builds, AdminSave(b)
    PROVE  Updates(b) \/ Reinserts(b) \/ UNCHANGED <<build, version, pruned>>
BY DEF AdminSave, Updates, Reinserts

-----------------------------------------------------------------------------
(* Types *)

LEMMA DatasetsInitTyped == DatasetsInit => DatasetsTypeOK
<1> SUFFICES ASSUME DatasetsInit PROVE DatasetsTypeOK
    OBVIOUS
<1>1. ASSUME NEW b \in Builds PROVE build[b] \in Build /\ build[b].step = "idle"
    <2>1. PICK t \in BuildTexts : build[b] = [step |-> "idle", text |-> t, rows |-> {},
                                         seen |-> {}, latest |-> NoVersion]
        BY DEF DatasetsInit
    <2>2. QED
        BY <2>1 DEF Build, BuildSteps
<1>2. build \in [Builds -> Build]
    <2>1. PICK asked \in [Builds -> {[step |-> "idle", text |-> t, rows |-> {}, seen |-> {},
                                      latest |-> NoVersion] : t \in BuildTexts}] : build = asked
        BY DEF DatasetsInit
    <2>2. QED
        BY <1>1, <2>1
<1>3. QED
    BY <1>1, <1>2 DEF DatasetsInit, DatasetsTypeOK, Stored

\* A build that moves on holds an audited version only when it is done, and keeps the
\* row it has locked.
LEMMA OneBuildTyped ==
    ASSUME DatasetsTypeOK, NEW b \in Builds, NEW next \in Build,
           build' = [build EXCEPT ![b] = next],
           version' = version, form' = form, pruned' = pruned, build[b].step # "done",
           next.step = "locked" => next.latest \in Stored \cup {NoVersion}
    PROVE  DatasetsTypeOK'
<1>1. build' \in [Builds -> Build]
    BY DEF DatasetsTypeOK
<1>2. Stored' = Stored
    BY DEF Stored
<1>3. QED
    BY <1>1, <1>2 DEF DatasetsTypeOK

LEMMA BuiltTyped ==
    ASSUME DatasetsTypeOK, NEW b \in Builds, build[b].step = "locked"
    PROVE  NextNumber(b) \in Nat \ {0} /\ Built(b) \in Version
<1>1. /\ build[b] \in Build
      /\ build[b].latest # NoVersion => version[build[b].latest] \in Version
    BY DEF DatasetsTypeOK, Stored, Build
<1>2. NextNumber(b) \in Nat \ {0}
    BY <1>1 DEF NextNumber, Version
<1>3. MeetsMinSample(build[b].rows) \in BOOLEAN
    <2>1. Cardinality(build[b].rows) \in Nat
        BY <1>1, ObservationsAssumption, FS_Subset, FS_CardinalityType DEF Build
    <2>2. QED
        BY <2>1, MinSampleAssumption DEF MeetsMinSample
<1>4. QED
    BY <1>1, <1>2, <1>3 DEF Built, Build, Version, Statuses

LEMMA BuildStepTyped ==
    ASSUME DatasetsTypeOK, NEW b \in Builds,
           (\E rows \in SUBSET Observations : Select(b, rows)) \/ BuildStep(b) \/ KillBuild(b)
    PROVE  DatasetsTypeOK'
<1>1. build[b] \in Build /\ build \in [Builds -> Build]
    BY DEF DatasetsTypeOK
<1>2. CASE \E rows \in SUBSET Observations : Select(b, rows)
    <2>1. PICK rows \in SUBSET Observations : Select(b, rows)
        BY <1>2
    <2> DEFINE next == [build[b] EXCEPT !.step = "selected", !.rows = rows]
    <2>2. next \in Build /\ next.step = "selected"
        BY <1>1 DEF Build, BuildSteps
    <2>3. build' = [build EXCEPT ![b] = next] /\ version' = version /\ form' = form
          /\ pruned' = pruned /\ build[b].step = "idle"
        BY <1>1, <2>1 DEF Select
    <2> HIDE DEF next
    <2>4. QED
        BY <2>2, <2>3, OneBuildTyped
<1>3. CASE QueryLatest(b)
    <2> DEFINE next == [build[b] EXCEPT !.step = "locking", !.seen = Stored]
    <2>1. next \in Build /\ next.step = "locking"
        BY <1>1 DEF Build, BuildSteps, Stored
    <2>2. build' = [build EXCEPT ![b] = next] /\ version' = version /\ form' = form
          /\ pruned' = pruned /\ build[b].step = "selected"
        BY <1>1, <1>3 DEF QueryLatest
    <2> HIDE DEF next
    <2>3. QED
        BY <2>1, <2>2, OneBuildTyped
<1>4. CASE LockLatest(b)
    <2>1. PICK c \in (build[b].seen \cap Stored) \cup {NoVersion} :
             build' = [build EXCEPT ![b].step = "locked", ![b].latest = c]
        BY <1>4 DEF LockLatest
    <2> DEFINE next == [build[b] EXCEPT !.step = "locked", !.latest = c]
    <2>2. next \in Build /\ next.latest \in Stored \cup {NoVersion}
        BY <1>1, <2>1 DEF Build, BuildSteps, Stored
    <2>3. build' = [build EXCEPT ![b] = next] /\ version' = version /\ form' = form
          /\ pruned' = pruned /\ build[b].step = "locking"
        BY <1>1, <1>4, <2>1 DEF LockLatest
    <2> HIDE DEF next
    <2>4. QED
        BY <2>2, <2>3, OneBuildTyped
<1>5. CASE CommitVersion(b)
    <2> DEFINE next == [build[b] EXCEPT !.step = "done"]
    <2>1. Built(b) \in Version /\ build[b].step = "locked"
        BY <1>5, BuiltTyped DEF CommitVersion
    <2>2. next \in Build /\ next.step = "done"
        BY <1>1 DEF Build, BuildSteps
    <2>3. /\ build' = [build EXCEPT ![b] = next] /\ form' = form /\ pruned' = pruned
          /\ version' = [version EXCEPT ![b] = Built(b)]
        BY <1>1, <1>5 DEF CommitVersion
    <2> HIDE DEF next
    <2>4. build' \in [Builds -> Build] /\ version' \in [Builds -> Version \cup {NoVersion}]
        BY <2>1, <2>2, <2>3 DEF DatasetsTypeOK
    <2>5. Stored' = Stored \cup {b}
        BY <2>1, <2>3, NoVersionAssumption DEF Stored, DatasetsTypeOK
    <2>6. QED
        BY <2>2, <2>3, <2>4, <2>5 DEF DatasetsTypeOK
<1>6. CASE CollideVersion(b) \/ KillBuild(b)
    <2> DEFINE next == [build[b] EXCEPT !.step = "failed"]
    <2>1. next \in Build /\ next.step = "failed"
        BY <1>1 DEF Build, BuildSteps
    <2>2. build' = [build EXCEPT ![b] = next] /\ version' = version /\ form' = form
          /\ pruned' = pruned /\ build[b].step # "done"
        BY <1>1, <1>6 DEF CollideVersion, KillBuild, InTransaction
    <2> HIDE DEF next
    <2>3. QED
        BY <2>1, <2>2, OneBuildTyped
<1>7. QED
    BY <1>2, <1>3, <1>4, <1>5, <1>6 DEF BuildStep

\* Inserting a version anew takes it out of the snapshots of the builds that run.
LEMMA UnseenKeeps ==
    ASSUME build \in [Builds -> Build], NEW b \in Builds
    PROVE  /\ Unseen(b) \in [Builds -> Build]
           /\ \A c \in Builds : /\ Unseen(b)[c].step = build[c].step
                                /\ Unseen(b)[c].rows = build[c].rows
                                /\ Unseen(b)[c].latest = build[c].latest
<1>1. ASSUME NEW c \in Builds
      PROVE  /\ Unseen(b)[c] \in Build
             /\ Unseen(b)[c].step = build[c].step /\ Unseen(b)[c].rows = build[c].rows
             /\ Unseen(b)[c].latest = build[c].latest
    BY DEF Unseen, Build
<1>2. QED
    BY <1>1 DEF Unseen

\* What moderation and the admin do to one stored version that no build has locked.
LEMMA HiddenTyped ==
    ASSUME DatasetsTypeOK, NEW b \in Stored
    PROVE  /\ Hidden(version[b]) \in Version /\ ~Hidden(version[b]).public
           /\ Hidden(version[b]).number = version[b].number
           /\ Hidden(version[b]).rows = version[b].rows
           /\ Hidden(version[b]).text = version[b].text
           /\ Hidden(version[b]).byHand = version[b].byHand
<1>1. version[b] \in Version
    BY DEF DatasetsTypeOK, Stored
<1>2. QED
    BY <1>1 DEF Hidden, Version, Statuses

LEMMA EditHolds ==
    ASSUME DatasetsTypeOK, NEW b \in Builds, AdminEdit(b)
    PROVE  /\ b \in Stored /\ UNCHANGED <<build, version, pruned>>
           /\ form' \in Form /\ form' # NoVersion /\ form'.of = b /\ form'.row.byHand
           /\ form'.row.number = version[b].number /\ form'.row.rows = version[b].rows
           /\ form'.row.text = version[b].text
<1>1. b \in Stored /\ UNCHANGED <<build, version, pruned>>
    BY DEF AdminEdit
<1>2. version[b] \in Version
    BY <1>1 DEF DatasetsTypeOK, Stored
<1>3. PICK rows \in SUBSET Observations, text \in BuildTexts, public \in BOOLEAN, s \in HandStatuses :
          /\ MetaOnly(b, rows, text)
          /\ form' = [of |-> b, row |-> [version[b] EXCEPT !.rows = rows, !.text = text,
                                            !.public = public, !.status = s, !.byHand = TRUE]]
    BY DEF AdminEdit
<1> DEFINE v == [version[b] EXCEPT !.rows = rows, !.text = text, !.public = public,
                                   !.status = s, !.byHand = TRUE]
<1>4. /\ v \in Version /\ v.number = version[b].number /\ v.rows = version[b].rows
      /\ v.text = version[b].text /\ v.byHand
    BY <1>2, <1>3, HandStatusesAssumption DEF MetaOnly, Version
<1>5. form' = [of |-> b, row |-> v]
    BY <1>3
<1> HIDE DEF v
<1>6. form' \in Form /\ form'.of = b /\ form'.row = v
    BY <1>4, <1>5 DEF Form
<1>7. QED
    BY <1>1, <1>4, <1>6, NoVersionAssumption

LEMMA SavedForm ==
    ASSUME DatasetsTypeOK, NEW b \in Builds, AdminSave(b)
    PROVE  /\ form # NoVersion /\ form.of = b /\ form.row \in Version
           /\ build[b].step = "done" /\ form' = NoVersion /\ pruned' = pruned
BY DEF AdminSave, DatasetsTypeOK, Form

LEMMA StaffTyped ==
    ASSUME DatasetsTypeOK, NEW b \in Builds, StaffStep(b) PROVE DatasetsTypeOK'
<1>1. CASE MarkSuspicious(b)
    <2>1. b \in Stored /\ version' = [version EXCEPT ![b] = Hidden(version[b])]
          /\ UNCHANGED <<build, form, pruned>>
        BY <1>1 DEF MarkSuspicious
    <2>2. Hidden(version[b]) \in Version
        BY <2>1, HiddenTyped
    <2>3. Stored' = Stored
        BY <2>1, <2>2, NoVersionAssumption DEF Stored, DatasetsTypeOK
    <2>4. QED
        BY <2>1, <2>2, <2>3 DEF DatasetsTypeOK
<1>2. CASE AdminEdit(b)
    <2>1. Stored' = Stored /\ b \in Stored
        BY <1>2, EditHolds DEF Stored
    <2>2. QED
        BY <1>2, <2>1, EditHolds DEF DatasetsTypeOK
<1>3. CASE Updates(b)
    <2>1. /\ form.row \in Version /\ form' = NoVersion /\ pruned' = pruned /\ build' = build
          /\ b \in Stored /\ version' = [version EXCEPT ![b] = form.row]
        BY <1>3, SavedForm DEF Updates
    <2>2. Stored' = Stored
        BY <2>1, NoVersionAssumption DEF Stored, DatasetsTypeOK
    <2>3. QED
        BY <2>1, <2>2 DEF DatasetsTypeOK
<1>4. CASE Reinserts(b)
    <2>1. /\ form.row \in Version /\ form' = NoVersion /\ pruned' = pruned
          /\ build' = Unseen(b) /\ build[b].step = "done"
          /\ version' = [version EXCEPT ![b] = form.row]
        BY <1>4, SavedForm DEF Reinserts
    <2>2. Stored' = Stored \cup {b}
        BY <2>1, NoVersionAssumption DEF Stored, DatasetsTypeOK
    <2>3. /\ build' \in [Builds -> Build]
          /\ \A c \in Builds : build'[c].step = build[c].step /\ build'[c].latest = build[c].latest
        BY <2>1, UnseenKeeps DEF DatasetsTypeOK
    <2>4. Stored \subseteq Builds
        BY DEF Stored
    <2>5. QED
        BY <2>1, <2>2, <2>3, <2>4 DEF DatasetsTypeOK
<1>5. CASE AdminSave(b) /\ UNCHANGED <<build, version, pruned>>
    BY <1>5, SavedForm DEF DatasetsTypeOK, Stored
<1>6. CASE AdminDelete(b)
    <2>1. Stored' = Stored \ {b}
        BY <1>6 DEF AdminDelete, Stored, DatasetsTypeOK
    <2>2. QED
        BY <1>6, <2>1 DEF AdminDelete, DatasetsTypeOK, Locked
<1>7. QED
    BY <1>1, <1>2, <1>3, <1>4, <1>5, <1>6, SaveCases DEF StaffStep

LEMMA DatasetsStepTyped == DatasetsTypeOK /\ [DatasetsNext]_datasetVars => DatasetsTypeOK'
<1> SUFFICES ASSUME DatasetsTypeOK, [DatasetsNext]_datasetVars PROVE DatasetsTypeOK'
    OBVIOUS
<1>1. CASE DatasetsNext
    BY <1>1, BuildStepTyped, StaffTyped DEF DatasetsNext
<1>2. CASE UNCHANGED datasetVars
    BY <1>2 DEF datasetVars, DatasetsTypeOK, Stored
<1>3. QED
    BY <1>1, <1>2

\* The types, a version exists only when its build ended with its audit event, and the
\* version a build counts from is not deleted under it (build_dataset_version).
THEOREM DatasetsTyped == DatasetsSpec => []DatasetsTypeOK
BY DatasetsInitTyped, DatasetsStepTyped, PTL DEF DatasetsSpec

-----------------------------------------------------------------------------
(* Numbers *)

\* The number a build counts to is one more than that of a stored version.
LEMMA NextNumberFollows ==
    ASSUME DatasetsTypeOK, NEW b \in Builds, build[b].step = "locked", NumbersFollow, ~pruned
    PROVE  \A n \in 1 .. (NextNumber(b) - 1) : n \in Numbers
<1>1. CASE build[b].latest = NoVersion
    BY <1>1 DEF NextNumber
<1>2. CASE build[b].latest # NoVersion
    <2>1. build[b].latest \in Stored /\ version[build[b].latest].number \in Nat
        BY <1>2 DEF DatasetsTypeOK, Stored, Version
    <2>2. QED
        BY <1>2, <2>1 DEF NextNumber, NumbersFollow
<1>3. QED
    BY <1>1, <1>2

\* A step that stores no version under a new number and forgets none.
LEMMA SameNumbers ==
    ASSUME NumbersFollow, Stored' = Stored, pruned' = pruned,
           \A b \in Stored : version'[b].number = version[b].number
    PROVE  NumbersFollow'
<1>1. Numbers' = Numbers
    BY DEF Numbers
<1>2. QED
    BY <1>1 DEF NumbersFollow

\* A build that moves on, but for its commit, stores nothing.
LEMMA BuildStores ==
    ASSUME NEW b \in Builds,
           (\E rows \in SUBSET Observations : Select(b, rows)) \/ QueryLatest(b) \/ LockLatest(b)
               \/ CollideVersion(b) \/ KillBuild(b)
    PROVE  version' = version /\ form' = form /\ pruned' = pruned
BY DEF Select, QueryLatest, LockLatest, CollideVersion, KillBuild

LEMMA CommitStores ==
    ASSUME DatasetsTypeOK, NEW b \in Builds, CommitVersion(b)
    PROVE  /\ b \notin Stored /\ Stored' = Stored \cup {b} /\ form' = form /\ pruned' = pruned
           /\ NextNumber(b) \in Nat \ {0} /\ NextNumber(b) \notin Numbers
           /\ version'[b] = Built(b) /\ Built(b) \in Version
           /\ \A c \in Stored : version'[c] = version[c]
           /\ Numbers' = Numbers \cup {NextNumber(b)}
<1>1. /\ build[b].step = "locked" /\ ~NumberTaken(b) /\ form' = form /\ pruned' = pruned
      /\ version' = [version EXCEPT ![b] = Built(b)]
    BY DEF CommitVersion
<1>2. NextNumber(b) \in Nat \ {0} /\ Built(b) \in Version /\ Built(b).number = NextNumber(b)
    BY <1>1, BuiltTyped DEF Built
<1>3. b \notin Stored /\ Stored' = Stored \cup {b}
    BY <1>1, <1>2, NoVersionAssumption DEF DatasetsTypeOK, Stored
<1>4. version'[b] = Built(b) /\ \A c \in Stored : version'[c] = version[c]
    BY <1>1, <1>3 DEF DatasetsTypeOK, Stored
<1>5. Numbers' = Numbers \cup {NextNumber(b)}
    BY <1>2, <1>3, <1>4 DEF Numbers
<1>6. QED
    BY <1>1, <1>2, <1>3, <1>4, <1>5 DEF NumberTaken

LEMMA CommitNumbers ==
    ASSUME DatasetsTypeOK, NumbersFollow, NEW b \in Builds, CommitVersion(b)
    PROVE  NumbersFollow'
<1>1. /\ b \notin Stored /\ Stored' = Stored \cup {b} /\ pruned' = pruned
      /\ NextNumber(b) \in Nat \ {0} /\ NextNumber(b) \notin Numbers
      /\ version'[b].number = NextNumber(b)
      /\ \A c \in Stored : version'[c] = version[c]
      /\ Numbers' = Numbers \cup {NextNumber(b)}
    <2>1. Built(b).number = NextNumber(b)
        BY DEF Built
    <2>2. QED
        BY <2>1, CommitStores
<1>2. \A c, d \in Stored' : version'[c].number = version'[d].number => c = d
    BY <1>1 DEF NumbersFollow, Numbers
<1>3. \A c \in Stored' : version'[c].number > 0
    BY <1>1 DEF NumbersFollow
<1>4. ASSUME ~pruned, NEW c \in Stored', NEW n \in 1 .. version'[c].number
      PROVE  n \in Numbers'
    <2>1. CASE c = b
        BY <1>1, <1>4, <2>1, NextNumberFollows DEF CommitVersion
    <2>2. CASE c # b
        BY <1>1, <1>4, <2>2 DEF NumbersFollow
    <2>3. QED
        BY <2>1, <2>2
<1>5. QED
    BY <1>1, <1>2, <1>3, <1>4 DEF NumbersFollow

LEMMA DeleteStores ==
    ASSUME DatasetsTypeOK, NEW b \in Builds, AdminDelete(b)
    PROVE  /\ b \in Stored /\ Stored' = Stored \ {b} /\ form' = form /\ pruned' = TRUE
           /\ \A c \in Stored' : version'[c] = version[c]
BY DEF AdminDelete, DatasetsTypeOK, Stored

LEMMA UpdateStores ==
    ASSUME DatasetsTypeOK, FormFits, NEW b \in Builds, MarkSuspicious(b) \/ Updates(b)
    PROVE  /\ b \in Stored /\ Stored' = Stored /\ pruned' = pruned
           /\ \A c \in Stored : /\ version'[c].number = version[c].number
                                /\ version'[c].rows = version[c].rows
                                /\ version'[c].text = version[c].text
           /\ \A c \in Stored \ {b} : version'[c] = version[c]
           /\ version'[b].byHand \/ (~version'[b].public /\ version'[b].byHand = version[b].byHand)
<1>1. \E v \in Version :
          /\ version' = [version EXCEPT ![b] = v]
          /\ v.number = version[b].number /\ v.rows = version[b].rows /\ v.text = version[b].text
          /\ v.byHand \/ (~v.public /\ v.byHand = version[b].byHand)
    <2>1. CASE MarkSuspicious(b)
        BY <2>1, HiddenTyped DEF MarkSuspicious
    <2>2. CASE Updates(b)
        BY <2>2, SavedForm DEF Updates, FormFits
    <2>3. QED
        BY <2>1, <2>2
<1>2. PICK v \in Version :
          /\ version' = [version EXCEPT ![b] = v]
          /\ v.number = version[b].number /\ v.rows = version[b].rows /\ v.text = version[b].text
          /\ v.byHand \/ (~v.public /\ v.byHand = version[b].byHand)
    BY <1>1
<1>3. b \in Stored /\ pruned' = pruned
    BY SavedForm DEF MarkSuspicious, Updates
<1>4. QED
    BY <1>2, <1>3, NoVersionAssumption DEF DatasetsTypeOK, Stored

\* A deleted version comes back under its number, that nobody took.
LEMMA ReinsertStores ==
    ASSUME DatasetsTypeOK, FormFits, NEW b \in Builds, Reinserts(b)
    PROVE  /\ b \notin Stored /\ Stored' = Stored \cup {b} /\ pruned /\ pruned'
           /\ form # NoVersion /\ form.of = b /\ form.row \in Version
           /\ version'[b] = form.row /\ form.row.byHand
           /\ form.row.number \notin Numbers
           /\ \A c \in Stored : version'[c] = version[c]
<1>1. /\ form # NoVersion /\ form.of = b /\ form.row \in Version /\ pruned' = pruned
      /\ b \notin Stored /\ form.row.number \notin Numbers
      /\ version' = [version EXCEPT ![b] = form.row]
    BY SavedForm DEF Reinserts
<1>2. form.row.byHand /\ pruned /\ pruned'
    BY <1>1 DEF FormFits
<1>3. QED
    BY <1>1, <1>2, NoVersionAssumption DEF DatasetsTypeOK, Stored

-----------------------------------------------------------------------------
(* The change form *)

\* A form stays as it is while its version keeps its contents, or is deleted.
LEMMA FormKept ==
    ASSUME FormFits, form' = form, pruned => pruned',
           form # NoVersion =>
               /\ form.of \in Stored => \/ pruned'
                                        \/ form.of \in Stored'
               /\ form.of \in Stored /\ form.of \in Stored' =>
                      /\ version'[form.of].number = version[form.of].number
                      /\ version'[form.of].rows = version[form.of].rows
                      /\ version'[form.of].text = version[form.of].text
               /\ form.of \notin Stored => form.of \notin Stored'
    PROVE  FormFits'
BY DEF FormFits

LEMMA FormStep == DatasetsTypeOK /\ FormFits /\ [DatasetsNext]_datasetVars => FormFits'
<1> SUFFICES ASSUME DatasetsTypeOK, FormFits, [DatasetsNext]_datasetVars PROVE FormFits'
    OBVIOUS
<1>1. CASE version' = version /\ form' = form /\ pruned' = pruned
    BY <1>1, FormKept DEF Stored
<1>2. ASSUME NEW b \in Builds, CommitVersion(b) PROVE FormFits'
    <2>1. form # NoVersion => form.of # b
        BY <1>2 DEF CommitVersion, DatasetsTypeOK
    <2>2. QED
        BY <1>2, <2>1, CommitStores, FormKept
<1>3. ASSUME NEW b \in Builds, MarkSuspicious(b) PROVE FormFits'
    BY <1>3, UpdateStores, FormKept DEF MarkSuspicious
<1>4. ASSUME NEW b \in Builds, AdminEdit(b) PROVE FormFits'
    BY <1>4, EditHolds DEF FormFits, Stored
<1>5. ASSUME NEW b \in Builds, AdminSave(b) PROVE FormFits'
    BY <1>5, SavedForm DEF FormFits
<1>6. ASSUME NEW b \in Builds, AdminDelete(b) PROVE FormFits'
    BY <1>6, DeleteStores, FormKept
<1>7. QED
    BY <1>1, <1>2, <1>3, <1>4, <1>5, <1>6, BuildStores
       DEF DatasetsNext, BuildStep, StaffStep, datasetVars

LEMMA FormInit == DatasetsInit => FormFits /\ FormNumbered
BY DEF DatasetsInit, FormFits, FormNumbered

LEMMA FormHolds == DatasetsSpec => []FormFits
BY DatasetsInitTyped, DatasetsStepTyped, FormInit, FormStep, PTL DEF DatasetsSpec

-----------------------------------------------------------------------------
(* Numbers and forms together *)

LEMMA FormNumberedStep ==
    DatasetsTypeOK /\ NumbersInv /\ [DatasetsNext]_datasetVars => FormNumbered'
<1> SUFFICES ASSUME DatasetsTypeOK, NumbersInv, [DatasetsNext]_datasetVars PROVE FormNumbered'
    OBVIOUS
<1>1. CASE form' = form
    BY <1>1 DEF NumbersInv, FormNumbered
<1>2. ASSUME NEW b \in Builds, AdminEdit(b) PROVE FormNumbered'
    BY <1>2, EditHolds DEF NumbersInv, NumbersFollow, FormNumbered
<1>3. ASSUME NEW b \in Builds, AdminSave(b) PROVE FormNumbered'
    BY <1>3, SavedForm DEF FormNumbered
<1>4. QED
    BY <1>1, <1>2, <1>3, BuildStores, CommitStores
       DEF DatasetsNext, BuildStep, StaffStep, MarkSuspicious, AdminDelete, datasetVars

LEMMA ReinsertNumbers ==
    ASSUME DatasetsTypeOK, FormFits, NumbersInv, NEW b \in Builds, Reinserts(b)
    PROVE  NumbersFollow'
<1>1. /\ b \notin Stored /\ Stored' = Stored \cup {b} /\ pruned'
      /\ version'[b].number = form.row.number /\ form.row.number > 0
      /\ form.row.number \notin Numbers
      /\ \A c \in Stored : version'[c] = version[c]
    BY ReinsertStores DEF NumbersInv, FormNumbered
<1>2. \A c, d \in Stored' : version'[c].number = version'[d].number => c = d
    BY <1>1 DEF NumbersInv, NumbersFollow, Numbers
<1>3. \A c \in Stored' : version'[c].number > 0
    BY <1>1 DEF NumbersInv, NumbersFollow
<1>4. QED
    BY <1>1, <1>2, <1>3 DEF NumbersFollow

LEMMA NumbersStep ==
    DatasetsTypeOK /\ FormFits /\ NumbersInv /\ [DatasetsNext]_datasetVars => NumbersInv'
<1> SUFFICES ASSUME DatasetsTypeOK, FormFits, NumbersInv, [DatasetsNext]_datasetVars
             PROVE  NumbersFollow'
    BY FormNumberedStep DEF NumbersInv
<1>1. NumbersFollow
    BY DEF NumbersInv
<1>2. CASE version' = version /\ pruned' = pruned
    BY <1>1, <1>2, SameNumbers DEF Stored
<1>3. CASE \E b \in Builds : CommitVersion(b)
    BY <1>1, <1>3, CommitNumbers
<1>4. CASE \E b \in Builds : MarkSuspicious(b) \/ Updates(b)
    BY <1>1, <1>4, UpdateStores, SameNumbers
<1>5. CASE \E b \in Builds : Reinserts(b)
    BY <1>5, ReinsertNumbers
<1>6. CASE \E b \in Builds : AdminDelete(b)
    BY <1>1, <1>6, DeleteStores DEF NumbersFollow
<1>7. QED
    BY <1>2, <1>3, <1>4, <1>5, <1>6, BuildStores, EditHolds, SaveCases
       DEF DatasetsNext, BuildStep, StaffStep, datasetVars

LEMMA NumbersInit == DatasetsInit => NumbersInv
BY FormInit DEF DatasetsInit, NumbersInv, NumbersFollow, Stored

\* However many builds run at once, no two versions share a number, and until the staff
\* deletes one the numbers have no gap (build_dataset_version).
THEOREM NumbersHold == DatasetsSpec => []NumbersFollow
<1>1. NumbersInv => NumbersFollow
    BY DEF NumbersInv
<1>2. QED
    BY DatasetsInitTyped, DatasetsStepTyped, FormHolds, NumbersInit, NumbersStep, <1>1, PTL
       DEF DatasetsSpec

-----------------------------------------------------------------------------
(* The page *)

LEMMA EarnedStep ==
    DatasetsTypeOK /\ FormFits /\ AllEarned /\ [DatasetsNext]_datasetVars => AllEarned'
<1> SUFFICES ASSUME DatasetsTypeOK, FormFits, AllEarned, [DatasetsNext]_datasetVars
             PROVE  AllEarned'
    OBVIOUS
<1>1. CASE version' = version
    BY <1>1 DEF AllEarned, Earned, Stored
<1>2. ASSUME NEW b \in Builds, CommitVersion(b) PROVE AllEarned'
    <2>1. /\ Stored' = Stored \cup {b} /\ version'[b] = Built(b)
          /\ \A c \in Stored : version'[c] = version[c]
        BY <1>2, CommitStores
    <2>2. Built(b).public = MeetsMinSample(build[b].rows) /\ Built(b).rows = build[b].rows
          /\ (MeetsMinSample(build[b].rows) => Built(b).status = "public")
        BY DEF Built
    <2>3. Earned(b)'
        BY <2>1, <2>2 DEF Earned, MeetsMinSample
    <2>4. QED
        BY <2>1, <2>3 DEF AllEarned, Earned
<1>3. ASSUME NEW b \in Builds, MarkSuspicious(b) \/ Updates(b) PROVE AllEarned'
    BY <1>3, UpdateStores DEF AllEarned, Earned
<1>4. ASSUME NEW b \in Builds, Reinserts(b) PROVE AllEarned'
    BY <1>4, ReinsertStores DEF AllEarned, Earned
<1>5. ASSUME NEW b \in Builds, AdminDelete(b) PROVE AllEarned'
    BY <1>5, DeleteStores DEF AllEarned, Earned
<1>6. QED
    BY <1>1, <1>2, <1>3, <1>4, <1>5, BuildStores, EditHolds, SaveCases
       DEF DatasetsNext, BuildStep, StaffStep, datasetVars

\* The community page shows no version below the threshold, nor one that was marked
\* suspicious, unless the staff made it public by hand (community_dashboard,
\* mark_dataset_suspicious).
THEOREM PageHolds == DatasetsSpec => []PageMeetsThreshold
<1>1. DatasetsInit => AllEarned
    BY DEF DatasetsInit, AllEarned, Stored
<1>2. AllEarned => PageMeetsThreshold
    BY DEF AllEarned, Earned, PageMeetsThreshold, Shown
<1>3. QED
    BY DatasetsInitTyped, DatasetsStepTyped, FormHolds, EarnedStep, <1>1, <1>2, PTL
       DEF DatasetsSpec

-----------------------------------------------------------------------------
(* The versions implement the ledger *)

Entry(b) == [number |-> version[b].number,
             content |-> [rows |-> version[b].rows, text |-> version[b].text]]

Entries == {Entry(b) : b \in Stored}

LEMMA CommitAppends ==
    ASSUME DatasetsTypeOK, NumbersFollow, NEW b \in Builds, CommitVersion(b)
    PROVE  Ledger!LedgerNext
<1> DEFINE e == [number |-> NextNumber(b), content |-> [rows |-> build[b].rows, text |-> build[b].text]]
<1>1. /\ b \notin Stored /\ Stored' = Stored \cup {b} /\ pruned' = pruned
      /\ NextNumber(b) \in Nat \ {0} /\ NextNumber(b) \notin Numbers
      /\ version'[b] = Built(b)
      /\ \A c \in Stored : version'[c] = version[c]
    BY CommitStores
<1>2. Entries' = Entries \cup {e} /\ e \in Entries'
    BY <1>1 DEF Entries, Entry, Built
<1>3. e.number = NextNumber(b) /\ e \in [number : Nat, content : [rows : SUBSET Observations, text : BuildTexts]]
    BY <1>1 DEF DatasetsTypeOK, Build
<1>4. {x.number : x \in Entries} = Numbers /\ \A n \in Numbers : n \in Nat
    <2>1. \A c \in Stored : Entry(c).number = version[c].number
        BY DEF Entry
    <2>2. {x.number : x \in Entries} = Numbers
        BY <2>1 DEF Entries, Numbers
    <2>3. \A n \in Numbers : n \in Nat
        BY DEF Numbers, DatasetsTypeOK, Stored, Version
    <2>4. QED
        BY <2>2, <2>3
<1> HIDE DEF e
<1>5. ASSUME ~pruned
      PROVE  /\ \A n \in Numbers : n < e.number
             /\ \A n \in 1 .. (e.number - 1) : n \in Numbers
    <2>1. \A n \in 1 .. (e.number - 1) : n \in Numbers
        BY <1>3, <1>5, NextNumberFollows DEF CommitVersion
    <2>2. ASSUME NEW c \in Stored, version[c].number >= e.number PROVE FALSE
        <3>1. version[c].number \in Nat /\ e.number \in 1 .. version[c].number
            BY <1>1, <1>3, <1>4, <2>2 DEF Numbers
        <3>2. QED
            BY <1>1, <1>3, <1>5, <3>1 DEF NumbersFollow
    <2>3. QED
        BY <1>1, <1>3, <1>4, <2>1, <2>2 DEF Numbers
<1>6. QED
    BY <1>1, <1>2, <1>3, <1>4, <1>5
       DEF Ledger!LedgerNext, Ledger!Append, Ledger!Entry, Ledger!LedgerNumbers, Entries, Entry

LEMMA DeleteWithdraws ==
    ASSUME DatasetsTypeOK, NumbersFollow, NEW b \in Builds, AdminDelete(b)
    PROVE  Ledger!LedgerNext
<1>1. b \in Stored /\ Stored' = Stored \ {b} /\ pruned' = TRUE
      /\ \A c \in Stored' : version'[c] = version[c]
    BY DeleteStores
<1>2. \A c \in Stored : Entry(c) = Entry(b) => c = b
    BY <1>1 DEF Entry, NumbersFollow
<1>3. Entry(b) \in Entries /\ Entries' = Entries \ {Entry(b)}
    BY <1>1, <1>2 DEF Entries, Entry
<1>4. QED
    BY <1>1, <1>3 DEF Ledger!LedgerNext, Ledger!Withdraw, Entries, Entry

LEMMA ReinsertAppends ==
    ASSUME DatasetsTypeOK, FormFits, NumbersInv, NEW b \in Builds, Reinserts(b)
    PROVE  Ledger!LedgerNext
<1> DEFINE e == [number |-> form.row.number,
                 content |-> [rows |-> form.row.rows, text |-> form.row.text]]
<1>1. /\ b \notin Stored /\ Stored' = Stored \cup {b} /\ pruned /\ pruned'
      /\ version'[b] = form.row /\ form.row \in Version /\ form.row.number > 0
      /\ form.row.number \notin Numbers
      /\ \A c \in Stored : version'[c] = version[c]
    BY ReinsertStores DEF NumbersInv, FormNumbered
<1>2. Entries' = Entries \cup {e} /\ e \in Entries'
    BY <1>1 DEF Entries, Entry
<1>3. /\ e.number \in Nat \ {0} /\ e.number \notin Numbers
      /\ e \in [number : Nat, content : [rows : SUBSET Observations, text : BuildTexts]]
    BY <1>1 DEF Version
<1>4. {x.number : x \in Entries} = Numbers
    <2>1. \A c \in Stored : Entry(c).number = version[c].number
        BY DEF Entry
    <2>2. QED
        BY <2>1 DEF Entries, Numbers
<1> HIDE DEF e
<1>5. pruned' = pruned
    BY SavedForm DEF Reinserts
<1>6. QED
    BY <1>1, <1>2, <1>3, <1>4, <1>5
       DEF Ledger!LedgerNext, Ledger!Append, Ledger!Entry, Ledger!LedgerNumbers, Entries, Entry

LEMMA LedgerStep ==
    DatasetsTypeOK /\ FormFits /\ NumbersInv /\ [DatasetsNext]_datasetVars =>
        [Ledger!LedgerNext]_<<Entries, pruned>>
<1> SUFFICES ASSUME DatasetsTypeOK, FormFits, NumbersInv, [DatasetsNext]_datasetVars
             PROVE  Ledger!LedgerNext \/ (Entries' = Entries /\ pruned' = pruned)
    OBVIOUS
<1>1. NumbersFollow
    BY DEF NumbersInv
<1>2. CASE version' = version /\ pruned' = pruned
    BY <1>2 DEF Entries, Entry, Stored
<1>3. CASE \E b \in Builds : CommitVersion(b)
    BY <1>1, <1>3, CommitAppends
<1>4. CASE \E b \in Builds : MarkSuspicious(b) \/ Updates(b)
    BY <1>4, UpdateStores DEF Entries, Entry
<1>5. CASE \E b \in Builds : Reinserts(b)
    BY <1>5, ReinsertAppends
<1>6. CASE \E b \in Builds : AdminDelete(b)
    BY <1>1, <1>6, DeleteWithdraws
<1>7. QED
    BY <1>2, <1>3, <1>4, <1>5, <1>6, BuildStores, EditHolds, SaveCases
       DEF DatasetsNext, BuildStep, StaffStep, datasetVars

\* The versions are the ledger DatasetLedger promises: what a version holds never changes
\* and its number is the next one, whatever moderation and the admin do (DatasetVersion,
\* build_dataset_version).
THEOREM LedgerImplemented == DatasetsSpec => ImplementsLedger
<1>1. DatasetsInit => Ledger!LedgerInit
    BY DEF DatasetsInit, Ledger!LedgerInit, Stored
<1>2. DatasetsTypeOK /\ FormFits /\ NumbersInv /\ [DatasetsNext]_datasetVars =>
          [Ledger!LedgerNext]_<<{[number |-> version[b].number,
              content |-> [rows |-> version[b].rows, text |-> version[b].text]] : b \in Stored},
              pruned>>
    BY LedgerStep DEF Entries, Entry
<1>3. QED
    BY DatasetsInitTyped, DatasetsStepTyped, FormHolds, NumbersInit, NumbersStep, <1>1, <1>2, PTL
       DEF DatasetsSpec, ImplementsLedger, Ledger!LedgerSpec

-----------------------------------------------------------------------------
(***************************************************************************)
(* Contributions: a build holds nothing of a user who had opted out, or    *)
(* was erased, when it began.  The builds only read what the users write,  *)
(* so the invariants of Consent and of Datasets hold here as they are;     *)
(* what is added follows the owners a build found into the version it      *)
(* stores.                                                                 *)
(***************************************************************************)

-----------------------------------------------------------------------------
(* The inductive invariant *)

\* The owners a build found had not opted out, nor been erased.
OwnersAllowed ==
    \A b \in Builds : \A u \in reading[b].owners :
        u \notin reading[b].optedOut /\ u \notin reading[b].erased

\* A build selects observations of those owners, and stores what it selected.
RowsOfOwners ==
    \A b \in Builds :
        /\ build[b].step = "idle" => build[b].rows = {}
        /\ \A o \in build[b].rows : Owner[o] \in reading[b].owners

StoredAsSelected ==
    /\ \A b \in Stored : version[b].rows = build[b].rows
    /\ form # NoVersion => form.row.rows = build[form.of].rows

SelectionInv == OwnersAllowed /\ RowsOfOwners /\ StoredAsSelected

ConsentInv == TypeInv /\ RevocationInv /\ QuietRests

-----------------------------------------------------------------------------
(* The parts keep their behaviour *)

LEMMA ConsentSteps == [Next]_vars => [ConsentNext]_consentVars
<1> SUFFICES ASSUME [Next]_vars PROVE ConsentNext \/ UNCHANGED consentVars
    OBVIOUS
<1>1. CASE UserNext
    <2>1. CASE \E u \in Users : EraseObservations(u) \/ EraseAccount(u) \/ AbandonErasure(u)
        BY <2>1 DEF ConsentNext, EraseObservations, EraseAccount, AbandonErasure
    <2>2. CASE \E o \in Observations : RegisterBegin(o) \/ RegisterInsert(o) \/ MarkObservation(o)
        BY <2>2 DEF RegisterBegin, RegisterInsert, MarkObservation
    <2>3. QED
        BY <1>1, <2>1, <2>2 DEF UserNext, ConsentNext
<1>2. CASE BuildNext
    BY <1>2 DEF BuildNext, ReadConsents, ReadObservations, userVars
<1>3. QED
    BY <1>1, <1>2 DEF Next, vars, userVars

LEMMA DatasetsSteps == [Next]_vars => [DatasetsNext]_datasetVars
<1> SUFFICES ASSUME [Next]_vars PROVE DatasetsNext \/ UNCHANGED datasetVars
    OBVIOUS
<1>1. CASE BuildNext
    <2>1. CASE \E b \in Builds : ReadConsents(b)
        BY <2>1 DEF ReadConsents, datasetVars
    <2>2. CASE \E b \in Builds : ReadObservations(b)
        BY <2>2 DEF ReadObservations, DatasetsNext
    <2>3. QED
        BY <1>1, <2>1, <2>2 DEF BuildNext, DatasetsNext
<1>2. QED
    BY <1>1 DEF Next, vars, buildVars

\* Whatever the users do meanwhile, the versions behave as Datasets says: its theorems
\* hold of the whole (build_dataset_version only reads what users write).
THEOREM DatasetsImplemented == Spec => ImplementsDatasets
<1>1. Init => DatasetsInit
    BY DEF Init
<1>2. QED
    BY <1>1, DatasetsSteps, PTL DEF Spec, DatasetsSpec, ImplementsDatasets

LEMMA ConsentInvHolds == Spec => []ConsentInv
<1>1. Init => ConsentInv
    <2>1. ConsentInit => QuietRests
        BY DEF ConsentInit, QuietRests
    <2>2. QED
        BY <2>1, InitTyped, RevocationInit DEF Init, ConsentInv
<1>2. ConsentInv /\ [Next]_vars => ConsentInv'
    BY ConsentSteps, StepTyped, RevocationStep, QuietStep DEF ConsentInv
<1>3. QED
    BY <1>1, <1>2, PTL DEF Spec

LEMMA DatasetsTypedHolds == Spec => [](DatasetsTypeOK /\ FormFits)
BY DatasetsImplemented, DatasetsTyped, FormHolds, PTL DEF ImplementsDatasets

-----------------------------------------------------------------------------
(* Types *)

LocalTypeOK ==
    /\ observation \in [Observations -> [state : ObservationStates, optin : BOOLEAN]]
    /\ doomedObs \subseteq Observations
    /\ \A o \in doomedObs : Live(o)
    /\ reading \in [Builds -> Reading]
    /\ \A b \in Builds : build[b].step # "idle" => reading[b].begun

LEMMA LocalInit == Init => LocalTypeOK
<1> SUFFICES ASSUME Init PROVE LocalTypeOK
    OBVIOUS
<1>1. [begun |-> FALSE, owners |-> {}, optedOut |-> {}, erased |-> {}] \in Reading
    BY DEF Reading
<1>2. [state |-> "absent", optin |-> FALSE] \in [state : ObservationStates, optin : BOOLEAN]
    BY DEF ObservationStates
<1>3. ASSUME NEW b \in Builds PROVE build[b].step = "idle"
    <2>1. PICK t \in BuildTexts : build[b] = [step |-> "idle", text |-> t, rows |-> {},
                                              seen |-> {}, latest |-> NoVersion]
        BY DEF Init, DatasetsInit
    <2>2. QED
        BY <2>1
<1>4. QED
    BY <1>1, <1>2, <1>3 DEF Init, LocalTypeOK

\* What a user's step does to an observation keeps its type, and the rows an open
\* deletion holds are still there.
LEMMA UserLocal == ASSUME LocalTypeOK, UserNext, UNCHANGED buildVars PROVE LocalTypeOK'
<1>1. UNCHANGED <<reading, build>>
    BY DEF buildVars, datasetVars
<1>2. CASE UNCHANGED <<observation, doomedObs>>
    BY <1>1, <1>2 DEF LocalTypeOK, Live
<1>3. ASSUME NEW u \in Users, EraseObservations(u) PROVE LocalTypeOK'
    BY <1>1, <1>3 DEF LocalTypeOK, EraseObservations, Live
<1>4. ASSUME NEW u \in Users, EraseAccount(u) PROVE LocalTypeOK'
    <2>1. \A o \in Observations :
              observation'[o] = IF o \in doomedObs /\ Owner[o] = u
                                THEN [observation[o] EXCEPT !.state = "gone"] ELSE observation[o]
        BY <1>4 DEF EraseAccount
    <2>2. ASSUME NEW o \in Observations
          PROVE  [observation[o] EXCEPT !.state = "gone"] \in [state : ObservationStates, optin : BOOLEAN]
        BY DEF LocalTypeOK, ObservationStates
    <2>3. observation' \in [Observations -> [state : ObservationStates, optin : BOOLEAN]]
        BY <1>4, <2>1, <2>2 DEF EraseAccount, LocalTypeOK
    <2>4. doomedObs' \subseteq doomedObs /\ \A o \in doomedObs' : Owner[o] # u
        BY <1>4 DEF EraseAccount
    <2>5. \A o \in doomedObs' : Live(o)'
        BY <2>1, <2>4 DEF LocalTypeOK, Live
    <2>6. QED
        BY <1>1, <2>3, <2>4, <2>5 DEF LocalTypeOK
<1>5. ASSUME NEW u \in Users, AbandonErasure(u) PROVE LocalTypeOK'
    BY <1>1, <1>5 DEF LocalTypeOK, AbandonErasure, Live
<1>6. ASSUME NEW o \in Observations, RegisterBegin(o) PROVE LocalTypeOK'
    <2>1. PICK optin \in BOOLEAN :
              observation' = [observation EXCEPT ![o] = [state |-> "incoming", optin |-> optin]]
        BY <1>6 DEF RegisterBegin
    <2>2. [state |-> "incoming", optin |-> optin] \in [state : ObservationStates, optin : BOOLEAN]
        BY DEF ObservationStates
    <2>3. o \notin doomedObs /\ doomedObs' = doomedObs
        BY <1>6 DEF RegisterBegin, LocalTypeOK, Live
    <2>4. QED
        BY <1>1, <2>1, <2>2, <2>3 DEF LocalTypeOK, Live
<1>7. ASSUME NEW o \in Observations, RegisterInsert(o) \/ MarkObservation(o) PROVE LocalTypeOK'
    <2>1. PICK s \in {"valid", "excluded"} : observation' = [observation EXCEPT ![o].state = s]
        BY <1>7 DEF RegisterInsert, MarkObservation
    <2>2. doomedObs' = doomedObs
        BY <1>7 DEF RegisterInsert, MarkObservation
    <2>3. QED
        BY <1>1, <2>1, <2>2 DEF LocalTypeOK, Live, ObservationStates
<1>8. QED
    BY <1>2, <1>3, <1>4, <1>5, <1>6, <1>7 DEF UserNext

\* The first query of a build: what it finds, and who could not be found.
LEMMA ReadTyped ==
    ASSUME ConsentInv, DatasetsTypeOK, NEW b \in Builds
    PROVE  /\ Consenting(build[b].text) \subseteq Users
           /\ optedOut \subseteq Users /\ {u \in quiet : Erased(u)} \subseteq Users
           /\ \A u \in Consenting(build[b].text) :
                  u \notin optedOut /\ u \notin {v \in quiet : Erased(v)}
BY DEF ConsentInv, TypeInv, ConsentTypeOK, RevocationInv, OptedOutRests, QuietRests, Consenting,
   IsActive, Erased

\* Only its two queries change what a build holds, and who it found.
LEMMA BuildKeeps ==
    ASSUME DatasetsTypeOK, NEW b \in Builds, BuildStep(b) \/ KillBuild(b) \/ StaffStep(b)
    PROVE  \A c \in Builds : /\ build'[c].rows = build[c].rows
                             /\ build'[c].step = "idle" <=> build[c].step = "idle"
<1>1. CASE QueryLatest(b)
    BY <1>1 DEF QueryLatest, DatasetsTypeOK, Build
<1>2. CASE LockLatest(b)
    <2>1. PICK v : build' = [build EXCEPT ![b].step = "locked", ![b].latest = v]
        BY <1>2 DEF LockLatest
    <2>2. build[b].step = "locking"
        BY <1>2 DEF LockLatest
    <2>3. QED
        BY <2>1, <2>2 DEF DatasetsTypeOK, Build
<1>3. CASE CommitVersion(b)
    BY <1>3 DEF CommitVersion, DatasetsTypeOK, Build
<1>4. CASE CollideVersion(b) \/ KillBuild(b)
    BY <1>4 DEF CollideVersion, KillBuild, InTransaction, DatasetsTypeOK, Build
<1>5. CASE StaffStep(b) /\ build' = build
    BY <1>5
<1>6. CASE StaffStep(b) /\ build' # build
    <2>1. build' = Unseen(b)
        BY <1>6 DEF StaffStep, MarkSuspicious, AdminEdit, AdminSave, AdminDelete
    <2>2. QED
        BY <2>1, UnseenKeeps DEF DatasetsTypeOK
<1>7. QED
    BY <1>1, <1>2, <1>3, <1>4, <1>5, <1>6 DEF BuildStep

LEMMA BuildLocal ==
    ASSUME ConsentInv, DatasetsTypeOK, LocalTypeOK, BuildNext PROVE LocalTypeOK'
<1>1. UNCHANGED <<observation, doomedObs>>
    BY DEF BuildNext, ReadConsents, ReadObservations, userVars
<1>2. ASSUME NEW b \in Builds, ReadConsents(b) PROVE LocalTypeOK'
    <2> DEFINE found == [begun |-> TRUE, owners |-> Consenting(build[b].text),
                         optedOut |-> optedOut, erased |-> {u \in quiet : Erased(u)}]
    <2>1. found \in Reading /\ found.begun
        BY ReadTyped DEF Reading
    <2>2. reading' = [reading EXCEPT ![b] = found] /\ build' = build
        BY <1>2 DEF ReadConsents, datasetVars
    <2> HIDE DEF found
    <2>3. QED
        BY <1>1, <2>1, <2>2 DEF LocalTypeOK, Live
<1>3. ASSUME NEW b \in Builds,
             ReadObservations(b) \/ ((BuildStep(b) \/ KillBuild(b) \/ StaffStep(b)) /\ reading' = reading)
      PROVE  LocalTypeOK'
    <2>1. reading' = reading
        BY <1>3 DEF ReadObservations
    <2>2. ASSUME NEW c \in Builds, build'[c].step # "idle" PROVE reading[c].begun
        <3>1. CASE ReadObservations(b)
            <4>1. reading[b].begun /\ \E rows : Select(b, rows)
                BY <3>1 DEF ReadObservations
            <4>2. QED
                BY <2>2, <4>1 DEF Select, LocalTypeOK, DatasetsTypeOK
        <3>2. CASE BuildStep(b) \/ KillBuild(b) \/ StaffStep(b)
            <4>1. build[c].step # "idle"
                BY <2>2, <3>2, BuildKeeps
            <4>2. QED
                BY <4>1 DEF LocalTypeOK
        <3>3. QED
            BY <1>3, <3>1, <3>2
    <2>3. QED
        BY <1>1, <2>1, <2>2 DEF LocalTypeOK, Live
<1>4. QED
    BY <1>2, <1>3 DEF BuildNext

LEMMA LocalHolds == Spec => []LocalTypeOK
<1>1. ConsentInv /\ DatasetsTypeOK /\ LocalTypeOK /\ [Next]_vars => LocalTypeOK'
    <2>1. ASSUME LocalTypeOK, UNCHANGED vars PROVE LocalTypeOK'
        BY <2>1 DEF vars, userVars, buildVars, datasetVars, LocalTypeOK, Live
    <2>2. QED
        BY <2>1, UserLocal, BuildLocal DEF Next
<1>2. QED
    BY LocalInit, <1>1, ConsentInvHolds, DatasetsTypedHolds, PTL DEF Spec

\* Types, and the order of a build's queries, over every interleaving of users, staff
\* and builds.
THEOREM Typed == Spec => []TypeOK
<1>1. ConsentInv /\ DatasetsTypeOK /\ LocalTypeOK => TypeOK
    BY DEF ConsentInv, TypeInv, LocalTypeOK, TypeOK
<1>2. QED
    BY <1>1, ConsentInvHolds, DatasetsTypedHolds, LocalHolds, PTL

-----------------------------------------------------------------------------
(* From the owners a build found to the version it stores *)

\* A version holds what its build selected: the commit stores it and nothing edits it.
LEMMA StoresSelected ==
    ASSUME DatasetsTypeOK, FormFits, StoredAsSelected, NEW b \in Builds,
           BuildStep(b) \/ KillBuild(b) \/ StaffStep(b)
    PROVE  StoredAsSelected'
<1>1. \A c \in Builds : build'[c].rows = build[c].rows
    BY BuildKeeps
<1>2. Stored \subseteq Builds /\ (form # NoVersion => form.of \in Builds)
    BY DEF Stored, DatasetsTypeOK, Form
<1>3. CASE version' = version /\ form' = form
    BY <1>1, <1>2, <1>3 DEF StoredAsSelected, Stored
<1>4. CASE CommitVersion(b)
    <2>1. /\ Stored' = Stored \cup {b} /\ version'[b] = Built(b) /\ form' = form
          /\ \A c \in Stored : version'[c] = version[c]
        BY <1>4, CommitStores
    <2>2. Built(b).rows = build[b].rows
        BY DEF Built
    <2>3. QED
        BY <1>1, <1>2, <2>1, <2>2 DEF StoredAsSelected
<1>5. CASE MarkSuspicious(b) \/ Updates(b)
    <2>1. Stored' = Stored /\ \A c \in Stored : version'[c].rows = version[c].rows
        BY <1>5, UpdateStores
    <2>2. form' = form \/ form' = NoVersion
        BY <1>5, SavedForm DEF MarkSuspicious, Updates
    <2>3. QED
        BY <1>1, <1>2, <2>1, <2>2 DEF StoredAsSelected
<1>6. CASE AdminEdit(b)
    BY <1>1, <1>2, <1>6, EditHolds DEF StoredAsSelected, Stored
<1>7. CASE Reinserts(b)
    <2>1. /\ Stored' = Stored \cup {b} /\ version'[b] = form.row /\ form # NoVersion
          /\ form.of = b /\ \A c \in Stored : version'[c] = version[c]
        BY <1>7, ReinsertStores
    <2>2. form' = NoVersion
        BY <1>7, SavedForm DEF Reinserts
    <2>3. QED
        BY <1>1, <1>2, <2>1, <2>2 DEF StoredAsSelected
<1>8. CASE AdminSave(b) /\ UNCHANGED <<build, version, pruned>>
    BY <1>2, <1>8, SavedForm DEF StoredAsSelected, Stored
<1>9. CASE AdminDelete(b)
    <2>1. Stored' = Stored \ {b} /\ form' = form /\ \A c \in Stored' : version'[c] = version[c]
        BY <1>9, DeleteStores
    <2>2. QED
        BY <1>1, <1>2, <2>1 DEF StoredAsSelected
<1>10. QED
    BY <1>3, <1>4, <1>5, <1>6, <1>7, <1>8, <1>9, BuildStores, SaveCases DEF BuildStep, StaffStep

LEMMA ReadConsentsSelects ==
    ASSUME ConsentInv, DatasetsTypeOK, LocalTypeOK, SelectionInv, NEW b \in Builds, ReadConsents(b)
    PROVE  SelectionInv'
<1> DEFINE found == [begun |-> TRUE, owners |-> Consenting(build[b].text),
                     optedOut |-> optedOut, erased |-> {u \in quiet : Erased(u)}]
<1>1. reading' = [reading EXCEPT ![b] = found] /\ UNCHANGED <<build, version, form>>
    BY DEF ReadConsents, datasetVars
<1>2. \A u \in found.owners : u \notin found.optedOut /\ u \notin found.erased
    BY ReadTyped
<1>3. build[b].rows = {}
    BY DEF ReadConsents, SelectionInv, RowsOfOwners
<1> HIDE DEF found
<1>4. \A c \in Builds : reading'[c] = IF c = b THEN found ELSE reading[c]
    BY <1>1 DEF LocalTypeOK
<1>5. QED
    BY <1>1, <1>2, <1>3, <1>4 DEF SelectionInv, OwnersAllowed, RowsOfOwners, StoredAsSelected, Stored

LEMMA ReadObservationsSelects ==
    ASSUME DatasetsTypeOK, SelectionInv, NEW b \in Builds, ReadObservations(b)
    PROVE  SelectionInv'
<1> DEFINE rows == {o \in Observations : Eligible(o, reading[b].owners)}
<1>1. /\ build' = [build EXCEPT ![b].step = "selected", ![b].rows = rows]
      /\ build[b].step = "idle" /\ UNCHANGED <<version, form, reading>>
    BY DEF ReadObservations, Select
<1>2. \A o \in rows : Owner[o] \in reading[b].owners
    BY DEF Eligible
<1>3. /\ b \notin Stored /\ Stored' = Stored /\ Stored \subseteq Builds
      /\ form # NoVersion => form.of \in Builds \ {b}
    BY <1>1 DEF DatasetsTypeOK, Stored, Form
<1> HIDE DEF rows
<1>4. \A c \in Builds : /\ c # b => build'[c] = build[c]
                        /\ c = b => build'[c].rows = rows /\ build'[c].step = "selected"
    BY <1>1 DEF DatasetsTypeOK, Build
<1>5. OwnersAllowed' /\ RowsOfOwners'
    BY <1>1, <1>2, <1>4 DEF SelectionInv, OwnersAllowed, RowsOfOwners
<1>6. StoredAsSelected'
    BY <1>1, <1>3, <1>4 DEF SelectionInv, StoredAsSelected
<1>7. QED
    BY <1>5, <1>6 DEF SelectionInv

LEMMA SelectionStep ==
    ConsentInv /\ DatasetsTypeOK /\ FormFits /\ LocalTypeOK /\ SelectionInv /\ [Next]_vars
        => SelectionInv'
<1> SUFFICES ASSUME ConsentInv, DatasetsTypeOK, FormFits, LocalTypeOK, SelectionInv, [Next]_vars
             PROVE  SelectionInv'
    OBVIOUS
<1>1. CASE UNCHANGED buildVars
    BY <1>1 DEF buildVars, datasetVars, SelectionInv, OwnersAllowed, RowsOfOwners,
       StoredAsSelected, Stored
<1>2. ASSUME NEW b \in Builds, BuildStep(b) \/ KillBuild(b) \/ StaffStep(b), reading' = reading
      PROVE  SelectionInv'
    <2>1. RowsOfOwners' /\ OwnersAllowed'
        BY <1>2, BuildKeeps DEF SelectionInv, RowsOfOwners, OwnersAllowed
    <2>2. QED
        BY <1>2, <2>1, StoresSelected DEF SelectionInv
<1>3. QED
    BY <1>1, <1>2, ReadConsentsSelects, ReadObservationsSelects DEF Next, BuildNext, vars

LEMMA SelectionHolds == Spec => []SelectionInv
<1>1. Init => SelectionInv
    <2> SUFFICES ASSUME Init PROVE SelectionInv
        OBVIOUS
    <2>1. ASSUME NEW b \in Builds PROVE build[b].rows = {}
        <3>1. PICK t \in BuildTexts : build[b] = [step |-> "idle", text |-> t, rows |-> {},
                                                  seen |-> {}, latest |-> NoVersion]
            BY DEF Init, DatasetsInit
        <3>2. QED
            BY <3>1
    <2>2. QED
        BY <2>1 DEF Init, DatasetsInit, SelectionInv, OwnersAllowed, RowsOfOwners,
           StoredAsSelected, Stored
<1>2. QED
    BY <1>1, SelectionStep, ConsentInvHolds, DatasetsTypedHolds, LocalHolds, PTL DEF Spec

\* Revoking excludes the user from every later build: no version holds an observation of
\* a user who, when its build began, had had an uncontested revocation answered and had
\* not asked to grant again (build_dataset_version, revoke_consent).
THEOREM RevocationExcluded == Spec => []RevocationExcludes
<1>1. SelectionInv => RevocationExcludes
    BY DEF SelectionInv, OwnersAllowed, RowsOfOwners, StoredAsSelected, RevocationExcludes, Stored
<1>2. QED
    BY <1>1, SelectionHolds, PTL

\* No version holds an observation of a user whose deletion had committed when its build
\* began, with none of their consent requests running (delete_account).
THEOREM ErasedExcluded == Spec => []ErasedStaysOut
<1>1. SelectionInv => ErasedStaysOut
    BY DEF SelectionInv, OwnersAllowed, RowsOfOwners, StoredAsSelected, ErasedStaysOut, Stored
<1>2. QED
    BY <1>1, SelectionHolds, PTL
=============================================================================
