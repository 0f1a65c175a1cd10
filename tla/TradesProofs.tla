---------------------------- MODULE TradesProofs ----------------------------
(***************************************************************************)
(* What an upload answers is true, a bulk upload is stored whole or not at *)
(* all, and importing again adds nothing, for any number of uploads, rows  *)
(* and keys.  A lookup and the INSERT it decides on are separate           *)
(* statements; the unique index closes the gap for what is inserted        *)
(* between them, and what was committed before the upload began the lookup *)
(* has seen.                                                               *)
(***************************************************************************)
EXTENDS Trades, TLAPS

-----------------------------------------------------------------------------
(* The inductive invariant *)

\* How far an upload is at each step.
StepsFollow ==
    \A u \in Uploads :
        /\ upload[u].bulk \/ Len(upload[u].rows) = 1
        /\ upload[u].step = "waiting" => upload[u].report = <<>> /\ upload[u].after = {}
        /\ upload[u].step \in {"lookup", "insert", "recheck"} =>
               Len(upload[u].report) < Len(upload[u].rows)
        /\ upload[u].step \in {"insert", "recheck"} => Key(u) # BadRow
        /\ upload[u].step = "recheck" => ~upload[u].bulk
        /\ upload[u].step = "commit" => upload[u].bulk
        /\ upload[u].step \in {"commit", "answered"} =>
               Len(upload[u].report) = Len(upload[u].rows)

\* An upload has inserted none but the rows it has reported.
RowsReported == \A i \in Ids : There(i) => i[2] <= Len(upload[i[1]].report)

\* The report of a row: an observation of its trade, which nobody else can roll back.
Names(u, n) ==
    LET r == upload[u].report[n]
    IN  /\ There(r.id) /\ (table[r.id].committed \/ r.id[1] = u)
        /\ table[r.id].key = upload[u].rows[n]
        /\ r.new <=> r.id = <<u, n>>

ReportsNamed ==
    \A u \in Uploads : Running(u) \/ upload[u].step = "answered" =>
        \A n \in 1 .. Len(upload[u].report) : Names(u, n)

\* What a bulk upload commits it commits at its end.
BulkUncommitted ==
    \A i \in Ids :
        There(i) /\ upload[i[1]].bulk /\ table[i].committed => upload[i[1]].step = "answered"

\* Nobody moderates what is not committed.
UncommittedLive == \A i \in Ids : There(i) /\ ~table[i].committed => table[i].state = "live"

\* The unique index, over the rows of open transactions too.
IndexUnique ==
    \A i, j \in Ids :
        There(i) /\ There(j) /\ table[i].key = table[j].key
            /\ table[i].state = "live" /\ table[j].state = "live" => i = j

DroppedSeen == \A i \in Ids : There(i) /\ table[i].state = "deleted" => table[i].key \in dropped

TableInv == BulkUncommitted /\ UncommittedLive /\ IndexUnique /\ DroppedSeen

AfterAnswered == \A u \in Uploads : \A v \in upload[u].after : upload[v].step = "answered"

\* An upload that is about to insert found none of what was answered before it began.
InsertsUnanswered ==
    \A u \in Uploads : upload[u].step = "insert" =>
        \A v \in upload[u].after : \A k \in 1 .. Len(upload[v].rows) :
            upload[v].rows[k] = Key(u) => Key(u) \in dropped

ReimportInv == AfterAnswered /\ InsertsUnanswered /\ ReimportAddsNothing

TradesInv == TradesTypeOK /\ StepsFollow /\ RowsReported /\ ReportsNamed /\ TableInv /\ ReimportInv

-----------------------------------------------------------------------------
(* Types *)

LEMMA RowsTyped ==
    ASSUME NEW l \in RowLists
    PROVE  /\ l \in Seq(Keys \cup {BadRow}) /\ Len(l) \in 1 .. MaxRows
           /\ \A n \in 1 .. Len(l) : l[n] \in Keys \cup {BadRow}
<1>1. PICK n \in 1 .. MaxRows : l \in [1 .. n -> Keys \cup {BadRow}]
    BY DEF RowLists
<1>2. QED
    BY <1>1, TradesAssumption

LEMMA UploadTyped ==
    ASSUME TradesTypeOK, NEW u \in Uploads
    PROVE  /\ upload[u] \in Upload /\ upload[u].bulk \in BOOLEAN /\ upload[u].step \in UploadSteps
           /\ upload[u].rows \in RowLists /\ Len(upload[u].rows) \in 1 .. MaxRows
           /\ \A n \in 1 .. Len(upload[u].rows) : upload[u].rows[n] \in Keys \cup {BadRow}
           /\ upload[u].report \in Seq(Report) /\ Len(upload[u].report) \in Nat
           /\ Len(upload[u].report) <= Len(upload[u].rows)
           /\ \A n \in 1 .. Len(upload[u].report) : upload[u].report[n] \in Report
           /\ upload[u].after \subseteq Uploads
<1>1. upload[u] \in Upload /\ Len(upload[u].report) <= Len(upload[u].rows)
    BY DEF TradesTypeOK
<1>2. upload[u].rows \in RowLists /\ upload[u].report \in Seq(Report)
    BY <1>1 DEF Upload
<1>3. QED
    BY <1>1, <1>2, RowsTyped DEF Upload

LEMMA InitTyped == TradesInit => TradesTypeOK
<1> SUFFICES ASSUME TradesInit PROVE TradesTypeOK
    OBVIOUS
<1>1. ASSUME NEW u \in Uploads
      PROVE  upload[u] \in Upload /\ upload[u].report = <<>> /\ upload[u].step = "waiting" /\ upload[u].after = {}
    <2>1. PICK b \in BOOLEAN, l \in RowLists :
              upload[u] = [bulk |-> b, rows |-> l, step |-> "waiting", report |-> <<>>, after |-> {}]
        BY DEF TradesInit
    <2>2. QED
        BY <2>1 DEF Upload, UploadSteps
<1>2. ASSUME NEW u \in Uploads PROVE Len(upload[u].report) <= Len(upload[u].rows)
    BY <1>1, RowsTyped DEF Upload
<1>3. upload \in [Uploads -> Upload]
    BY <1>1 DEF TradesInit
<1>4. QED
    BY <1>2, <1>3 DEF TradesInit, TradesTypeOK, There

LEMMA AppendFacts ==
    ASSUME NEW S, NEW s \in Seq(S), NEW e \in S
    PROVE  /\ Append(s, e) \in Seq(S) /\ Len(Append(s, e)) = Len(s) + 1
           /\ \A n \in 1 .. Len(s) : Append(s, e)[n] = s[n]
           /\ Append(s, e)[Len(s) + 1] = e
OBVIOUS

\* What the steps change of an upload.
LEMMA ReportedEffect ==
    ASSUME TradesTypeOK, NEW u \in Uploads, NEW i \in Ids, NEW new \in BOOLEAN,
           Len(upload[u].report) < Len(upload[u].rows), Reported(u, i, new)
    PROVE  /\ upload' \in [Uploads -> Upload]
           /\ \A v \in Uploads \ {u} : upload'[v] = upload[v]
           /\ upload'[u].bulk = upload[u].bulk /\ upload'[u].rows = upload[u].rows
           /\ upload'[u].after = upload[u].after
           /\ upload'[u].report = Append(upload[u].report, [id |-> i, new |-> new])
           /\ Len(upload'[u].report) = At(u)
           /\ \A n \in 1 .. Len(upload[u].report) : upload'[u].report[n] = upload[u].report[n]
           /\ upload'[u].report[At(u)] = [id |-> i, new |-> new]
           /\ upload'[u].step = IF At(u) < Len(upload[u].rows) THEN "lookup"
                                ELSE IF upload[u].bulk THEN "commit" ELSE "answered"
<1> DEFINE r == [id |-> i, new |-> new]
           step == IF At(u) < Len(upload[u].rows) THEN "lookup"
                   ELSE IF upload[u].bulk THEN "commit" ELSE "answered"
           report == Append(upload[u].report, r)
           x == [upload[u] EXCEPT !.report = report, !.step = step]
<1>1. r \in Report
    BY DEF Report
<1>2. upload[u] \in Upload /\ upload[u].report \in Seq(Report)
    BY UploadTyped
<1>3. step \in UploadSteps
    BY DEF UploadSteps, Outcomes
<1>4. upload' = [upload EXCEPT ![u] = x]
    BY DEF Reported
<1> HIDE DEF r, step
<1>5. /\ report \in Seq(Report) /\ Len(report) = At(u)
      /\ \A n \in 1 .. Len(upload[u].report) : report[n] = upload[u].report[n]
      /\ report[At(u)] = r
    BY <1>1, <1>2, AppendFacts DEF At
<1> HIDE DEF report
<1>6. /\ x \in Upload /\ x.bulk = upload[u].bulk /\ x.rows = upload[u].rows
      /\ x.after = upload[u].after /\ x.report = report /\ x.step = step
    BY <1>2, <1>3, <1>5 DEF Upload
<1> HIDE DEF x
<1>7. /\ upload' \in [Uploads -> Upload] /\ upload'[u] = x
      /\ \A v \in Uploads \ {u} : upload'[v] = upload[v]
    BY <1>4, <1>6 DEF TradesTypeOK
<1>8. QED
    BY <1>5, <1>6, <1>7 DEF r, step, report

LEMMA StepEffect ==
    ASSUME TradesTypeOK, NEW u \in Uploads, NEW step \in UploadSteps,
           upload' = [upload EXCEPT ![u].step = step]
    PROVE  /\ upload' \in [Uploads -> Upload]
           /\ \A v \in Uploads \ {u} : upload'[v] = upload[v]
           /\ upload'[u].bulk = upload[u].bulk /\ upload'[u].rows = upload[u].rows
           /\ upload'[u].after = upload[u].after /\ upload'[u].report = upload[u].report
           /\ upload'[u].step = step
<1> DEFINE x == [upload[u] EXCEPT !.step = step]
<1>1. upload[u] \in Upload
    BY DEF TradesTypeOK
<1>2. /\ x \in Upload /\ x.bulk = upload[u].bulk /\ x.rows = upload[u].rows
      /\ x.after = upload[u].after /\ x.report = upload[u].report /\ x.step = step
    BY <1>1 DEF Upload
<1>3. upload' = [upload EXCEPT ![u] = x]
    OBVIOUS
<1> HIDE DEF x
<1>4. QED
    BY <1>2, <1>3 DEF TradesTypeOK

-----------------------------------------------------------------------------
(* What a step of one upload leaves as it is *)

Answered(u) == upload[u].step = "answered"

\* A step of u: of the other uploads nothing changes, and u keeps what it has reported.
Moves(u) ==
    /\ upload' \in [Uploads -> Upload]
    /\ \A v \in Uploads \ {u} : upload'[v] = upload[v]
    /\ ~Answered(u)
    /\ upload'[u].bulk = upload[u].bulk /\ upload'[u].rows = upload[u].rows
    /\ Len(upload'[u].report) \in Nat /\ Len(upload[u].report) <= Len(upload'[u].report)
    /\ \A n \in 1 .. Len(upload[u].report) : upload'[u].report[n] = upload[u].report[n]

RowStays(i) ==
    /\ table'[i] # NoObs /\ table'[i].key = table[i].key
    /\ table[i].committed => table'[i].committed

LEMMA NamesStay ==
    ASSUME TradesTypeOK, NEW u \in Uploads, NEW n \in 1 .. Len(upload[u].report), Names(u, n),
           upload'[u].rows = upload[u].rows, upload'[u].report[n] = upload[u].report[n],
           RowStays(upload[u].report[n].id)
    PROVE  Names(u, n)'
BY DEF Names, RowStays, There

LEMMA ReportedIds ==
    ASSUME TradesTypeOK, NEW u \in Uploads, NEW n \in 1 .. Len(upload[u].report)
    PROVE  upload[u].report[n].id \in Ids /\ upload[u].report[n].new \in BOOLEAN
BY UploadTyped DEF Report

LEMMA NamedStep ==
    ASSUME TradesInv, NEW u \in Uploads, Moves(u),
           \A i \in Ids : There(i) /\ (table[i].committed \/ i[1] # u) => RowStays(i),
           Running(u)' \/ Answered(u)' =>
               /\ \A i \in Ids : There(i) => RowStays(i)
               /\ Running(u) \/ Len(upload'[u].report) = 0
               /\ \A n \in 1 .. Len(upload'[u].report) : n > Len(upload[u].report) => Names(u, n)'
    PROVE  ReportsNamed'
<1> SUFFICES ASSUME NEW v \in Uploads, Running(v)' \/ Answered(v)', NEW n \in 1 .. Len(upload'[v].report)
             PROVE  Names(v, n)'
    BY DEF ReportsNamed, Answered
<1>1. CASE v = u
    <2>1. Running(u)
        BY <1>1
    <2>2. CASE n > Len(upload[u].report)
        BY <1>1, <2>2
    <2>3. CASE n <= Len(upload[u].report)
        <3>1. n \in 1 .. Len(upload[u].report)
            BY <1>1, <2>3, UploadTyped DEF TradesInv, Moves
        <3>2. Names(u, n) /\ upload[u].report[n].id \in Ids
            BY <2>1, <3>1, ReportedIds DEF TradesInv, ReportsNamed
        <3>3. RowStays(upload[u].report[n].id)
            BY <1>1, <3>2 DEF Names
        <3>4. QED
            BY <1>1, <3>1, <3>2, <3>3, NamesStay DEF TradesInv, Moves
    <2>4. QED
        BY <1>1, <2>2, <2>3, UploadTyped DEF TradesInv, Moves
<1>2. CASE v # u
    <2>1. upload'[v] = upload[v] /\ (Running(v) \/ Answered(v))
        BY <1>2 DEF Moves, Running, Answered
    <2>2. Names(v, n) /\ upload[v].report[n].id \in Ids /\ n \in 1 .. Len(upload[v].report)
        BY <2>1, ReportedIds DEF TradesInv, ReportsNamed, Answered
    <2>3. RowStays(upload[v].report[n].id)
        <3>1. table[upload[v].report[n].id].committed \/ upload[v].report[n].id[1] # u
            BY <1>2, <2>2 DEF Names
        <3>2. QED
            BY <2>2, <3>1 DEF Names
    <2>4. QED
        BY <2>1, <2>2, <2>3, NamesStay DEF TradesInv
<1>3. QED
    BY <1>1, <1>2

\* An answered upload is never a rival: what is new in a report was looked for first.
LEMMA ReimportStep ==
    ASSUME TradesInv, NEW u \in Uploads, Moves(u), dropped \subseteq dropped',
           \/ upload'[u].after = upload[u].after
           \/ /\ Len(upload'[u].report) = 0
              /\ \A v \in upload'[u].after : v \in Uploads /\ Answered(v),
           upload'[u].step = "insert" =>
               /\ upload'[u].report = upload[u].report
               /\ \A v \in upload[u].after : \A k \in 1 .. Len(upload[v].rows) :
                      upload[v].rows[k] = Key(u) => Key(u) \in dropped
               /\ upload'[u].after = upload[u].after,
           \A n \in 1 .. Len(upload'[u].report) :
               n > Len(upload[u].report) /\ upload'[u].report[n].new =>
                   n = At(u) /\ upload[u].step = "insert"
    PROVE  ReimportInv'
<1> USE DEF TradesInv
<1>1. \A v \in Uploads : Answered(v) => upload'[v] = upload[v] /\ v # u
    BY DEF Moves
<1>2. \A w \in Uploads : \A v \in upload[w].after : v \in Uploads /\ Answered(v)
    BY UploadTyped DEF ReimportInv, AfterAnswered, Answered
<1>3. \A w \in Uploads : \A v \in upload'[w].after : v \in Uploads /\ Answered(v)
    BY <1>2 DEF Moves
<1>4. AfterAnswered'
    BY <1>1, <1>3 DEF AfterAnswered, Answered
<1>5. InsertsUnanswered'
    <2> SUFFICES ASSUME NEW w \in Uploads, upload'[w].step = "insert", NEW v \in upload'[w].after,
                        NEW k \in 1 .. Len(upload'[v].rows), upload'[v].rows[k] = Key(w)'
                 PROVE  Key(w)' \in dropped'
        BY DEF InsertsUnanswered
    <2>1. v \in Uploads /\ upload'[v] = upload[v]
        BY <1>1, <1>3
    <2>2. Key(w)' = Key(w)
        BY DEF Key, At, Moves
    <2>3. CASE w = u
        BY <2>1, <2>2, <2>3
    <2>4. CASE w # u
        BY <2>1, <2>2, <2>4 DEF Moves, ReimportInv, InsertsUnanswered
    <2>5. QED
        BY <2>3, <2>4
<1>6. ReimportAddsNothing'
    <2> SUFFICES ASSUME NEW w \in Uploads, NEW v \in upload'[w].after,
                        NEW n \in 1 .. Len(upload'[w].report), upload'[w].report[n].new,
                        upload'[w].rows[n] \notin dropped',
                        NEW k \in 1 .. Len(upload'[v].rows), upload'[v].rows[k] = upload'[w].rows[n]
                 PROVE  FALSE
        BY DEF ReimportAddsNothing
    <2>1. v \in Uploads /\ upload'[v] = upload[v]
        BY <1>1, <1>3
    <2>2. upload'[w].rows = upload[w].rows /\ upload[w].rows[n] \notin dropped
        BY DEF Moves
    <2>3. CASE w = u
        <3>1. upload'[u].after = upload[u].after
            BY <2>3
        <3>2. CASE n > Len(upload[u].report)
            <4>1. n = At(u) /\ upload[u].step = "insert"
                BY <2>3, <3>2
            <4>2. Key(u) = upload[u].rows[n] /\ v \in upload[u].after
                BY <2>3, <3>1, <4>1 DEF Key
            <4>3. QED
                BY <2>1, <2>2, <2>3, <4>1, <4>2 DEF ReimportInv, InsertsUnanswered
        <3>3. CASE ~(n > Len(upload[u].report))
            <4>1. n \in 1 .. Len(upload[u].report) /\ upload'[u].report[n] = upload[u].report[n]
                BY <2>3, <3>3, UploadTyped DEF Moves
            <4>2. QED
                BY <2>1, <2>2, <2>3, <3>1, <4>1 DEF ReimportInv, ReimportAddsNothing
        <3>4. QED
            BY <3>2, <3>3
    <2>4. CASE w # u
        BY <2>1, <2>2, <2>4 DEF Moves, ReimportInv, ReimportAddsNothing
    <2>5. QED
        BY <2>3, <2>4
<1>7. QED
    BY <1>4, <1>5, <1>6 DEF ReimportInv

LEMMA IdsPairs ==
    ASSUME NEW i \in Ids
    PROVE  i[1] \in Uploads /\ i[2] \in 1 .. MaxRows /\ i = <<i[1], i[2]>>
BY DEF Ids

LEMMA TableSame ==
    ASSUME TradesInv, NEW u \in Uploads, Moves(u), UNCHANGED <<table, dropped>>
    PROVE  TableInv' /\ RowsReported'
<1>1. ASSUME NEW i \in Ids
      PROVE  /\ There(i)' <=> There(i)
             /\ i[1] \in Uploads /\ upload'[i[1]].bulk = upload[i[1]].bulk
             /\ Answered(i[1]) => Answered(i[1])'
             /\ Len(upload'[i[1]].report) >= Len(upload[i[1]].report)
             /\ Len(upload'[i[1]].report) \in Nat /\ i[2] \in Nat
    <2>1. i[1] \in Uploads /\ i[2] \in Nat
        BY IdsPairs
    <2>2. QED
        BY <2>1, UploadTyped DEF There, Moves, Answered, TradesInv
<1>2. RowsReported'
    BY <1>1, UploadTyped DEF TradesInv, RowsReported
<1>3. TableInv'
    BY <1>1 DEF TradesInv, TableInv, BulkUncommitted, UncommittedLive, IndexUnique, DroppedSeen, Answered
<1>4. QED
    BY <1>2, <1>3

LEMMA NothingMoves ==
    ASSUME table' = table, NEW i \in Ids, There(i)
    PROVE  RowStays(i)
BY DEF RowStays, There

-----------------------------------------------------------------------------
(* The steps without an effect on the table *)

LEMMA BeginInv ==
    ASSUME TradesInv, NEW u \in Uploads, Begin(u)
    PROVE  TradesInv'
<1> DEFINE x == [upload[u] EXCEPT !.step = "lookup", !.after = {v \in Uploads : upload[v].step = "answered"}]
<1>1. upload[u] \in Upload /\ upload[u].step = "waiting" /\ upload[u].report = <<>>
      /\ Len(upload[u].rows) \in 1 .. MaxRows
    BY UploadTyped DEF TradesInv, StepsFollow, Begin
<1>2. /\ x \in Upload /\ x.bulk = upload[u].bulk /\ x.rows = upload[u].rows
      /\ x.report = upload[u].report /\ x.step = "lookup"
      /\ x.after = {v \in Uploads : upload[v].step = "answered"}
    BY <1>1 DEF Upload, UploadSteps
<1>3. upload' = [upload EXCEPT ![u] = x] /\ UNCHANGED <<table, dropped>>
    BY DEF Begin
<1> HIDE DEF x
<1>4. /\ upload' \in [Uploads -> Upload] /\ upload'[u] = x
      /\ \A v \in Uploads \ {u} : upload'[v] = upload[v]
    BY <1>2, <1>3 DEF TradesInv, TradesTypeOK
<1>5. Len(upload[u].report) = 0 /\ Len(upload'[u].report) = 0
    BY <1>1, <1>2, <1>4
<1>6. Moves(u)
    BY <1>1, <1>2, <1>4, <1>5 DEF Moves, Answered
<1>7. TradesTypeOK'
    <2>1. \A v \in Uploads : Running(v) => Running(v)' /\ upload'[v].bulk = upload[v].bulk
        BY <1>1, <1>4 DEF Running
    <2>2. \A v \in Uploads : Len(upload'[v].report) <= Len(upload'[v].rows)
        BY <1>1, <1>2, <1>4, <1>5 DEF TradesInv, TradesTypeOK
    <2>3. QED
        BY <1>3, <1>4, <2>1, <2>2, IdsPairs DEF TradesInv, TradesTypeOK, There
<1>8. StepsFollow'
    <2>1. ASSUME NEW v \in Uploads \ {u} PROVE Key(v)' = Key(v)
        BY <1>4 DEF Key, At
    <2>2. QED
        BY <1>1, <1>2, <1>4, <1>5, <2>1 DEF TradesInv, StepsFollow
<1>9. ReportsNamed'
    BY <1>3, <1>5, <1>6, NamedStep, NothingMoves
<1>10. ReimportInv'
    BY <1>2, <1>3, <1>4, <1>5, <1>6, ReimportStep DEF Answered
<1>11. QED
    BY <1>3, <1>6, <1>7, <1>8, <1>9, <1>10, TableSame DEF TradesInv

\* A row is answered with an observation there is.
LEMMA FoundInv ==
    ASSUME TradesInv, NEW u \in Uploads, upload[u].step \in {"lookup", "recheck"}, Key(u) # BadRow,
           NEW i \in Found(u), Reported(u, i, FALSE), UNCHANGED <<table, dropped>>
    PROVE  TradesInv'
<1>1. /\ upload[u] \in Upload /\ Len(upload[u].report) < Len(upload[u].rows)
      /\ Len(upload[u].report) \in Nat /\ Len(upload[u].rows) \in Nat
    BY UploadTyped DEF TradesInv, StepsFollow
<1>2. /\ i \in Ids /\ There(i) /\ table[i].key = Key(u)
      /\ table[i].committed \/ i[1] = u
    BY DEF Found, Sees
<1>3. i # <<u, At(u)>>
    <2>1. i[1] = u => i[2] <= Len(upload[u].report)
        BY <1>2 DEF TradesInv, RowsReported
    <2>2. QED
        BY <1>1, <2>1 DEF At
<1>4. /\ upload' \in [Uploads -> Upload]
      /\ \A v \in Uploads \ {u} : upload'[v] = upload[v]
      /\ upload'[u].bulk = upload[u].bulk /\ upload'[u].rows = upload[u].rows
      /\ upload'[u].after = upload[u].after
      /\ Len(upload'[u].report) = At(u)
      /\ \A m \in 1 .. Len(upload[u].report) : upload'[u].report[m] = upload[u].report[m]
      /\ upload'[u].report[At(u)] = [id |-> i, new |-> FALSE]
      /\ upload'[u].step = IF At(u) < Len(upload[u].rows) THEN "lookup"
                           ELSE IF upload[u].bulk THEN "commit" ELSE "answered"
    BY <1>1, <1>2, ReportedEffect DEF TradesInv
<1>5. At(u) = Len(upload[u].report) + 1
    BY DEF At
<1>6. Moves(u)
    BY <1>1, <1>4, <1>5 DEF Moves, Answered
<1>7. StepsFollow'
    <2>1. ASSUME NEW v \in Uploads \ {u} PROVE Key(v)' = Key(v)
        BY <1>4 DEF Key, At
    <2>2. QED
        BY <1>1, <1>4, <1>5, <2>1 DEF TradesInv, StepsFollow
<1>8. TradesTypeOK'
    <2>1. \A j \in Ids : There(j) /\ ~table[j].committed => upload'[j[1]].bulk /\ Running(j[1])'
        <3>1. ASSUME NEW j \in Ids, There(j), ~table[j].committed
              PROVE  upload'[j[1]].bulk /\ Running(j[1])'
            <4>1. j[1] \in Uploads /\ upload[j[1]].bulk /\ Running(j[1])
                BY <3>1, IdsPairs DEF TradesInv, TradesTypeOK
            <4>2. QED
                BY <1>4, <4>1 DEF Running
        <3>2. QED
            BY <3>1
    <2>2. \A v \in Uploads : Len(upload'[v].report) <= Len(upload'[v].rows)
        BY <1>1, <1>4, <1>5 DEF TradesInv, TradesTypeOK
    <2>3. QED
        BY <1>4, <2>1, <2>2 DEF TradesInv, TradesTypeOK, There
<1>9. ASSUME NEW m \in 1 .. Len(upload'[u].report), m > Len(upload[u].report)
      PROVE  Names(u, m)'
    <2>1. m = At(u)
        BY <1>1, <1>4, <1>5, <1>9
    <2>2. upload'[u].report[m] = [id |-> i, new |-> FALSE] /\ upload'[u].rows[m] = table'[i].key
        BY <1>2, <1>4, <2>1 DEF Key
    <2>3. i # <<u, m>> /\ There(i)' /\ (table'[i].committed \/ i[1] = u)
        BY <1>2, <1>3, <2>1 DEF There
    <2>4. QED
        BY <2>2, <2>3 DEF Names, There
<1>10. ReportsNamed'
    BY <1>1, <1>4, <1>5, <1>6, <1>9, NamedStep, NothingMoves DEF Running
<1>11. ReimportInv'
    BY <1>1, <1>4, <1>5, <1>6, ReimportStep
<1>12. QED
    BY <1>6, <1>7, <1>8, <1>10, <1>11, TableSame DEF TradesInv

\* What was answered before u began is there to be found, unless it was deleted since.
LEMMA NothingFound ==
    ASSUME TradesInv, NEW u \in Uploads, Found(u) = {},
           NEW v \in upload[u].after, NEW k \in 1 .. Len(upload[v].rows),
           upload[v].rows[k] = Key(u)
    PROVE  Key(u) \in dropped
<1>1. v \in Uploads /\ Answered(v)
    BY UploadTyped DEF TradesInv, ReimportInv, AfterAnswered, Answered
<1>2. k \in 1 .. Len(upload[v].report)
    BY <1>1 DEF TradesInv, StepsFollow, Answered
<1>3. PICK i \in Ids : i = upload[v].report[k].id
    BY <1>1, <1>2, ReportedIds DEF TradesInv
<1>4. There(i) /\ (table[i].committed \/ i[1] = v) /\ table[i].key = Key(u)
    BY <1>1, <1>2, <1>3 DEF TradesInv, ReportsNamed, Names, Answered
<1>5. table[i].committed
    BY <1>1, <1>4 DEF TradesInv, TradesTypeOK, Answered, Running
<1>6. table[i].state = "deleted"
    BY <1>4, <1>5 DEF Found, Sees
<1>7. QED
    BY <1>4, <1>6 DEF TradesInv, TableInv, DroppedSeen

\* A row goes from the lookup to the INSERT, to the second look, to an error.
LEMMA TurnInv ==
    ASSUME TradesInv, NEW u \in Uploads, NEW step, UNCHANGED <<table, dropped>>,
           upload' = [upload EXCEPT ![u].step = step],
           upload[u].step \in {"lookup", "insert", "recheck"}, Key(u) # BadRow,
           \/ step = "insert" /\ Found(u) = {}
           \/ step \in {"recheck", "collided"} /\ ~upload[u].bulk
    PROVE  TradesInv'
<1>1. /\ upload[u] \in Upload /\ Len(upload[u].report) < Len(upload[u].rows)
      /\ Len(upload[u].report) \in Nat /\ Len(upload[u].rows) \in Nat
    BY UploadTyped DEF TradesInv, StepsFollow
<1>2. /\ upload' \in [Uploads -> Upload]
      /\ \A v \in Uploads \ {u} : upload'[v] = upload[v]
      /\ upload'[u].bulk = upload[u].bulk /\ upload'[u].rows = upload[u].rows
      /\ upload'[u].after = upload[u].after /\ upload'[u].report = upload[u].report
      /\ upload'[u].step = step
    <2>1. step \in UploadSteps
        BY DEF UploadSteps, Outcomes
    <2>2. QED
        BY <2>1, StepEffect DEF TradesInv
<1>3. Moves(u)
    BY <1>1, <1>2 DEF Moves, Answered
<1>4. TradesTypeOK'
    <2>1. ASSUME NEW j \in Ids, There(j), ~table[j].committed
          PROVE  upload'[j[1]].bulk /\ Running(j[1])'
        <3>1. j[1] \in Uploads /\ upload[j[1]].bulk /\ Running(j[1])
            BY <2>1, IdsPairs DEF TradesInv, TradesTypeOK
        <3>2. QED
            BY <1>2, <3>1 DEF Running
    <2>2. \A v \in Uploads : Len(upload'[v].report) <= Len(upload'[v].rows)
        BY <1>1, <1>2 DEF TradesInv, TradesTypeOK
    <2>3. QED
        BY <1>2, <2>1, <2>2 DEF TradesInv, TradesTypeOK, There
<1>5. StepsFollow'
    <2>1. ASSUME NEW v \in Uploads PROVE Key(v)' = Key(v)
        BY <1>2 DEF Key, At
    <2>2. QED
        BY <1>1, <1>2, <2>1 DEF TradesInv, StepsFollow
<1>6. ReportsNamed'
    <2>1. Running(u)
        BY DEF Running
    <2>2. \A n \in 1 .. Len(upload'[u].report) : ~(n > Len(upload[u].report))
        BY <1>1, <1>2
    <2>3. QED
        BY <1>3, <2>1, <2>2, NamedStep, NothingMoves
<1>7. ReimportInv'
    <2>1. upload'[u].step = "insert" =>
              \A v \in upload[u].after : \A k \in 1 .. Len(upload[v].rows) :
                  upload[v].rows[k] = Key(u) => Key(u) \in dropped
        BY <1>2, NothingFound
    <2>2. \A n \in 1 .. Len(upload'[u].report) : ~(n > Len(upload[u].report))
        BY <1>1, <1>2
    <2>3. QED
        BY <1>2, <1>3, <2>1, <2>2, ReimportStep
<1>8. QED
    BY <1>3, <1>4, <1>5, <1>6, <1>7, TableSame DEF TradesInv

\* The open transaction of an upload that ends without an answer rolls back.
LEMMA EndsInv ==
    ASSUME TradesInv, NEW u \in Uploads, Running(u), NEW outcome \in Outcomes \ {"answered"},
           Ends(u, outcome)
    PROVE  TradesInv'
<1>1. /\ upload[u] \in Upload /\ Len(upload[u].report) <= Len(upload[u].rows)
      /\ Len(upload[u].report) \in Nat /\ Len(upload[u].rows) \in Nat
    BY UploadTyped DEF TradesInv
<1>2. /\ upload' \in [Uploads -> Upload]
      /\ \A v \in Uploads \ {u} : upload'[v] = upload[v]
      /\ upload'[u].bulk = upload[u].bulk /\ upload'[u].rows = upload[u].rows
      /\ upload'[u].after = upload[u].after /\ upload'[u].report = upload[u].report
      /\ upload'[u].step = outcome
    BY StepEffect DEF TradesInv, Ends, UploadSteps
<1>3. Moves(u)
    BY <1>1, <1>2 DEF Moves, Answered, Running
<1>4. ASSUME NEW i \in Ids
      PROVE  /\ There(i)' <=> There(i) /\ (table[i].committed \/ i[1] # u)
             /\ There(i)' => table'[i] = table[i]
    BY DEF Ends, RolledBack, Mine, There
<1>5. table' \in [Ids -> Observation \cup {NoObs}] /\ dropped' = dropped
    BY DEF Ends, RolledBack, TradesInv, TradesTypeOK
<1>6. ASSUME NEW i \in Ids, There(i)'
      PROVE  /\ There(i) /\ table'[i] = table[i] /\ i[1] \in Uploads /\ i[2] \in Nat
             /\ upload'[i[1]].bulk = upload[i[1]].bulk
             /\ upload'[i[1]].report = upload[i[1]].report
             /\ Answered(i[1]) => Answered(i[1])'
             /\ ~table[i].committed => upload'[i[1]] = upload[i[1]]
    BY <1>2, <1>4, <1>6, IdsPairs DEF Answered, Running
<1>7. TradesTypeOK'
    <2>1. ASSUME NEW i \in Ids, There(i)', ~table'[i].committed
          PROVE  upload'[i[1]].bulk /\ Running(i[1])'
        BY <1>6, <2>1 DEF TradesInv, TradesTypeOK, Running
    <2>2. \A v \in Uploads : Len(upload'[v].report) <= Len(upload'[v].rows)
        BY <1>1, <1>2 DEF TradesInv, TradesTypeOK
    <2>3. QED
        BY <1>2, <1>5, <2>1, <2>2 DEF TradesInv, TradesTypeOK
<1>8. StepsFollow'
    <2>1. ASSUME NEW v \in Uploads PROVE Key(v)' = Key(v)
        BY <1>2 DEF Key, At
    <2>2. QED
        BY <1>1, <1>2, <2>1 DEF TradesInv, StepsFollow, Outcomes
<1>9. RowsReported' /\ TableInv'
    <2>1. RowsReported'
        BY <1>6 DEF TradesInv, RowsReported
    <2>2. BulkUncommitted'
        BY <1>6 DEF TradesInv, TableInv, BulkUncommitted, Answered
    <2>3. QED
        BY <1>5, <1>6, <2>1, <2>2 DEF TradesInv, TableInv, UncommittedLive, IndexUnique, DroppedSeen
<1>10. ReportsNamed'
    <2>1. \A i \in Ids : There(i) /\ (table[i].committed \/ i[1] # u) => RowStays(i)
        BY <1>4 DEF RowStays, There
    <2>2. ~Running(u)' /\ ~Answered(u)'
        BY <1>2 DEF Running, Answered, Outcomes
    <2>3. QED
        BY <1>3, <2>1, <2>2, NamedStep
<1>11. ReimportInv'
    <2>1. upload'[u].step # "insert" /\ \A n \in 1 .. Len(upload'[u].report) : ~(n > Len(upload[u].report))
        BY <1>1, <1>2 DEF Outcomes
    <2>2. QED
        BY <1>2, <1>3, <1>5, <2>1, ReimportStep
<1>12. QED
    BY <1>7, <1>8, <1>9, <1>10, <1>11 DEF TradesInv

-----------------------------------------------------------------------------
(* The steps that write *)

\* What the INSERT of a row changes.
LEMMA InsertEffect ==
    ASSUME TradesInv, NEW u \in Uploads, Insert(u)
    PROVE  /\ <<u, At(u)>> \in Ids /\ ~There(<<u, At(u)>>) /\ Key(u) \in Keys
           /\ table' \in [Ids -> Observation \cup {NoObs}]
           /\ table'[<<u, At(u)>>] = [key |-> Key(u), state |-> "live", committed |-> ~upload[u].bulk]
           /\ table'[<<u, At(u)>>] # NoObs
           /\ \A j \in Ids \ {<<u, At(u)>>} : table'[j] = table[j]
<1> DEFINE o == [key |-> Key(u), state |-> "live", committed |-> ~upload[u].bulk]
<1>1. At(u) \in 1 .. Len(upload[u].rows) /\ At(u) \in 1 .. MaxRows /\ At(u) = Len(upload[u].report) + 1
    <2>1. /\ Len(upload[u].report) \in Nat /\ Len(upload[u].rows) \in 1 .. MaxRows
          /\ Len(upload[u].report) < Len(upload[u].rows)
        BY UploadTyped DEF TradesInv, StepsFollow, Insert
    <2>2. QED
        BY <2>1, TradesAssumption DEF At
<1>2. <<u, At(u)>> \in Ids
    BY <1>1 DEF Ids
<1>3. ~There(<<u, At(u)>>)
    BY <1>1, <1>2, UploadTyped DEF TradesInv, RowsReported
<1>4. Key(u) \in Keys
    BY <1>1, UploadTyped DEF TradesInv, StepsFollow, Insert, Key
<1>5. o \in Observation
    BY <1>4, UploadTyped DEF Observation, States, TradesInv
<1>6. o # NoObs
    BY <1>5, NoObsAssumption
<1>7. table' = [table EXCEPT ![<<u, At(u)>>] = o]
    BY DEF Insert
<1> HIDE DEF o
<1>8. /\ table' \in [Ids -> Observation \cup {NoObs}] /\ table'[<<u, At(u)>>] = o
      /\ \A j \in Ids \ {<<u, At(u)>>} : table'[j] = table[j]
    BY <1>2, <1>5, <1>7 DEF TradesInv, TradesTypeOK
<1>9. QED
    BY <1>2, <1>3, <1>4, <1>6, <1>8 DEF o

LEMMA InsertInv ==
    ASSUME TradesInv, NEW u \in Uploads, Insert(u)
    PROVE  TradesInv'
<1>1. /\ upload[u] \in Upload /\ Len(upload[u].report) < Len(upload[u].rows)
      /\ Len(upload[u].report) \in Nat /\ Len(upload[u].rows) \in Nat
      /\ upload[u].bulk \in BOOLEAN /\ upload[u].step = "insert"
    BY UploadTyped DEF TradesInv, StepsFollow, Insert
<1>2. PICK i \in Ids : i = <<u, At(u)>>
    BY InsertEffect
<1>3. /\ ~There(i) /\ There(i)' /\ Key(u) \in Keys
      /\ table' \in [Ids -> Observation \cup {NoObs}]
      /\ table'[i].key = Key(u) /\ table'[i].state = "live" /\ table'[i].committed = ~upload[u].bulk
      /\ \A j \in Ids \ {i} : table'[j] = table[j]
    <2>1. /\ table'[i] = [key |-> Key(u), state |-> "live", committed |-> ~upload[u].bulk]
          /\ ~There(i) /\ table'[i] # NoObs /\ Key(u) \in Keys
          /\ table' \in [Ids -> Observation \cup {NoObs}]
          /\ \A j \in Ids \ {i} : table'[j] = table[j]
        BY <1>2, InsertEffect
    <2>2. There(i)'
        BY <2>1 DEF There
    <2>3. QED
        BY <2>1, <2>2
<1>4. /\ upload' \in [Uploads -> Upload]
      /\ \A v \in Uploads \ {u} : upload'[v] = upload[v]
      /\ upload'[u].bulk = upload[u].bulk /\ upload'[u].rows = upload[u].rows
      /\ upload'[u].after = upload[u].after
      /\ Len(upload'[u].report) = At(u)
      /\ \A m \in 1 .. Len(upload[u].report) : upload'[u].report[m] = upload[u].report[m]
      /\ upload'[u].report[At(u)] = [id |-> i, new |-> TRUE]
      /\ upload'[u].step = IF At(u) < Len(upload[u].rows) THEN "lookup"
                           ELSE IF upload[u].bulk THEN "commit" ELSE "answered"
    BY <1>1, <1>2, ReportedEffect DEF TradesInv, Insert
<1>5. At(u) = Len(upload[u].report) + 1
    BY DEF At
<1>6. Moves(u)
    BY <1>1, <1>4, <1>5 DEF Moves, Answered
<1>7. i[1] = u /\ i[2] = At(u) /\ dropped' = dropped
    BY <1>2 DEF Insert
<1>8. ASSUME NEW j \in Ids, There(j)'
      PROVE  j = i \/ (There(j) /\ table'[j] = table[j])
    BY <1>3, <1>8 DEF There
<1>9. StepsFollow'
    <2>1. ASSUME NEW v \in Uploads \ {u} PROVE Key(v)' = Key(v)
        BY <1>4 DEF Key, At
    <2>2. QED
        BY <1>1, <1>4, <1>5, <2>1 DEF TradesInv, StepsFollow
<1>10. TradesTypeOK'
    <2>1. ASSUME NEW j \in Ids, There(j)', ~table'[j].committed
          PROVE  upload'[j[1]].bulk /\ Running(j[1])'
        <3>1. CASE j = i
            BY <1>1, <1>3, <1>4, <1>5, <1>7, <2>1, <3>1 DEF Running
        <3>2. CASE j # i
            <4>1. j[1] \in Uploads /\ upload[j[1]].bulk /\ Running(j[1])
                BY <1>8, <2>1, <3>2, IdsPairs DEF TradesInv, TradesTypeOK
            <4>2. QED
                BY <1>4, <4>1 DEF Running
        <3>3. QED
            BY <3>1, <3>2
    <2>2. \A v \in Uploads : Len(upload'[v].report) <= Len(upload'[v].rows)
        BY <1>1, <1>4, <1>5 DEF TradesInv, TradesTypeOK
    <2>3. QED
        BY <1>3, <1>4, <1>7, <2>1, <2>2 DEF TradesInv, TradesTypeOK
<1>11. RowsReported'
    <2>1. ASSUME NEW j \in Ids, There(j)' PROVE j[2] <= Len(upload'[j[1]].report)
        <3>1. j[1] \in Uploads /\ j[2] \in Nat /\ Len(upload[j[1]].report) \in Nat
            BY IdsPairs, UploadTyped DEF TradesInv
        <3>2. QED
            BY <1>1, <1>4, <1>5, <1>7, <1>8, <2>1, <3>1 DEF TradesInv, RowsReported
    <2>2. QED
        BY <2>1 DEF RowsReported
<1>12. TableInv'
    <2>1. ASSUME NEW j \in Ids, There(j), table[j].key = Key(u) PROVE table[j].state # "live"
        BY <2>1 DEF Insert, Conflicts, Holds
    <2>2. IndexUnique'
        BY <1>3, <1>8, <2>1 DEF TradesInv, TableInv, IndexUnique
    <2>3. BulkUncommitted'
        <3>1. ASSUME NEW j \in Ids, There(j)', upload'[j[1]].bulk, table'[j].committed
              PROVE  upload'[j[1]].step = "answered"
            <4>1. j # i /\ j[1] \in Uploads
                BY <1>3, <1>4, <1>7, <3>1, IdsPairs
            <4>2. upload[j[1]].bulk /\ There(j) /\ table[j].committed
                BY <1>4, <1>8, <3>1, <4>1
            <4>3. upload[j[1]].step = "answered"
                BY <4>2 DEF TradesInv, TableInv, BulkUncommitted
            <4>4. QED
                BY <1>1, <1>4, <4>1, <4>3
        <3>2. QED
            BY <3>1 DEF BulkUncommitted
    <2>4. UncommittedLive' /\ DroppedSeen'
        BY <1>3, <1>7, <1>8 DEF TradesInv, TableInv, UncommittedLive, DroppedSeen
    <2>5. QED
        BY <2>2, <2>3, <2>4 DEF TableInv
<1>13. ReportsNamed'
    <2>1. ASSUME NEW m \in 1 .. Len(upload'[u].report), m > Len(upload[u].report)
          PROVE  Names(u, m)'
        <3>1. m = At(u)
            BY <1>1, <1>4, <1>5, <2>1
        <3>2. upload'[u].report[m] = [id |-> i, new |-> TRUE] /\ upload'[u].rows[m] = table'[i].key
            BY <1>3, <1>4, <3>1 DEF Key
        <3>3. i = <<u, m>> /\ There(i)' /\ i[1] = u
            BY <1>2, <1>3, <1>7, <3>1
        <3>4. QED
            BY <3>2, <3>3 DEF Names, There
    <2>2. ASSUME NEW j \in Ids, There(j) PROVE RowStays(j)
        BY <1>3, <2>2 DEF RowStays, There
    <2>3. Running(u)
        BY <1>1 DEF Running
    <2>4. QED
        BY <1>6, <2>1, <2>2, <2>3, NamedStep
<1>14. ReimportInv'
    <2>1. upload'[u].step # "insert"
        BY <1>4
    <2>2. \A n \in 1 .. Len(upload'[u].report) : n > Len(upload[u].report) => n = At(u)
        BY <1>1, <1>4, <1>5
    <2>3. QED
        BY <1>1, <1>4, <1>6, <1>7, <2>1, <2>2, ReimportStep
<1>15. QED
    BY <1>9, <1>10, <1>11, <1>12, <1>13, <1>14 DEF TradesInv

LEMMA CommitInv ==
    ASSUME TradesInv, NEW u \in Uploads, Commit(u)
    PROVE  TradesInv'
<1>1. /\ upload[u] \in Upload /\ upload[u].bulk /\ upload[u].step = "commit"
      /\ Len(upload[u].report) = Len(upload[u].rows)
      /\ Len(upload[u].report) \in Nat /\ Len(upload[u].rows) \in Nat
    BY UploadTyped DEF TradesInv, StepsFollow, Commit
<1>2. /\ upload' \in [Uploads -> Upload]
      /\ \A v \in Uploads \ {u} : upload'[v] = upload[v]
      /\ upload'[u].bulk = upload[u].bulk /\ upload'[u].rows = upload[u].rows
      /\ upload'[u].after = upload[u].after /\ upload'[u].report = upload[u].report
      /\ upload'[u].step = "answered"
    BY StepEffect DEF TradesInv, Commit, UploadSteps, Outcomes
<1>3. Moves(u)
    BY <1>1, <1>2 DEF Moves, Answered
<1>4. ASSUME NEW i \in Ids, There(i), i[1] = u
      PROVE  /\ table'[i] \in Observation /\ table'[i] # NoObs /\ table'[i].committed
             /\ table'[i].key = table[i].key /\ table'[i].state = table[i].state
    <2> DEFINE o == [table[i] EXCEPT !.committed = TRUE]
    <2>1. table'[i] = o
        BY <1>4 DEF Commit, Mine
    <2>2. table[i] \in Observation
        BY <1>4 DEF There, TradesInv, TradesTypeOK
    <2>3. o \in Observation /\ o.committed /\ o.key = table[i].key /\ o.state = table[i].state
        BY <2>2 DEF Observation
    <2> HIDE DEF o
    <2>4. QED
        BY <2>1, <2>3, NoObsAssumption
<1>5. ASSUME NEW i \in Ids, ~(There(i) /\ i[1] = u) PROVE table'[i] = table[i]
    BY <1>5 DEF Commit, Mine
<1>6. dropped' = dropped /\ DOMAIN table' = Ids /\ table' = [i \in Ids |-> table'[i]]
    BY DEF Commit
<1>7. table' \in [Ids -> Observation \cup {NoObs}]
    <2>1. \A i \in Ids : table'[i] \in Observation \cup {NoObs}
        BY <1>4, <1>5 DEF TradesInv, TradesTypeOK
    <2>2. QED
        BY <1>6, <2>1
<1>8. ASSUME NEW i \in Ids
      PROVE  /\ There(i)' <=> There(i)
             /\ There(i) => /\ table'[i].key = table[i].key /\ table'[i].state = table[i].state
                            /\ table'[i].committed <=> table[i].committed \/ i[1] = u
    <2>1. CASE There(i) /\ i[1] = u
        BY <1>4, <2>1 DEF There
    <2>2. CASE ~(There(i) /\ i[1] = u)
        BY <1>5, <2>2 DEF There
    <2>3. QED
        BY <2>1, <2>2
<1>9. \A i \in Ids : There(i) => RowStays(i)
    BY <1>8 DEF RowStays, There
<1>10. TradesTypeOK'
    <2>1. ASSUME NEW j \in Ids, There(j)', ~table'[j].committed
          PROVE  upload'[j[1]].bulk /\ Running(j[1])'
        <3>1. j[1] \in Uploads \ {u} /\ There(j) /\ ~table[j].committed
            BY <1>8, <2>1, IdsPairs
        <3>2. QED
            BY <1>2, <3>1 DEF TradesInv, TradesTypeOK, Running
    <2>2. \A v \in Uploads : Len(upload'[v].report) <= Len(upload'[v].rows)
        BY <1>1, <1>2 DEF TradesInv, TradesTypeOK
    <2>3. QED
        BY <1>2, <1>6, <1>7, <2>1, <2>2 DEF TradesInv, TradesTypeOK
<1>11. StepsFollow'
    <2>1. ASSUME NEW v \in Uploads PROVE Key(v)' = Key(v)
        BY <1>2 DEF Key, At
    <2>2. ASSUME NEW v \in Uploads \ {u}
          PROVE  /\ upload'[v] = upload[v] /\ Key(v)' = Key(v)
        BY <1>2, <2>1
    <2>3. upload'[u].bulk /\ upload'[u].step = "answered" /\ Len(upload'[u].report) = Len(upload'[u].rows)
        BY <1>1, <1>2
    <2>4. QED
        BY <2>2, <2>3 DEF TradesInv, StepsFollow
<1>12. RowsReported' /\ TableInv'
    <2>1. \A i \in Ids : i[1] \in Uploads /\ upload'[i[1]].bulk = upload[i[1]].bulk
                         /\ upload'[i[1]].report = upload[i[1]].report
        BY <1>2, IdsPairs
    <2>2. RowsReported'
        BY <1>8, <2>1 DEF TradesInv, RowsReported
    <2>3. BulkUncommitted'
        BY <1>2, <1>8, <2>1 DEF TradesInv, TableInv, BulkUncommitted
    <2>4. QED
        BY <1>6, <1>8, <2>2, <2>3 DEF TradesInv, TableInv, UncommittedLive, IndexUnique, DroppedSeen
<1>13. \A n \in 1 .. Len(upload'[u].report) : ~(n > Len(upload[u].report))
    BY <1>1, <1>2
<1>14. ReportsNamed'
    <2>1. Running(u)
        BY <1>1 DEF Running
    <2>2. QED
        BY <1>3, <1>9, <1>13, <2>1, NamedStep
<1>15. ReimportInv'
    <2>1. upload'[u].step # "insert"
        BY <1>2
    <2>2. QED
        BY <1>2, <1>3, <1>6, <1>13, <2>1, ReimportStep
<1>16. QED
    BY <1>10, <1>11, <1>12, <1>14, <1>15 DEF TradesInv

\* What moderating an observation changes.
LEMMA MarkEffect ==
    ASSUME TradesInv, NEW i \in Ids, NEW to \in States, MarkObservation(i, to)
    PROVE  /\ table' \in [Ids -> Observation \cup {NoObs}]
           /\ table'[i] \in Observation /\ table'[i].state = to /\ table'[i].key = table[i].key
           /\ table'[i].committed /\ table[i].committed /\ There(i)
           /\ \A j \in Ids \ {i} : table'[j] = table[j]
           /\ \A j \in Ids : There(j)' <=> There(j)
<1> DEFINE o == [table[i] EXCEPT !.state = to]
<1>1. table[i] \in Observation /\ table[i].committed /\ There(i)
    BY DEF MarkObservation, There, TradesInv, TradesTypeOK
<1>2. o \in Observation /\ o.state = to /\ o.key = table[i].key /\ o.committed
    BY <1>1 DEF Observation
<1>3. table' = [table EXCEPT ![i] = o]
    BY DEF MarkObservation
<1> HIDE DEF o
<1>4. /\ table' \in [Ids -> Observation \cup {NoObs}] /\ table'[i] = o
      /\ \A j \in Ids \ {i} : table'[j] = table[j]
    BY <1>2, <1>3 DEF TradesInv, TradesTypeOK
<1>5. \A j \in Ids : There(j)' <=> There(j)
    BY <1>1, <1>2, <1>4, NoObsAssumption DEF There
<1>6. QED
    BY <1>1, <1>2, <1>4, <1>5

LEMMA MarkInv ==
    ASSUME TradesInv, NEW i \in Ids, NEW to \in States, MarkObservation(i, to)
    PROVE  TradesInv'
<1>1. /\ upload' = upload /\ dropped \subseteq dropped' /\ dropped' \subseteq Keys
      /\ to = "deleted" => table[i].key \in dropped'
    BY MarkEffect DEF MarkObservation, TradesInv, TradesTypeOK, Observation, There
<1>2. ASSUME NEW j \in Ids
      PROVE  /\ There(j)' <=> There(j)
             /\ There(j) => /\ table'[j].key = table[j].key
                            /\ table'[j].committed = table[j].committed
                            /\ table'[j].state = table[j].state \/ j = i
    <2>1. table[i] \in Observation /\ table'[i].committed = table[i].committed
        BY MarkEffect DEF TradesInv, TradesTypeOK, There, Observation
    <2>2. QED
        BY <2>1, MarkEffect
<1>3. TradesTypeOK'
    BY <1>1, <1>2, MarkEffect DEF TradesInv, TradesTypeOK, Running
<1>4. StepsFollow' /\ RowsReported'
    BY <1>1, <1>2 DEF TradesInv, StepsFollow, RowsReported, Key, At
<1>5. ReportsNamed'
    <2> SUFFICES ASSUME NEW u \in Uploads, Running(u) \/ Answered(u), NEW n \in 1 .. Len(upload[u].report)
                 PROVE  Names(u, n)'
        BY <1>1 DEF ReportsNamed, Running, Answered
    <2>1. Names(u, n) /\ upload[u].report[n].id \in Ids
        BY ReportedIds DEF TradesInv, ReportsNamed, Answered
    <2>2. RowStays(upload[u].report[n].id)
        BY <1>2, <2>1 DEF Names, RowStays, There
    <2>3. QED
        BY <1>1, <2>1, <2>2, NamesStay DEF TradesInv
<1>6. TableInv'
    <2>1. BulkUncommitted'
        BY <1>1, <1>2 DEF TradesInv, TableInv, BulkUncommitted
    <2>2. UncommittedLive'
        BY <1>2, MarkEffect DEF TradesInv, TableInv, UncommittedLive
    <2>3. IndexUnique'
        <3>1. ASSUME NEW j \in Ids \ {i}, to = "live", There(j), table[j].key = table[i].key
              PROVE  table[j].state # "live"
            BY <3>1 DEF MarkObservation, Rivals, Holds
        <3>2. QED
            BY <1>2, <3>1, MarkEffect DEF TradesInv, TableInv, IndexUnique
    <2>4. DroppedSeen'
        BY <1>1, <1>2, MarkEffect DEF TradesInv, TableInv, DroppedSeen
    <2>5. QED
        BY <2>1, <2>2, <2>3, <2>4 DEF TableInv
<1>7. ReimportInv'
    BY <1>1 DEF TradesInv, ReimportInv, AfterAnswered, InsertsUnanswered, ReimportAddsNothing, Key, At
<1>8. QED
    BY <1>3, <1>4, <1>5, <1>6, <1>7 DEF TradesInv

-----------------------------------------------------------------------------
(* Every step *)

\* An upload in a deadlock is waiting to insert.
LEMMA DeadlockedInserts ==
    ASSUME NEW u \in Uploads, Deadlocked(u)
    PROVE  upload[u].step = "insert"
<1>1. PICK w \in Uploads : w \in WaitsFor(u)
    BY DEF Deadlocked
<1>2. QED
    BY <1>1 DEF WaitsFor

LEMMA LookupInv ==
    ASSUME TradesInv, NEW u \in Uploads, Lookup(u) \/ Recheck(u)
    PROVE  TradesInv'
<1>1. Key(u) # BadRow /\ upload[u].step \in {"lookup", "recheck"} /\ UNCHANGED <<table, dropped>>
    BY DEF Lookup, Recheck, TradesInv, StepsFollow
<1>2. CASE \E i \in Found(u) : Reported(u, i, FALSE)
    BY <1>1, <1>2, FoundInv
<1>3. CASE Lookup(u) /\ Found(u) = {} /\ upload' = [upload EXCEPT ![u].step = "insert"]
    BY <1>1, <1>3, TurnInv
<1>4. CASE Recheck(u) /\ upload' = [upload EXCEPT ![u].step = "collided"]
    <2>1. ~upload[u].bulk
        BY <1>4 DEF Recheck, TradesInv, StepsFollow
    <2>2. QED
        BY <1>1, <1>4, <2>1, TurnInv
<1>5. QED
    BY <1>2, <1>3, <1>4 DEF Lookup, Recheck

LEMMA CollideInv ==
    ASSUME TradesInv, NEW u \in Uploads, Collide(u)
    PROVE  TradesInv'
<1>1. upload[u].step = "insert" /\ Key(u) # BadRow /\ upload[u].bulk \in BOOLEAN
    BY UploadTyped DEF Collide, TradesInv, StepsFollow
<1>2. CASE upload[u].bulk
    BY <1>1, <1>2, EndsInv DEF Collide, Outcomes, Running
<1>3. CASE ~upload[u].bulk
    BY <1>1, <1>3, TurnInv DEF Collide
<1>4. QED
    BY <1>1, <1>2, <1>3

LEMMA FailInv ==
    ASSUME TradesInv, NEW u \in Uploads, Reject(u) \/ AbortDeadlock(u) \/ Kill(u)
    PROVE  TradesInv'
<1>1. Running(u)
    BY DeadlockedInserts DEF Reject, AbortDeadlock, Kill, Running
<1>2. QED
    BY <1>1, EndsInv DEF Reject, AbortDeadlock, Kill, Outcomes

LEMMA StutterInv ==
    ASSUME TradesInv, UNCHANGED tradeVars
    PROVE  TradesInv'
BY DEF TradesInv, TradesTypeOK, StepsFollow, RowsReported, ReportsNamed, Names, TableInv,
       BulkUncommitted, UncommittedLive, IndexUnique, DroppedSeen, ReimportInv, AfterAnswered,
       InsertsUnanswered, ReimportAddsNothing, Running, There, Key, At, tradeVars

LEMMA InitInv == TradesInit => TradesInv
<1> SUFFICES ASSUME TradesInit PROVE TradesInv
    OBVIOUS
<1>1. TradesTypeOK
    BY InitTyped
<1>2. \A i \in Ids : ~There(i)
    BY DEF TradesInit, There
<1>3. ASSUME NEW u \in Uploads
      PROVE  upload[u].report = <<>> /\ upload[u].step = "waiting" /\ upload[u].after = {}
    <2>1. PICK b \in BOOLEAN, l \in RowLists :
              upload[u] = [bulk |-> b, rows |-> l, step |-> "waiting", report |-> <<>>, after |-> {}]
        BY DEF TradesInit
    <2>2. QED
        BY <2>1
<1>4. StepsFollow
    BY <1>3 DEF TradesInit, StepsFollow
<1>5. RowsReported /\ TableInv
    BY <1>2 DEF RowsReported, TableInv, BulkUncommitted, UncommittedLive, IndexUnique, DroppedSeen
<1>6. ReportsNamed /\ ReimportInv
    BY <1>3 DEF ReportsNamed, Running, ReimportInv, AfterAnswered, InsertsUnanswered, ReimportAddsNothing
<1>7. QED
    BY <1>1, <1>4, <1>5, <1>6 DEF TradesInv

LEMMA NextInv == TradesInv /\ [TradesNext]_tradeVars => TradesInv'
<1> SUFFICES ASSUME TradesInv, [TradesNext]_tradeVars PROVE TradesInv'
    OBVIOUS
<1>1. ASSUME NEW u \in Uploads, Begin(u) \/ UploadStep(u) \/ Kill(u) PROVE TradesInv'
    BY <1>1, BeginInv, LookupInv, FailInv, InsertInv, CollideInv, CommitInv DEF UploadStep
<1>2. ASSUME NEW i \in Ids, NEW to \in States, MarkObservation(i, to) PROVE TradesInv'
    BY <1>2, MarkInv
<1>3. QED
    BY <1>1, <1>2, StutterInv DEF TradesNext

LEMMA InvHolds == TradesSpec => []TradesInv
BY InitInv, NextInv, PTL DEF TradesSpec

-----------------------------------------------------------------------------
(* The log *)

Visible(i) == There(i) /\ table[i].committed

LogEntry ==
    [i \in Ids |-> IF There(i) /\ table[i].committed
                   THEN [key |-> table[i].key, state |-> table[i].state] ELSE NoObs]

\* The log lists what is visible.
LogShows ==
    \A i \in Ids :
        /\ i \in Log!Known <=> Visible(i)
        /\ Visible(i) => LogEntry[i] = [key |-> table[i].key, state |-> table[i].state]
        /\ LogEntry[i] # NoObs <=> Visible(i)

LEMMA LogKnown == TradesTypeOK => LogShows
<1> SUFFICES ASSUME TradesTypeOK, NEW i \in Ids
             PROVE  /\ i \in Log!Known <=> Visible(i)
                    /\ Visible(i) => LogEntry[i] = [key |-> table[i].key, state |-> table[i].state]
                    /\ LogEntry[i] # NoObs <=> Visible(i)
    BY DEF LogShows
<1>1. CASE Visible(i)
    <2>1. table[i] \in Observation
        BY <1>1 DEF Visible, There, TradesTypeOK
    <2>2. [key |-> table[i].key, state |-> table[i].state] # NoObs
        BY <2>1, NoObsAssumption DEF Observation
    <2>3. QED
        BY <1>1, <2>2 DEF Log!Known, Visible, LogEntry
<1>2. CASE ~Visible(i)
    BY <1>2 DEF Log!Known, Visible, LogEntry
<1>3. QED
    BY <1>1, <1>2

LEMMA LogDistinct == TradesInv => Log!Distinct
<1> SUFFICES ASSUME TradesInv, NEW i \in Ids, NEW j \in Ids, i \in Log!Known, j \in Log!Known,
                    LogEntry[i].key = LogEntry[j].key,
                    LogEntry[i].state = "live", LogEntry[j].state = "live"
             PROVE  i = j
    BY DEF Log!Distinct, Log!Known, LogEntry
<1>1. /\ Visible(i) /\ LogEntry[i] = [key |-> table[i].key, state |-> table[i].state]
      /\ Visible(j) /\ LogEntry[j] = [key |-> table[j].key, state |-> table[j].state]
    BY LogKnown DEF TradesInv, LogShows
<1>2. QED
    BY <1>1 DEF Visible, TradesInv, TableInv, IndexUnique

\* No step of an upload touches what is visible, and what it makes visible counts.
LEMMA UploadAdds ==
    ASSUME TradesInv, TradesInv', NEW u \in Uploads, Begin(u) \/ UploadStep(u) \/ Kill(u)
    PROVE  /\ \A i \in Ids : Visible(i) => Visible(i)' /\ table'[i].key = table[i].key
                                           /\ table'[i].state = table[i].state
           /\ \A i \in Ids : ~Visible(i) /\ Visible(i)' => table'[i].state = "live"
<1>1. CASE table' = table
    BY <1>1 DEF Visible, There
<1>2. CASE table' = RolledBack(u)
    BY <1>2 DEF Visible, There, RolledBack, Mine
<1>3. CASE Insert(u)
    <2>1. PICK i \in Ids : i = <<u, At(u)>>
        BY <1>3, InsertEffect
    <2>2. ~There(i) /\ \A j \in Ids \ {i} : table'[j] = table[j]
        BY <1>3, <2>1, InsertEffect
    <2>3. table'[i].state = "live"
        <3>1. table'[i] = [key |-> Key(u), state |-> "live", committed |-> ~upload[u].bulk]
            BY <1>3, <2>1, InsertEffect
        <3>2. QED
            BY <3>1
    <2>4. QED
        BY <2>2, <2>3 DEF Visible, There
<1>4. CASE Commit(u)
    <2>1. ASSUME NEW i \in Ids, There(i), i[1] = u
          PROVE  /\ ~table[i].committed /\ table[i].state = "live"
                 /\ table'[i].key = table[i].key /\ table'[i].state = table[i].state
        <3>1. table[i] \in Observation /\ upload[u].bulk /\ upload[u].step = "commit"
            BY <1>4, <2>1 DEF There, TradesInv, TradesTypeOK, StepsFollow, Commit
        <3>2. table'[i] = [table[i] EXCEPT !.committed = TRUE]
            BY <1>4, <2>1 DEF Commit, Mine
        <3>3. ~table[i].committed
            BY <2>1, <3>1 DEF TradesInv, TableInv, BulkUncommitted
        <3>4. QED
            BY <2>1, <3>1, <3>2, <3>3 DEF Observation, TradesInv, TableInv, UncommittedLive
    <2>2. ASSUME NEW i \in Ids, ~(There(i) /\ i[1] = u) PROVE table'[i] = table[i]
        BY <1>4, <2>2 DEF Commit, Mine
    <2>3. QED
        BY <2>1, <2>2 DEF Visible, There
<1>5. QED
    BY <1>1, <1>2, <1>3, <1>4
       DEF UploadStep, Begin, Lookup, Reject, Collide, Recheck, AbortDeadlock, Kill, Ends

LEMMA LogStep ==
    TradesInv /\ TradesInv' /\ [TradesNext]_tradeVars => [Log!LogNext]_LogEntry
<1> SUFFICES ASSUME TradesInv, TradesInv', [TradesNext]_tradeVars
             PROVE  Log!LogNext \/ LogEntry' = LogEntry
    OBVIOUS
<1>1. Log!Distinct'
    BY LogDistinct, PTL
<1>2. LogShows /\ \A i \in Ids :
        /\ Visible(i)' => LogEntry'[i] = [key |-> table'[i].key, state |-> table'[i].state]
        /\ LogEntry'[i] # NoObs <=> Visible(i)'
    <2>1. TradesTypeOK /\ TradesTypeOK'
        BY DEF TradesInv
    <2>2. LogShows /\ LogShows'
        BY <2>1, LogKnown, PTL
    <2>3. QED
        BY <2>2 DEF LogShows
<1>3. ASSUME NEW u \in Uploads, Begin(u) \/ UploadStep(u) \/ Kill(u)
      PROVE  Log!Add
    <2>1. \A i \in Log!Known : i \in Ids /\ LogEntry'[i] = LogEntry[i]
        BY <1>2, <1>3, UploadAdds DEF LogShows, Log!Known
    <2>2. ASSUME NEW i \in Ids \ Log!Known, LogEntry'[i] # NoObs
          PROVE  LogEntry'[i].state = "live"
        <3>1. ~Visible(i) /\ Visible(i)'
            BY <1>2, <2>2 DEF LogShows
        <3>2. table'[i].state = "live"
            BY <1>3, <3>1, UploadAdds
        <3>3. i \in Ids /\ LogEntry'[i] = [key |-> table'[i].key, state |-> table'[i].state]
            BY <1>2, <3>1
        <3>4. QED
            BY <3>2, <3>3
    <2>3. QED
        BY <1>1, <2>1, <2>2 DEF Log!Add, LogEntry
<1>4. ASSUME NEW i \in Ids, NEW to \in States, MarkObservation(i, to)
      PROVE  i \in Log!Known /\ (Log!Moderate(i) \/ LogEntry' = LogEntry)
    <2>1. i \in Log!Known /\ Visible(i) /\ Visible(i)'
        BY <1>2, <1>4, MarkEffect DEF LogShows, Visible
    <2>2. LogEntry'[i] = [LogEntry[i] EXCEPT !.state = to]
        <3>1. table'[i].state = to /\ table'[i].key = table[i].key
            BY <1>4, MarkEffect
        <3>2. LogEntry[i] = [key |-> table[i].key, state |-> table[i].state]
            BY <1>2, <2>1 DEF LogShows
        <3>3. LogEntry'[i] = [key |-> table[i].key, state |-> to]
            BY <1>2, <2>1, <3>1
        <3>4. QED
            BY <3>2, <3>3
    <2>3. \A j \in Ids \ {i} : LogEntry'[j] = LogEntry[j]
        BY <1>4, MarkEffect DEF LogEntry, There
    <2>4. LogEntry = [j \in Ids |-> LogEntry[j]] /\ LogEntry' = [j \in Ids |-> LogEntry'[j]]
        BY DEF LogEntry
    <2>5. LogEntry' = [LogEntry EXCEPT ![i].state = to]
        BY <2>2, <2>3, <2>4
    <2>6. QED
        BY <1>1, <2>1, <2>5 DEF Log!Moderate, LogEntry, States
<1>5. CASE UNCHANGED tradeVars
    BY <1>5 DEF tradeVars, LogEntry, There
<1>6. QED
    BY <1>3, <1>4, <1>5 DEF TradesNext, Log!LogNext

-----------------------------------------------------------------------------
(* Theorems *)

\* Every state is typed, and no row of an upload that has ended is uncommitted: the worker
\* that dies, the error and the deadlock all end the transaction.
THEOREM TradesTyped == TradesSpec => []TradesTypeOK
BY InvHolds, PTL DEF TradesInv

\* The answer of register_observation, bulk_create_observations and import_csv is true when
\* it is given and stays so: one entry for each row, naming a committed observation of that
\* trade, new exactly when this upload inserted it.
THEOREM AnswersTrue == TradesSpec => []AnswersAreTrue
<1>1. TradesInv => AnswersAreTrue
    <2> SUFFICES ASSUME TradesInv, NEW u \in Uploads, upload[u].step = "answered"
                 PROVE  /\ Len(upload[u].report) = Len(upload[u].rows)
                        /\ \A n \in 1 .. Len(upload[u].rows) :
                               LET r == upload[u].report[n]
                               IN  /\ There(r.id) /\ table[r.id].committed
                                   /\ table[r.id].key = upload[u].rows[n]
                                   /\ r.new <=> r.id = <<u, n>>
        BY DEF AnswersAreTrue
    <2>1. Len(upload[u].report) = Len(upload[u].rows)
        BY DEF TradesInv, StepsFollow
    <2>2. ASSUME NEW n \in 1 .. Len(upload[u].report)
          PROVE  Names(u, n) /\ table[upload[u].report[n].id].committed
        <3>1. Names(u, n) /\ upload[u].report[n].id \in Ids
            BY ReportedIds DEF TradesInv, ReportsNamed
        <3>2. QED
            BY <3>1 DEF Names, TradesInv, TradesTypeOK, Running
    <2>3. QED
        BY <2>1, <2>2 DEF Names
<1>2. QED
    BY <1>1, InvHolds, PTL

\* A bulk upload that did not answer left none of its rows (the atomic block of
\* bulk_create_observations).
THEOREM BulkAllOrNothing == TradesSpec => []AllOrNothing
<1>1. TradesInv => AllOrNothing
    BY IdsPairs DEF TradesInv, TradesTypeOK, TableInv, BulkUncommitted, AllOrNothing, Mine,
       Running, Outcomes
<1>2. QED
    BY <1>1, InvHolds, PTL

\* An upload of what another had imported before it began adds nothing, unless an
\* observation of the trade was deleted (register_observation, _compute_dedup_hash).
THEOREM ReimportIsEmpty == TradesSpec => []ReimportAddsNothing
BY InvHolds, PTL DEF TradesInv, ReimportInv

\* To who reads the observations, registering and moderating them is the log of
\* ObservationLog: a step of an upload adds rows that count or changes nothing one sees, and
\* no two counting observations are the same trade (docs/domain-model.md, TradeObservation).
THEOREM LogImplemented == TradesSpec => ImplementsLog
<1>1. TradesInit => Log!LogInit
    BY DEF TradesInit, Log!LogInit, There
<1>2. TradesInv /\ TradesInv' /\ [TradesNext]_tradeVars =>
          [Log!LogNext]_[i \in Ids |-> IF There(i) /\ table[i].committed
                            THEN [key |-> table[i].key, state |-> table[i].state] ELSE NoObs]
    BY LogStep DEF LogEntry
<1>3. QED
    BY InvHolds, <1>1, <1>2, PTL DEF TradesSpec, ImplementsLog, Log!LogSpec

=============================================================================
