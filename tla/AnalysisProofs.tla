--------------------------- MODULE AnalysisProofs ---------------------------
(***************************************************************************)
(* What Analysis and Verdicts promise for any number of observations,      *)
(* rulesets and requests: an earlier run is given again only for the data  *)
(* it analysed, an unfinished run is empty, and what the dashboard says is *)
(* drawn from enough rows and warns of their mixture.                      *)
(*                                                                         *)
(* The argument for reuse: as long as no write overtook another, every     *)
(* valid row that is not newer than a fingerprint's maximum was counted by *)
(* it (Snapshot).  So rows that have the same maximum now are among those  *)
(* that were counted, and as many of them are all of them.                 *)
(***************************************************************************)
EXTENDS Verdicts, FiniteSetTheorems, WellFoundedInduction, TLAPS

-----------------------------------------------------------------------------
(* The inductive invariant, part by part *)

Early == {"new", "lookup", "create"}
Data == SUBSET (Obs \X Group)

\* The variables have their types.
AnalysisTypeOK ==
    /\ obs \in [Obs -> Row \cup {None}]
    /\ writing \in [Obs -> Row \cup {None}]
    /\ clock \in 0 .. MaxClock
    /\ rulesets \subseteq Rulesets
    /\ current \in rulesets \cup {None}
    /\ request \in [Requests -> Request]
    /\ run \in [Requests -> Run \cup {None}]
    /\ clean \in [Requests -> Data \cup {None}]
    /\ thinned \subseteq Requests

\* No two writes have the same time, and the committed ones are all past.
StampsInv ==
    /\ \A o \in Obs : /\ obs[o] # None => obs[o].stamp <= clock
                      /\ writing[o] # None => writing[o].stamp <= clock
    /\ \A o, p \in Obs : writing[o] # None /\ obs[p] # None => writing[o].stamp # obs[p].stamp
    /\ \A o, p \in Obs : o # p /\ writing[o] # None /\ writing[p] # None
                             => writing[o].stamp # writing[p].stamp

\* A request has its run from the moment it has created it, and a run that is not complete
\* has no results (q is a request's record, x its run).
Kept(q, x) ==
    /\ q.step \in Early => x = None
    /\ q.step \in Early \cup {"lucky_groups"} \cup Flagging => q.results = {}
    /\ q.step \in {"lookup", "create"} => q.print \in Fingerprint
    /\ q.step \in Grouping => q.group \in Group
    /\ q.step \in Grouping \ {"resolve"} => q.floor \in Rulesets \cup {Default}
    /\ q.step \in Computing => x # None /\ x.status = "pending"
    /\ x # None /\ x.status # "complete" => x.results = {}

\* What the analysis of the groups S finds with the rows and the rulesets of this moment.
Found(m, g) == [metric |-> m, group |-> g, floor |-> Floor(g), rows |-> InGroup(g)]
FoundIn(S) == {Found(m, g) : m \in Metrics, g \in {h \in S : Floor(h) # None}}

\* ... and of the group g, at a step of its analysis.
FoundOf(g, step) ==
    {Found(m, g) : m \in CASE step \in {"count", "stats"} -> {"hundo_rate"}
                           [] step = "sums"               -> {"hundo_rate", "stat_uniformity"}
                           [] OTHER                       -> {}}

\* As long as nothing changes, an analysis has found what there is to find so far (c is the
\* clean data of the request).
Progressing(q, c) ==
    q.step \in Computing /\ c # None =>
        /\ c = Input
        /\ q.step = "normal_groups" => q.groups = {g \in Groups : IsLucky(g)}
        /\ q.step \in {"count_lucky", "count_normal", "count_rulesets"} => q.groups = Groups
        /\ q.step \in {"floor"} \cup Grouping => q.groups \subseteq Groups
        /\ q.step = "floor" => q.results = FoundIn(Groups \ q.groups)
        /\ q.step \in Grouping =>
               /\ q.group \in Groups \ q.groups
               /\ IF q.step = "resolve" THEN q.group.ruleset \notin rulesets
                  ELSE q.floor = Floor(q.group) /\ q.floor # None
               /\ q.results = FoundIn((Groups \ q.groups) \ {q.group}) \cup FoundOf(q.group, q.step)
        /\ q.step = "commit" => q.results = FoundIn(Groups)

GroupsOf(data) == {p[2] : p \in data}

\* A complete run holds what its data give.
Finished(x, c) ==
    x # None /\ x.status = "complete" /\ c # None => x.results = Expected(c)

\* An answer is a complete run, and one that was given again has the same data.
Answered(r) ==
    LET a == request[r].answer IN
    a # None =>
        /\ request[r].step = "done" /\ run[a] # None /\ run[a].status = "complete"
        /\ a # r /\ clean[r] # None /\ clean[a] # None => clean[r] = clean[a]

\* The fingerprint of a request, which its run keeps.
Printed(q, x) == q.step \in {"lookup", "create"} \/ x # None
KeptPrint(q, x) == IF q.step \in {"lookup", "create"} THEN q.print ELSE x.print

Rows(data) == {o \in Obs : \E g \in Group : <<o, g>> \in data}

\* The data a fingerprint was taken of, seen from a later state that no write disturbed.
Snapshot(data, print) ==
    /\ \A o \in Rows(data) : obs[o] # None
    /\ data = {<<o, GroupOf(o)>> : o \in Rows(data)}
    /\ print.count = Cardinality(Rows(data))
    /\ \A o \in ValidObs : obs[o].stamp <= print.max => o \in Rows(data)
    /\ print.max = 0 \/ \E o \in Obs : obs[o] # None /\ obs[o].stamp >= print.max

Snapped(q, x, c) == Printed(q, x) /\ c # None => Snapshot(c, KeptPrint(q, x))

Sound(r) ==
    /\ Kept(request[r], run[r])
    /\ Progressing(request[r], clean[r])
    /\ Finished(run[r], clean[r])
    /\ Snapped(request[r], run[r], clean[r])
    /\ Answered(r)

HasPrint(r) == Printed(request[r], run[r]) /\ clean[r] # None
PrintOf(r) == KeptPrint(request[r], run[r])

SamePrint ==
    \A x, y \in Requests :
        HasPrint(x) /\ HasPrint(y) /\ PrintOf(x) = PrintOf(y) => clean[x] = clean[y]

AnalysisInv == AnalysisTypeOK /\ StampsInv /\ SamePrint /\ \A r \in Requests : Sound(r)

-----------------------------------------------------------------------------
(* The greatest of some naturals *)

LEMMA HasLeast ==
    ASSUME NEW T \in SUBSET Nat, T # {} PROVE \E x \in T : \A y \in T : x <= y
<1> DEFINE less == OpToRel(<, Nat)
<1>1. IsWellFoundedOn(less, Nat)
    BY NatLessThanWellFounded
<1>2. \A x, y \in Nat : <<x, y>> \in less <=> x < y
    BY DEF OpToRel
<1> HIDE DEF less
<1>3. PICK x \in T : \A y \in T : ~(<<y, x>> \in less)
    BY <1>1, WFMin
<1>4. ASSUME NEW y \in T PROVE x <= y
    <2>1. ~(<<y, x>> \in less) /\ x \in Nat /\ y \in Nat
        BY <1>3
    <2>2. ~(y < x)
        BY <1>2, <2>1
    <2>3. QED
        BY <2>1, <2>2
<1>5. QED
    BY <1>4

\* Max gives the greatest element of a set that has a bound.
LEMMA MaxGreatest ==
    ASSUME NEW m \in Nat, NEW T \in SUBSET (0 .. m), T # {}
    PROVE  Max(T) \in T /\ \A y \in T : Max(T) >= y
<1> DEFINE gaps == {n \in Nat : \E t \in T : n = m - t}
<1>1. gaps \in SUBSET Nat /\ gaps # {}
    <2>1. PICK t \in T : TRUE
        OBVIOUS
    <2>2. m - t \in gaps
        BY <2>1
    <2>3. QED
        BY <2>2
<1>2. PICK g \in gaps : \A h \in gaps : g <= h
    <2> HIDE DEF gaps
    <2>1. QED
        BY <1>1, HasLeast
<1>3. PICK t \in T : g = m - t
    BY <1>2
<1>4. \A y \in T : t >= y
    <2> SUFFICES ASSUME NEW y \in T PROVE t >= y
        OBVIOUS
    <2>1. m - y \in gaps
        OBVIOUS
    <2>2. QED
        BY <1>2, <1>3, <2>1
<1>5. QED
    BY <1>4 DEF Max

-----------------------------------------------------------------------------
(* What is read of the rows *)

LEMMA RowsTyped ==
    ASSUME AnalysisTypeOK, NEW o \in Obs, obs[o] # None
    PROVE  /\ obs[o] \in Row /\ obs[o].state \in {"valid", "excluded"}
           /\ obs[o].stamp \in 1 .. MaxClock /\ obs[o].stamp \in Nat
           /\ GroupOf(o) \in Group
BY AnalysisAssumption DEF AnalysisTypeOK, Row, GroupOf, Group

LEMMA InputTyped ==
    ASSUME AnalysisTypeOK
    PROVE  /\ Input \in Data /\ Rows(Input) = ValidObs /\ GroupsOf(Input) = Groups
           /\ Groups \subseteq Group /\ IsFiniteSet(ValidObs) /\ IsFiniteSet(Groups)
<1>1. \A o \in ValidObs : o \in Obs /\ GroupOf(o) \in Group
    BY RowsTyped DEF ValidObs
<1>2. /\ Input \in Data /\ Rows(Input) = ValidObs /\ GroupsOf(Input) = Groups
      /\ Groups \subseteq Group
    <2> DEFINE of == [o \in ValidObs |-> GroupOf(o)]
    <2>1. /\ Input = {<<o, of[o]>> : o \in ValidObs} /\ Groups = {of[o] : o \in ValidObs}
          /\ of \in [ValidObs -> Group] /\ ValidObs \subseteq Obs
        BY <1>1 DEF Input, Groups
    <2> HIDE DEF of
    <2>2. Input \in Data
        BY <2>1 DEF Data
    <2>3. Rows(Input) = ValidObs
        BY <2>1 DEF Rows
    <2>4. GroupsOf(Input) = Groups
        <3>1. ASSUME NEW g \in Groups PROVE g \in GroupsOf(Input)
            <4>1. PICK o \in ValidObs : g = of[o]
                BY <2>1
            <4>2. <<o, g>> \in Input /\ <<o, g>>[2] = g
                BY <2>1, <4>1
            <4>3. QED
                BY <4>2 DEF GroupsOf
        <3>2. ASSUME NEW g \in GroupsOf(Input) PROVE g \in Groups
            <4>1. PICK o \in ValidObs : g = <<o, of[o]>>[2]
                BY <2>1 DEF GroupsOf
            <4>2. QED
                BY <2>1, <4>1
        <3>3. QED
            BY <3>1, <3>2
    <2>5. QED
        BY <2>1, <2>2, <2>3, <2>4
<1>3. IsFiniteSet(ValidObs)
    BY FS_Subset, AnalysisAssumption DEF ValidObs
<1>4. IsFiniteSet(Groups)
    <2> DEFINE of == [o \in ValidObs |-> GroupOf(o)]
    <2>1. of \in Surjection(ValidObs, Groups)
        BY DEF Groups, Surjection
    <2>2. QED
        BY <1>3, <2>1, FS_Surjection
<1>5. QED
    BY <1>2, <1>3, <1>4

\* A fingerprint is a count and the newest of the valid rows.
LEMMA FingerprintReads ==
    ASSUME AnalysisTypeOK
    PROVE  /\ InputFingerprint \in Fingerprint
           /\ InputFingerprint.count = Cardinality(ValidObs)
           /\ \A o \in ValidObs : obs[o].stamp <= InputFingerprint.max
           /\ \/ InputFingerprint.max = 0
              \/ \E o \in ValidObs : obs[o].stamp = InputFingerprint.max
<1> DEFINE stamps == {obs[o].stamp : o \in ValidObs} \cup {0}
<1>1. \A o \in ValidObs : obs[o].stamp \in 1 .. MaxClock
    BY RowsTyped DEF ValidObs
<1>2. stamps \in SUBSET (0 .. MaxClock) /\ stamps # {}
    BY <1>1, AnalysisAssumption
<1>3. Max(stamps) \in stamps /\ \A t \in stamps : Max(stamps) >= t
    <2> HIDE DEF stamps
    <2>1. QED
        BY <1>2, MaxGreatest, AnalysisAssumption
<1>4. Cardinality(ValidObs) \in 0 .. Cardinality(Obs)
    <2>1. ValidObs \in SUBSET Obs /\ IsFiniteSet(ValidObs)
        BY InputTyped DEF ValidObs
    <2>2. QED
        BY <2>1, FS_Subset, FS_CardinalityType, AnalysisAssumption
<1>5. InputFingerprint.count = Cardinality(ValidObs) /\ InputFingerprint.max = Max(stamps)
    BY DEF InputFingerprint
<1>6. InputFingerprint \in Fingerprint
    <2>1. Max(stamps) \in 0 .. MaxClock
        BY <1>2, <1>3
    <2>2. InputFingerprint = [count |-> Cardinality(ValidObs), max |-> Max(stamps)]
        BY DEF InputFingerprint
    <2> HIDE DEF stamps
    <2>3. QED
        BY <1>4, <2>1, <2>2 DEF Fingerprint
<1>7. \A o \in ValidObs : obs[o].stamp <= Max(stamps)
    <2>1. \A o \in ValidObs : obs[o].stamp \in stamps
        OBVIOUS
    <2>2. Max(stamps) \in Nat
        BY <1>2, <1>3
    <2> HIDE DEF stamps
    <2>3. QED
        BY <1>1, <1>3, <2>1, <2>2
<1>8. Max(stamps) = 0 \/ \E o \in ValidObs : obs[o].stamp = Max(stamps)
    BY <1>3
<1> HIDE DEF stamps
<1>9. QED
    BY <1>5, <1>6, <1>7, <1>8

LEMMA TakenNow == ASSUME AnalysisTypeOK PROVE Snapshot(Input, InputFingerprint)
<1>1. Rows(Input) = ValidObs
    BY InputTyped
<1>2. \A o \in ValidObs : o \in Obs /\ obs[o] # None
    BY DEF ValidObs
<1>3. \/ InputFingerprint.max = 0
      \/ \E o \in Obs : obs[o] # None /\ obs[o].stamp >= InputFingerprint.max
    <2>1. CASE InputFingerprint.max = 0
        BY <2>1
    <2>2. CASE InputFingerprint.max # 0
        <3>1. PICK o \in ValidObs : obs[o].stamp = InputFingerprint.max
            BY <2>2, FingerprintReads
        <3>2. obs[o].stamp \in Nat
            BY <1>2, RowsTyped
        <3>3. QED
            BY <1>2, <3>1, <3>2
    <2>3. QED
        BY <2>1, <2>2
<1>4. QED
    BY <1>1, <1>2, <1>3, FingerprintReads DEF Snapshot, Input

\* A count and a maximum are enough: what has the fingerprint of a snapshot is the snapshot.
LEMMA SameFingerprint ==
    ASSUME AnalysisTypeOK, NEW data, Snapshot(data, InputFingerprint)
    PROVE  data = Input
<1>1. ValidObs \subseteq Rows(data)
    BY FingerprintReads DEF Snapshot
<1>2. IsFiniteSet(Rows(data)) /\ Cardinality(Rows(data)) = Cardinality(ValidObs)
    BY FS_Subset, AnalysisAssumption, FingerprintReads DEF Snapshot, Rows
<1>3. Rows(data) = ValidObs
    BY <1>1, <1>2, FS_Subset
<1>4. QED
    BY <1>3 DEF Snapshot, Input

\* What an analysis of the rows of this moment finds.
LEMMA ExpectedNow == ASSUME AnalysisTypeOK PROVE Expected(Input) = FoundIn(Groups)
<1>1. ASSUME NEW g PROVE Members(g, Input) = InGroup(g)
    <2>1. ASSUME NEW o \in Members(g, Input) PROVE o \in InGroup(g)
        <3>1. PICK p \in ValidObs : <<o, g>> = <<p, GroupOf(p)>>
            BY <2>1 DEF Input, Members
        <3>2. QED
            BY <3>1 DEF InGroup
    <2>2. ASSUME NEW o \in InGroup(g) PROVE o \in Members(g, Input)
        BY DEF InGroup, ValidObs, Input, Members
    <2>3. QED
        BY <2>1, <2>2
<1>2. {p[2] : p \in Input} = Groups
    BY InputTyped DEF GroupsOf
<1>3. {h \in {p[2] : p \in Input} : Floor(h) # None} = {h \in Groups : Floor(h) # None}
    BY <1>2
<1>4. \A m, g : [metric |-> m, group |-> g, floor |-> Floor(g), rows |-> Members(g, Input)]
                 = Found(m, g)
    BY <1>1 DEF Found
<1>5. QED
    BY <1>3, <1>4 DEF Expected, FoundIn

-----------------------------------------------------------------------------
(* The steps of requests *)

QueryStep(r) ==
    \/ BuildLuckyGroups(r) \/ BuildNormalGroups(r)
    \/ CountLucky(r) \/ CountNormal(r) \/ CountRulesets(r)
    \/ GroupFloor(r) \/ ResolveFloor(r) \/ ReadParameters(r)
    \/ CountHundos(r) \/ CountRows(r) \/ ReadStats(r) \/ ReadSums(r) \/ StoreResults(r)

RequestStep(r) ==
    \/ TakeFingerprint(r) \/ Lookup(r) \/ CreateRun(r) \/ QueryStep(r)
    \/ CompleteRun(r) \/ FailRun(r) \/ Crash(r)

\* What a query makes of the request's record q: it gathers groups and flags, ...
Gathers(q, n) ==
    /\ n.results = q.results
    /\ \/ /\ q.step = "lucky_groups" /\ n.step = "normal_groups"
          /\ n.groups = {g \in Groups : IsLucky(g)}
       \/ /\ q.step = "normal_groups" /\ n.step = "count_lucky"
          /\ n.groups = q.groups \cup {g \in Groups : ~IsLucky(g)}
       \/ /\ q.step = "count_lucky" /\ n.step = "count_normal" /\ n.groups = q.groups
          /\ q.flags \subseteq n.flags /\ ((\E g \in Groups : IsLucky(g)) => "lucky" \in n.flags)
       \/ /\ q.step = "count_normal" /\ n.step = "count_rulesets" /\ n.groups = q.groups
          /\ q.flags \subseteq n.flags /\ ((\E g \in Groups : ~IsLucky(g)) => "normal" \in n.flags)
       \/ /\ q.step = "count_rulesets" /\ n.step = "floor" /\ n.groups = q.groups
          /\ q.flags \subseteq n.flags /\ (MixedRulesets => "rulesets" \in n.flags)

\* ... takes the next group or stores the results, ...
Takes(q, n) ==
    /\ q.step = "floor" /\ n.results = q.results /\ n.flags = q.flags
    /\ \/ \E g \in q.groups :
             /\ n.groups = q.groups \ {g} /\ n.group = g
             /\ \/ g.ruleset \in rulesets /\ n.step = "parameters" /\ n.floor = g.ruleset
                \/ g.ruleset \notin rulesets /\ n.step = "resolve"
       \/ q.groups = {} /\ n.groups = {} /\ n.step = "commit"

\* ... leaves a group, goes on with it ...
Drops(q, n) ==
    /\ n.groups = q.groups /\ n.results = q.results /\ n.flags = q.flags /\ n.step = "floor"
    /\ \/ q.step = "resolve" /\ current = None
       \/ q.step = "count" /\ InGroup(q.group) = {}

Continues(q, n) ==
    /\ n.groups = q.groups /\ n.results = q.results /\ n.flags = q.flags /\ n.group = q.group
    /\ \/ /\ q.step = "resolve" /\ n.step = "parameters" /\ current # None /\ n.floor = current
       \/ /\ q.step = "parameters" /\ n.step = "hundo"
          /\ n.floor = IF q.floor \in rulesets THEN q.floor ELSE Default
       \/ q.step = "count" /\ n.step = "stats" /\ n.floor = q.floor

\* ... or adds one of its results.
Adds(q, n, m) ==
    /\ n.groups = q.groups /\ n.flags = q.flags /\ n.results = q.results \cup {Finds(q, m)}
    /\ \/ /\ q.step = "hundo" /\ n.step = "count" /\ m = "hundo_rate"
          /\ n.group = q.group /\ n.floor = q.floor
       \/ /\ q.step = "stats" /\ n.step = "sums" /\ m = "stat_uniformity"
          /\ n.group = q.group /\ n.floor = q.floor
       \/ q.step = "sums" /\ n.step = "floor" /\ m = "sum_uniformity"

Moves(q, n) ==
    /\ n \in Request /\ n.print = q.print /\ n.answer = q.answer
    /\ \/ Gathers(q, n) \/ Takes(q, n) \/ Drops(q, n) \/ Continues(q, n)
       \/ \E m \in Metrics : Adds(q, n, m)

LEMMA GatherMoves ==
    ASSUME AnalysisTypeOK, NEW r \in Requests,
           \/ BuildLuckyGroups(r) \/ BuildNormalGroups(r)
           \/ CountLucky(r) \/ CountNormal(r) \/ CountRulesets(r)
    PROVE  Queries /\ \E n : Moves(request[r], n) /\ request' = [request EXCEPT ![r] = n]
<1>1. /\ request[r] \in Request /\ Groups \subseteq Group
    BY InputTyped DEF AnalysisTypeOK
<1>2. PICK q : q = request[r]
    OBVIOUS
<1>3. ASSUME BuildLuckyGroups(r)
      PROVE  Queries /\ \E n : Moves(q, n) /\ request' = [request EXCEPT ![r] = n]
    <2> DEFINE n == [q EXCEPT !.step = "normal_groups", !.groups = {g \in Groups : IsLucky(g)}]
    <2>1. request' = [request EXCEPT ![r] = n] /\ Queries /\ q.step = "lucky_groups"
        BY <1>2, <1>3 DEF BuildLuckyGroups, Is
    <2>2. /\ n \in Request /\ n.print = q.print /\ n.answer = q.answer /\ n.results = q.results
          /\ n.step = "normal_groups" /\ n.groups = {g \in Groups : IsLucky(g)}
        BY <1>1, <1>2 DEF Request, Computing, Flagging
    <2> HIDE DEF n
    <2>3. QED
        BY <2>1, <2>2 DEF Moves, Gathers
<1>4. ASSUME BuildNormalGroups(r)
      PROVE  Queries /\ \E n : Moves(q, n) /\ request' = [request EXCEPT ![r] = n]
    <2> DEFINE all == q.groups \cup {g \in Groups : ~IsLucky(g)}
               n == [q EXCEPT !.step = "count_lucky", !.groups = all]
    <2>1. request' = [request EXCEPT ![r] = n] /\ Queries /\ q.step = "normal_groups"
        BY <1>1, <1>2, <1>4 DEF BuildNormalGroups, Is, Request
    <2>2. /\ n \in Request /\ n.print = q.print /\ n.answer = q.answer /\ n.results = q.results
          /\ n.step = "count_lucky" /\ n.groups = q.groups \cup {g \in Groups : ~IsLucky(g)}
        BY <1>1, <1>2 DEF Request, Computing, Flagging
    <2> HIDE DEF n
    <2>3. QED
        BY <2>1, <2>2 DEF Moves, Gathers
<1>5. ASSUME NEW flag \in Flags, NEW holds \in BOOLEAN,
             NEW next \in {"count_normal", "count_rulesets", "floor"}, Counts(r, flag, holds, next)
      PROVE  /\ Queries
             /\ \E n \in Request :
                    /\ request' = [request EXCEPT ![r] = n] /\ n.step = next
                    /\ n.print = q.print /\ n.answer = q.answer /\ n.results = q.results
                    /\ n.groups = q.groups /\ q.flags \subseteq n.flags
                    /\ holds => flag \in n.flags
    <2>1. PICK flags : flags = q.flags \cup (IF holds THEN {flag} ELSE {})
        OBVIOUS
    <2> DEFINE n == [q EXCEPT !.step = next, !.flags = flags]
    <2>2. request' = [request EXCEPT ![r] = n] /\ Queries
        BY <1>1, <1>2, <1>5, <2>1 DEF Counts, Request
    <2>3. flags \subseteq Flags
        BY <1>1, <1>2, <2>1 DEF Request
    <2>4. /\ n \in Request /\ n.print = q.print /\ n.answer = q.answer /\ n.results = q.results
          /\ n.step = next /\ n.groups = q.groups /\ n.flags = flags
        BY <1>1, <1>2, <2>3 DEF Request, Computing, Flagging
    <2> HIDE DEF n
    <2>5. QED
        BY <2>1, <2>2, <2>4
<1>6. ASSUME CountLucky(r)
      PROVE  Queries /\ \E n : Moves(q, n) /\ request' = [request EXCEPT ![r] = n]
    <2>1. PICK holds \in BOOLEAN : holds <=> \E g \in Groups : IsLucky(g)
        OBVIOUS
    <2>2. q.step = "count_lucky" /\ Counts(r, "lucky", holds, "count_normal")
        BY <1>2, <1>6, <2>1 DEF CountLucky, Is, Counts
    <2>3. QED
        BY <1>5, <2>1, <2>2 DEF Moves, Gathers, Flags
<1>7. ASSUME CountNormal(r)
      PROVE  Queries /\ \E n : Moves(q, n) /\ request' = [request EXCEPT ![r] = n]
    <2>1. PICK holds \in BOOLEAN : holds <=> \E g \in Groups : ~IsLucky(g)
        OBVIOUS
    <2>2. q.step = "count_normal" /\ Counts(r, "normal", holds, "count_rulesets")
        BY <1>2, <1>7, <2>1 DEF CountNormal, Is, Counts
    <2>3. QED
        BY <1>5, <2>1, <2>2 DEF Moves, Gathers, Flags
<1>8. ASSUME CountRulesets(r)
      PROVE  Queries /\ \E n : Moves(q, n) /\ request' = [request EXCEPT ![r] = n]
    <2>1. PICK holds \in BOOLEAN : holds <=> MixedRulesets
        OBVIOUS
    <2>2. q.step = "count_rulesets" /\ Counts(r, "rulesets", holds, "floor")
        BY <1>2, <1>8, <2>1 DEF CountRulesets, Is, Counts
    <2>3. QED
        BY <1>5, <2>1, <2>2 DEF Moves, Gathers, Flags
<1>9. QED
    BY <1>2, <1>3, <1>4, <1>6, <1>7, <1>8

LEMMA LeavesAre ==
    ASSUME AnalysisTypeOK, NEW r \in Requests
    PROVE  /\ Leaves(r) \in Request /\ Leaves(r).step = "floor"
           /\ Leaves(r).print = request[r].print /\ Leaves(r).answer = request[r].answer
           /\ Leaves(r).groups = request[r].groups /\ Leaves(r).results = request[r].results
           /\ Leaves(r).flags = request[r].flags
<1>1. request[r] \in Request
    BY DEF AnalysisTypeOK
<1>2. QED
    BY <1>1 DEF Leaves, Request, Computing

LEMMA FloorMoves ==
    ASSUME AnalysisTypeOK, NEW r \in Requests,
           \/ GroupFloor(r) \/ ResolveFloor(r) \/ ReadParameters(r) \/ CountRows(r)
           \/ StoreResults(r)
    PROVE  Queries /\ \E n : Moves(request[r], n) /\ request' = [request EXCEPT ![r] = n]
<1>1. /\ request[r] \in Request /\ rulesets \subseteq Rulesets
      /\ current \in Rulesets \cup {None}
    BY DEF AnalysisTypeOK
<1>2. PICK q : q = request[r]
    OBVIOUS
<1>3. ASSUME GroupFloor(r)
      PROVE  Queries /\ \E n : Moves(q, n) /\ request' = [request EXCEPT ![r] = n]
    <2>1. /\ Queries /\ q.step = "floor"
          /\ \E g \in q.groups : request' = [request EXCEPT ![r] =
                 [q EXCEPT !.groups = q.groups \ {g}, !.group = g,
                           !.floor = IF g.ruleset \in rulesets THEN g.ruleset ELSE None,
                           !.step = IF g.ruleset \in rulesets THEN "parameters" ELSE "resolve"]]
        BY <1>1, <1>2, <1>3 DEF GroupFloor, Is, Request
    <2>2. PICK g \in q.groups : request' = [request EXCEPT ![r] =
                 [q EXCEPT !.groups = q.groups \ {g}, !.group = g,
                           !.floor = IF g.ruleset \in rulesets THEN g.ruleset ELSE None,
                           !.step = IF g.ruleset \in rulesets THEN "parameters" ELSE "resolve"]]
        BY <2>1
    <2>3. PICK floor, step :
              /\ floor = IF g.ruleset \in rulesets THEN g.ruleset ELSE None
              /\ step = IF g.ruleset \in rulesets THEN "parameters" ELSE "resolve"
        OBVIOUS
    <2> DEFINE n == [q EXCEPT !.groups = q.groups \ {g}, !.group = g, !.floor = floor,
                              !.step = step]
    <2>4. request' = [request EXCEPT ![r] = n]
        BY <2>2, <2>3
    <2>5. /\ floor \in Rulesets \cup {Default, None} /\ step \in Grouping
          /\ q.groups \subseteq Group /\ g \in Group
        BY <1>1, <1>2, <2>3 DEF Request, Grouping
    <2>6. /\ n \in Request /\ n.print = q.print /\ n.answer = q.answer /\ n.results = q.results
          /\ n.flags = q.flags /\ n.groups = q.groups \ {g} /\ n.group = g /\ n.floor = floor
          /\ n.step = step
        BY <1>1, <1>2, <2>5 DEF Request, Computing
    <2> HIDE DEF n
    <2>7. Takes(q, n)
        BY <2>1, <2>3, <2>6 DEF Takes
    <2>8. QED
        BY <2>1, <2>4, <2>6, <2>7 DEF Moves
<1>4. ASSUME ResolveFloor(r)
      PROVE  Queries /\ \E n : Moves(q, n) /\ request' = [request EXCEPT ![r] = n]
    <2>1. Queries /\ q.step = "resolve"
        BY <1>2, <1>4 DEF ResolveFloor, Is
    <2>2. CASE current = None
        <3>1. request' = [request EXCEPT ![r] = Leaves(r)]
            BY <1>4, <2>2 DEF ResolveFloor
        <3>2. Moves(q, Leaves(r))
            BY <1>2, <2>1, <2>2, LeavesAre DEF Moves, Drops
        <3>3. QED
            BY <2>1, <3>1, <3>2
    <2>3. CASE current # None
        <3> DEFINE n == [q EXCEPT !.step = "parameters", !.floor = current]
        <3>1. request' = [request EXCEPT ![r] = n]
            BY <1>2, <1>4, <2>3 DEF ResolveFloor
        <3>2. /\ n \in Request /\ n.print = q.print /\ n.answer = q.answer
              /\ n.results = q.results /\ n.flags = q.flags /\ n.groups = q.groups
              /\ n.group = q.group /\ n.floor = current /\ n.step = "parameters"
            BY <1>1, <1>2 DEF Request, Computing, Grouping
        <3> HIDE DEF n
        <3>3. Moves(q, n)
            BY <2>1, <2>3, <3>2 DEF Moves, Continues
        <3>4. QED
            BY <2>1, <3>1, <3>3
    <2>4. QED
        BY <2>2, <2>3
<1>5. ASSUME ReadParameters(r)
      PROVE  Queries /\ \E n : Moves(q, n) /\ request' = [request EXCEPT ![r] = n]
    <2>1. PICK floor : floor = IF q.floor \in rulesets THEN q.floor ELSE Default
        OBVIOUS
    <2> DEFINE n == [q EXCEPT !.step = "hundo", !.floor = floor]
    <2>2. request' = [request EXCEPT ![r] = n] /\ Queries /\ q.step = "parameters"
        BY <1>1, <1>2, <1>5, <2>1 DEF ReadParameters, Is, Request
    <2>3. floor \in Rulesets \cup {Default}
        BY <1>1, <2>1
    <2>4. /\ n \in Request /\ n.print = q.print /\ n.answer = q.answer /\ n.results = q.results
          /\ n.flags = q.flags /\ n.groups = q.groups /\ n.group = q.group /\ n.floor = floor
          /\ n.step = "hundo"
        BY <1>1, <1>2, <2>3 DEF Request, Computing, Grouping
    <2> HIDE DEF n
    <2>5. Moves(q, n)
        BY <2>1, <2>2, <2>4 DEF Moves, Continues
    <2>6. QED
        BY <2>2, <2>5
<1>6. ASSUME CountRows(r)
      PROVE  Queries /\ \E n : Moves(q, n) /\ request' = [request EXCEPT ![r] = n]
    <2>1. Queries /\ q.step = "count"
        BY <1>2, <1>6 DEF CountRows, Is
    <2>2. CASE InGroup(q.group) = {}
        <3>1. request' = [request EXCEPT ![r] = Leaves(r)]
            BY <1>2, <1>6, <2>2 DEF CountRows
        <3>2. Moves(q, Leaves(r))
            BY <1>2, <2>1, <2>2, LeavesAre DEF Moves, Drops
        <3>3. QED
            BY <2>1, <3>1, <3>2
    <2>3. CASE InGroup(q.group) # {}
        <3> DEFINE n == [q EXCEPT !.step = "stats"]
        <3>1. request' = [request EXCEPT ![r] = n]
            BY <1>2, <1>6, <2>3 DEF CountRows
        <3>2. /\ n \in Request /\ n.print = q.print /\ n.answer = q.answer
              /\ n.results = q.results /\ n.flags = q.flags /\ n.groups = q.groups
              /\ n.group = q.group /\ n.floor = q.floor /\ n.step = "stats"
            BY <1>1, <1>2 DEF Request, Computing, Grouping
        <3> HIDE DEF n
        <3>3. Moves(q, n)
            BY <2>1, <3>2 DEF Moves, Continues
        <3>4. QED
            BY <2>1, <3>1, <3>3
    <2>4. QED
        BY <2>2, <2>3
<1>7. ASSUME StoreResults(r)
      PROVE  Queries /\ \E n : Moves(q, n) /\ request' = [request EXCEPT ![r] = n]
    <2> DEFINE n == [q EXCEPT !.step = "commit"]
    <2>1. /\ request' = [request EXCEPT ![r] = n] /\ Queries /\ q.step = "floor"
          /\ q.groups = {}
        BY <1>1, <1>2, <1>7 DEF StoreResults, Is, Goes
    <2>2. /\ n \in Request /\ n.print = q.print /\ n.answer = q.answer /\ n.results = q.results
          /\ n.flags = q.flags /\ n.groups = {} /\ n.step = "commit"
        BY <1>1, <1>2, <2>1 DEF Request, Computing
    <2> HIDE DEF n
    <2>3. Moves(q, n)
        BY <2>1, <2>2 DEF Moves, Takes
    <2>4. QED
        BY <2>1, <2>3
<1>8. QED
    BY <1>2, <1>3, <1>4, <1>5, <1>6, <1>7

LEMMA AddMoves ==
    ASSUME AnalysisTypeOK, NEW r \in Requests, Kept(request[r], run[r]),
           CountHundos(r) \/ ReadStats(r) \/ ReadSums(r)
    PROVE  Queries /\ \E n : Moves(request[r], n) /\ request' = [request EXCEPT ![r] = n]
<1>1. request[r] \in Request
    BY DEF AnalysisTypeOK
<1>2. PICK q : q = request[r]
    OBVIOUS
<1>3. /\ Queries /\ q.step \in {"hundo", "stats", "sums"}
      /\ q.group \in Group /\ q.floor \in Rulesets \cup {Default}
    BY <1>2 DEF CountHundos, ReadStats, ReadSums, Is, Kept, Grouping
<1>4. ASSUME NEW m \in Metrics PROVE q.results \cup {Finds(q, m)} \subseteq Result
    <2>1. InGroup(q.group) \subseteq Obs
        BY DEF InGroup, ValidObs
    <2>2. Finds(q, m) \in Result
        BY <1>3, <2>1 DEF Finds, Result
    <2>3. QED
        BY <1>1, <1>2, <2>2 DEF Request
<1>5. ASSUME CountHundos(r)
      PROVE  \E n : Moves(q, n) /\ request' = [request EXCEPT ![r] = n]
    <2>1. PICK n, results :
              /\ results = q.results \cup {Finds(q, "hundo_rate")}
              /\ n = [q EXCEPT !.step = "count", !.results = results]
        OBVIOUS
    <2>2. request' = [request EXCEPT ![r] = n] /\ q.step = "hundo"
        BY <1>1, <1>2, <1>5, <2>1 DEF CountHundos, Is, Request
    <2>3. "hundo_rate" \in Metrics /\ "count" \in Computing
        BY DEF Metrics, Computing, Grouping
    <2>4. results \subseteq Result
        BY <1>4, <2>1, <2>3
    <2>5. /\ n \in Request /\ n.print = q.print /\ n.answer = q.answer /\ n.flags = q.flags
          /\ n.groups = q.groups /\ n.group = q.group /\ n.floor = q.floor /\ n.step = "count"
          /\ n.results = results
        BY <1>1, <1>2, <2>1, <2>3, <2>4 DEF Request
    <2>6. Adds(q, n, "hundo_rate")
        BY <2>1, <2>2, <2>5 DEF Adds
    <2>7. QED
        BY <2>2, <2>3, <2>5, <2>6 DEF Moves
<1>6. ASSUME ReadStats(r)
      PROVE  \E n : Moves(q, n) /\ request' = [request EXCEPT ![r] = n]
    <2>1. PICK n, results :
              /\ results = q.results \cup {Finds(q, "stat_uniformity")}
              /\ n = [q EXCEPT !.step = "sums", !.results = results]
        OBVIOUS
    <2>2. request' = [request EXCEPT ![r] = n] /\ q.step = "stats"
        BY <1>1, <1>2, <1>6, <2>1 DEF ReadStats, Is, Request
    <2>3. "stat_uniformity" \in Metrics /\ "sums" \in Computing
        BY DEF Metrics, Computing, Grouping
    <2>4. results \subseteq Result
        BY <1>4, <2>1, <2>3
    <2>5. /\ n \in Request /\ n.print = q.print /\ n.answer = q.answer /\ n.flags = q.flags
          /\ n.groups = q.groups /\ n.group = q.group /\ n.floor = q.floor /\ n.step = "sums"
          /\ n.results = results
        BY <1>1, <1>2, <2>1, <2>3, <2>4 DEF Request
    <2>6. Adds(q, n, "stat_uniformity")
        BY <2>1, <2>2, <2>5 DEF Adds
    <2>7. QED
        BY <2>2, <2>3, <2>5, <2>6 DEF Moves
<1>7. ASSUME ReadSums(r)
      PROVE  \E n : Moves(q, n) /\ request' = [request EXCEPT ![r] = n]
    <2>1. PICK n, results :
              /\ results = q.results \cup {Finds(q, "sum_uniformity")}
              /\ n = [Leaves(r) EXCEPT !.results = results]
        OBVIOUS
    <2>2. Leaves(r).results = q.results
        BY <1>2, LeavesAre
    <2>3. request' = [request EXCEPT ![r] = n] /\ q.step = "sums"
        BY <1>2, <1>7, <2>1, <2>2 DEF ReadSums, Is
    <2>4. "sum_uniformity" \in Metrics
        BY DEF Metrics
    <2>5. results \subseteq Result
        BY <1>4, <2>1, <2>4
    <2>6. /\ n \in Request /\ n.print = q.print /\ n.answer = q.answer /\ n.flags = q.flags
          /\ n.groups = q.groups /\ n.step = "floor" /\ n.results = results
        <3>1. PICK left : left = Leaves(r)
            OBVIOUS
        <3>2. n = [left EXCEPT !.results = results] /\ left \in Request
            BY <2>1, <3>1, LeavesAre
        <3>3. /\ n \in Request /\ n.print = left.print /\ n.answer = left.answer
              /\ n.flags = left.flags /\ n.groups = left.groups /\ n.step = left.step
              /\ n.results = results
            BY <2>5, <3>2 DEF Request
        <3>4. QED
            BY <1>2, <3>1, <3>3, LeavesAre
    <2>7. Adds(q, n, "sum_uniformity")
        BY <2>1, <2>3, <2>6 DEF Adds
    <2>8. QED
        BY <2>3, <2>4, <2>6, <2>7 DEF Moves
<1>8. QED
    BY <1>2, <1>3, <1>5, <1>6, <1>7

LEMMA QueryMoves ==
    ASSUME AnalysisTypeOK, NEW r \in Requests, Kept(request[r], run[r]), QueryStep(r)
    PROVE  Queries /\ \E n : Moves(request[r], n) /\ request' = [request EXCEPT ![r] = n]
BY GatherMoves, FloorMoves, AddMoves DEF QueryStep

\* While the data stand, what is said of them stands.
LEMMA DataStand ==
    ASSUME UNCHANGED <<obs, rulesets, current>>, NEW q, NEW x, NEW c
    PROVE  /\ Progressing(q, c)' <=> Progressing(q, c)
           /\ Finished(x, c)' <=> Finished(x, c)
           /\ Snapped(q, x, c)' <=> Snapped(q, x, c)
<1>1. obs' = obs /\ rulesets' = rulesets /\ current' = current
    OBVIOUS
<1>2. Progressing(q, c)' <=> Progressing(q, c)
    BY <1>1 DEF Progressing, Input, Groups, ValidObs, GroupOf, FoundIn, FoundOf, Found, Floor,
       InGroup
<1>3. Finished(x, c)' <=> Finished(x, c)
    BY <1>1 DEF Finished, Expected, Floor
<1>4. Snapped(q, x, c)' <=> Snapped(q, x, c)
    BY <1>1 DEF Snapped, Printed, KeptPrint, Snapshot, Rows, ValidObs, GroupOf
<1>5. QED
    BY <1>2, <1>3, <1>4

\* So a step of a request leaves it sound when the new records are.
LEMMA OwnSound ==
    ASSUME UNCHANGED <<obs, rulesets, current>>, NEW r \in Requests, NEW q, NEW x, NEW c,
           request'[r] = q, run'[r] = x, clean'[r] = c,
           Kept(q, x), Progressing(q, c), Finished(x, c), Snapped(q, x, c), Answered(r)'
    PROVE  Sound(r)'
<1>1. Progressing(q, c)' /\ Finished(x, c)' /\ Snapped(q, x, c)' /\ Kept(q, x)'
    BY DataStand DEF Kept
<1>2. QED
    BY <1>1 DEF Sound, Kept, Progressing, Finished, Snapped

\* A request whose own records stand stays sound: the run it was given stays, and is not
\* given other data.
LEMMA Unmoved ==
    ASSUME AnalysisTypeOK, NEW q \in Requests, Sound(q), UNCHANGED <<obs, rulesets, current>>,
           request'[q] = request[q], run'[q] = run[q], clean'[q] = clean[q],
           \A a \in Requests : run[a] # None /\ run[a].status = "complete" =>
               /\ run'[a] # None /\ run'[a].status = "complete"
               /\ clean'[a] \in {clean[a], None}
    PROVE  Sound(q)'
<1>1. PICK n, x, c : n = request[q] /\ x = run[q] /\ c = clean[q]
    OBVIOUS
<1>2. Kept(n, x) /\ Progressing(n, c) /\ Finished(x, c) /\ Snapped(n, x, c)
    BY <1>1 DEF Sound
<1>3. request[q].answer \in Requests \cup {None}
    BY DEF AnalysisTypeOK, Request
<1>4. Answered(q)'
    BY <1>3 DEF Sound, Answered
<1>5. QED
    BY <1>1, <1>2, <1>4, OwnSound

\* A request touches its own records only, and not the rows and rulesets.
LEMMA RequestFrame ==
    ASSUME AnalysisTypeOK, NEW r \in Requests, Sound(r), RequestStep(r)
    PROVE  /\ DataUnchanged /\ thinned' = thinned /\ request[r].step # "done"
           /\ request' = [request EXCEPT ![r] = request'[r]]
           /\ run' = [run EXCEPT ![r] = run'[r]]
           /\ clean' = [clean EXCEPT ![r] = clean'[r]]
<1> USE DEF DataUnchanged
<1>1. /\ request \in [Requests -> Request] /\ run \in [Requests -> Run \cup {None}]
      /\ clean \in [Requests -> Data \cup {None}]
    BY DEF AnalysisTypeOK
<1>2. CASE TakeFingerprint(r)
    BY <1>1, <1>2 DEF TakeFingerprint, Is
<1>3. CASE Lookup(r)
    BY <1>1, <1>3 DEF Lookup, Is, Goes, Ends, Queries
<1>4. CASE CreateRun(r)
    <2>1. PICK x : run' = [run EXCEPT ![r] = x]
        BY <1>4 DEF CreateRun
    <2>2. PICK a \in SUBSET {r} :
              clean' = [q \in Requests |-> IF q \in a THEN None ELSE clean[q]]
        BY <1>4 DEF CreateRun, Forget
    <2>3. clean' = [clean EXCEPT ![r] = clean'[r]]
        BY <1>1, <2>2
    <2>4. QED
        BY <1>1, <1>4, <2>1, <2>3 DEF CreateRun, Is, Goes
<1>5. CASE QueryStep(r)
    <2>1. /\ Queries
          /\ \E n : Moves(request[r], n) /\ request' = [request EXCEPT ![r] = n]
        BY <1>5, QueryMoves DEF Sound
    <2>2. PICK n : Moves(request[r], n) /\ request' = [request EXCEPT ![r] = n]
        BY <2>1
    <2>3. request[r].step # "done"
        BY <2>2 DEF Moves, Gathers, Takes, Drops, Continues, Adds
    <2>4. QED
        BY <1>1, <2>1, <2>2, <2>3 DEF Queries
<1>6. CASE CompleteRun(r)
    BY <1>1, <1>6 DEF CompleteRun, Is, Ends
<1>7. CASE FailRun(r) \/ Crash(r)
    BY <1>1, <1>7 DEF FailRun, Crash, Computing, Flagging, Grouping, Ends, Forget
<1>8. QED
    BY <1>2, <1>3, <1>4, <1>5, <1>6, <1>7 DEF RequestStep

\* Before a request is done it has no answer, and nobody was given its run.
LEMMA NotYetAnswered ==
    ASSUME AnalysisTypeOK, NEW r \in Requests, Sound(r), request[r].step # "done"
    PROVE  /\ request[r].answer = None /\ request[r] \in Request
           /\ run[r] # None => run[r].status # "complete" /\ run[r].results = {}
           /\ \A a \in Requests : run[a] # None /\ run[a].status = "complete" => a # r
<1>1. request[r] \in Request /\ request[r].step \in Early \cup Computing
    BY DEF AnalysisTypeOK, Request, Early
<1>2. request[r].answer = None
    BY DEF Sound, Answered
<1>3. run[r] # None => run[r].status # "complete"
    BY <1>1 DEF Sound, Kept, Early
<1>4. QED
    BY <1>1, <1>2, <1>3 DEF Sound, Kept

\* The step of a request that stays undone: its new records are typed and sound.
LEMMA OwnUnanswered ==
    ASSUME AnalysisTypeOK, NEW r \in Requests, DataUnchanged, NEW q \in Request,
           NEW x \in Run \cup {None}, NEW c \in Data \cup {None},
           request' = [request EXCEPT ![r] = q], run' = [run EXCEPT ![r] = x],
           clean' = [clean EXCEPT ![r] = c],
           Kept(q, x), Progressing(q, c), Finished(x, c), Snapped(q, x, c), q.answer = None
    PROVE  /\ request'[r] \in Request /\ run'[r] \in Run \cup {None}
           /\ clean'[r] \in Data \cup {None} /\ Sound(r)'
<1>1. request'[r] = q /\ run'[r] = x /\ clean'[r] = c
    BY DEF AnalysisTypeOK
<1>2. Answered(r)'
    BY <1>1 DEF Answered
<1>3. UNCHANGED <<obs, rulesets, current>>
    BY DEF DataUnchanged
<1>4. QED
    BY <1>1, <1>2, <1>3, OwnSound

LEMMA TakeFingerprintOwn ==
    ASSUME AnalysisTypeOK, NEW r \in Requests, Sound(r), TakeFingerprint(r)
    PROVE  /\ request'[r] \in Request /\ run'[r] \in Run \cup {None}
           /\ clean'[r] \in Data \cup {None} /\ Sound(r)'
<1>1. /\ request \in [Requests -> Request] /\ request[r] \in Request
      /\ run \in [Requests -> Run \cup {None}] /\ clean \in [Requests -> Data \cup {None}]
    BY DEF AnalysisTypeOK
<1>2. request[r].step = "new" /\ run[r] = None /\ request[r].results = {}
    BY DEF TakeFingerprint, Is, Sound, Kept, Early
<1> DEFINE print == InputFingerprint
           q == [request[r] EXCEPT !.step = "lookup", !.print = print]
<1>3. print \in Fingerprint
    BY FingerprintReads
<1>4. Input \in Data /\ Snapshot(Input, print)
    BY InputTyped, TakenNow
<1>5. /\ request' = [request EXCEPT ![r] = q] /\ run' = [run EXCEPT ![r] = run[r]]
      /\ clean' = [clean EXCEPT ![r] = Input] /\ DataUnchanged
    BY <1>1 DEF TakeFingerprint
<1> HIDE DEF print
<1>6. /\ q \in Request /\ q.step = "lookup" /\ q.print = print /\ q.results = {}
      /\ q.answer = None
    BY <1>1, <1>2, <1>3, NotYetAnswered DEF Request
<1> HIDE DEF q
<1>7. /\ Kept(q, run[r]) /\ Progressing(q, Input) /\ Finished(run[r], Input)
      /\ Snapped(q, run[r], Input)
    BY <1>2, <1>3, <1>4, <1>6 DEF Kept, Progressing, Computing, Flagging, Grouping, Early, Finished, Snapped, KeptPrint
<1>8. QED
    BY <1>1, <1>4, <1>5, <1>6, <1>7, OwnUnanswered

LEMMA LookupOwn ==
    ASSUME AnalysisInv, NEW r \in Requests, Lookup(r)
    PROVE  /\ request'[r] \in Request /\ run'[r] \in Run \cup {None}
           /\ clean'[r] \in Data \cup {None} /\ Sound(r)'
<1>0. AnalysisTypeOK /\ Sound(r)
    BY DEF AnalysisInv
<1>1. /\ request \in [Requests -> Request] /\ request[r] \in Request
      /\ run \in [Requests -> Run \cup {None}] /\ clean \in [Requests -> Data \cup {None}]
    BY <1>0 DEF AnalysisTypeOK
<1>2. /\ request[r].step = "lookup" /\ run[r] = None /\ request[r].results = {}
      /\ request[r].answer = None /\ request[r].print \in Fingerprint
    BY <1>0, NotYetAnswered DEF Lookup, Is, Sound, Kept, Early
<1>3. run' = run /\ clean' = clean /\ DataUnchanged
    BY DEF Lookup, Queries
<1>4. CASE Goes(r, "create")
    <2> DEFINE q == [request[r] EXCEPT !.step = "create"]
    <2>1. /\ q \in Request /\ q.step = "create" /\ q.print = request[r].print /\ q.results = {}
          /\ q.answer = None
        BY <1>1, <1>2 DEF Request
    <2>2. /\ request' = [request EXCEPT ![r] = q] /\ run' = [run EXCEPT ![r] = run[r]]
          /\ clean' = [clean EXCEPT ![r] = clean[r]]
        BY <1>1, <1>3, <1>4 DEF Goes
    <2> HIDE DEF q
    <2>3. Snapped(q, run[r], clean[r])
        BY <1>0, <1>2, <2>1 DEF Sound, Snapped, Printed, KeptPrint
    <2>4. Kept(q, run[r]) /\ Progressing(q, clean[r]) /\ Finished(run[r], clean[r])
        BY <1>0, <1>2, <2>1 DEF Sound, Kept, Progressing, Computing, Flagging, Grouping, Early
    <2>5. QED
        BY <1>0, <1>1, <1>3, <2>1, <2>2, <2>3, <2>4, OwnUnanswered
<1>5. ASSUME NEW a \in Requests, run[a] # None, run[a].status = "complete",
             run[a].print = request[r].print, Ends(r, a)
      PROVE  /\ request'[r] \in Request /\ run'[r] \in Run \cup {None}
             /\ clean'[r] \in Data \cup {None} /\ Sound(r)'
    <2> DEFINE q == [NewRequest EXCEPT !.step = "done", !.answer = a]
    <2>1. q \in Request /\ q.step = "done" /\ q.answer = a /\ q.results = {}
        BY DEF NewRequest, Request
    <2>2. request'[r] = q /\ run'[r] = run[r] /\ clean'[r] = clean[r]
        BY <1>1, <1>3, <1>5 DEF Ends
    <2> HIDE DEF q
    <2>3. /\ Kept(q, run[r]) /\ Progressing(q, clean[r]) /\ Finished(run[r], clean[r])
          /\ Snapped(q, run[r], clean[r])
        BY <1>0, <1>2, <2>1 DEF Kept, Progressing, Computing, Flagging, Grouping, Early, Finished, Snapped, Printed
    <2>4. request[a].step \notin {"lookup", "create"}
        BY <1>5 DEF AnalysisInv, Sound, Kept, Early
    <2>5. clean[r] # None /\ clean[a] # None => clean[r] = clean[a]
        BY <1>2, <1>5, <2>4 DEF AnalysisInv, SamePrint, HasPrint, PrintOf, Printed, KeptPrint
    <2>6. Answered(r)'
        BY <1>3, <1>5, <2>1, <2>2, <2>5 DEF Answered
    <2>7. UNCHANGED <<obs, rulesets, current>>
        BY <1>3 DEF DataUnchanged
    <2>8. QED
        BY <1>1, <2>1, <2>2, <2>3, <2>6, <2>7, OwnSound
<1>6. QED
    BY <1>4, <1>5 DEF Lookup

LEMMA CreateRunOwn ==
    ASSUME AnalysisTypeOK, NEW r \in Requests, Sound(r), CreateRun(r)
    PROVE  /\ request'[r] \in Request /\ run'[r] \in Run \cup {None}
           /\ clean'[r] \in Data \cup {None} /\ Sound(r)'
<1>1. /\ request \in [Requests -> Request] /\ request[r] \in Request
      /\ run \in [Requests -> Run \cup {None}] /\ clean \in [Requests -> Data \cup {None}]
    BY DEF AnalysisTypeOK
<1>2. /\ request[r].step = "create" /\ run[r] = None /\ request[r].results = {}
      /\ request[r].answer = None /\ request[r].print \in Fingerprint
    BY NotYetAnswered DEF CreateRun, Is, Sound, Kept, Early
<1> DEFINE made == {q \in Requests : run[q] # None}
           x == [status |-> "pending", print |-> request[r].print, results |-> {},
                 flags |-> {}, at |-> Cardinality(made) + 1]
           q == [request[r] EXCEPT !.step = "lucky_groups"]
           c == IF Input = clean[r] THEN clean[r] ELSE None
<1>3. Cardinality(made) + 1 \in 1 .. Cardinality(Requests)
    <2>1. made \in SUBSET Requests /\ r \notin made
        BY <1>2
    <2> HIDE DEF made
    <2>2. /\ IsFiniteSet(made) /\ Cardinality(made) <= Cardinality(Requests)
          /\ Cardinality(made) # Cardinality(Requests)
        BY <2>1, FS_Subset, AnalysisAssumption
    <2>3. Cardinality(made) \in Nat /\ Cardinality(Requests) \in Nat
        BY <2>2, FS_CardinalityType, AnalysisAssumption
    <2>4. QED
        BY <2>2, <2>3
<1>4. x \in Run /\ x.status = "pending" /\ x.results = {} /\ x.print = request[r].print
    <2> HIDE DEF made
    <2>1. QED
        BY <1>2, <1>3 DEF Run
<1>5. /\ q \in Request /\ q.step = "lucky_groups" /\ q.results = {} /\ q.answer = None
    BY <1>1, <1>2 DEF Request, Computing
<1>6. c \in Data \cup {None} /\ (c # None => c = clean[r] /\ c = Input)
    BY <1>1
<1>7. request' = [request EXCEPT ![r] = q] /\ run' = [run EXCEPT ![r] = x] /\ DataUnchanged
    BY <1>1 DEF CreateRun, Goes
<1>8. clean' = [clean EXCEPT ![r] = c]
    BY <1>1 DEF CreateRun, Forget
<1>9. x # None
    BY <1>4, AnalysisAssumption
<1> HIDE DEF x, q, c
<1>10. Snapped(q, x, c)
    BY <1>2, <1>4, <1>5, <1>6 DEF Sound, Snapped, Printed, KeptPrint
<1>11. Kept(q, x) /\ Progressing(q, c) /\ Finished(x, c)
    BY <1>4, <1>5, <1>6, <1>9 DEF Kept, Progressing, Finished, Computing, Flagging, Grouping,
       Early
<1>12. QED
    BY <1>4, <1>5, <1>6, <1>7, <1>8, <1>10, <1>11, OwnUnanswered

\* The queries write nothing: what they change is the request.
LEMMA MovesKept ==
    ASSUME AnalysisTypeOK, NEW q \in Request, NEW n, NEW x, Kept(q, x), Moves(q, n)
    PROVE  Kept(n, x) /\ q.step \in Computing /\ n.step \in Computing
<1>1. /\ n \in Request /\ rulesets \subseteq Rulesets /\ current \in Rulesets \cup {None}
      /\ q.groups \subseteq Group
    BY DEF Moves, AnalysisTypeOK, Request
<1> USE DEF Computing, Flagging, Grouping, Early
<1>2. CASE Gathers(q, n)
    BY <1>2 DEF Gathers, Kept
<1>3. CASE Takes(q, n)
    BY <1>1, <1>3 DEF Takes, Kept
<1>4. CASE Drops(q, n)
    BY <1>4 DEF Drops, Kept
<1>5. CASE Continues(q, n)
    BY <1>1, <1>5 DEF Continues, Kept
<1>6. ASSUME NEW m \in Metrics, Adds(q, n, m)
      PROVE  Kept(n, x) /\ q.step \in Computing /\ n.step \in Computing
    BY <1>6 DEF Adds, Kept
<1>7. QED
    BY <1>2, <1>3, <1>4, <1>5, <1>6 DEF Moves

\* A group without a floor adds nothing, and one with a floor its results.
LEMMA FoundGrows ==
    ASSUME NEW S, NEW g
    PROVE  /\ Floor(g) = None => FoundIn(S \cup {g}) = FoundIn(S)
           /\ Floor(g) # None => FoundIn(S \cup {g}) = FoundIn(S) \cup {Found(m, g) : m \in Metrics}
<1>1. ASSUME Floor(g) = None PROVE FoundIn(S \cup {g}) = FoundIn(S)
    <2>1. {h \in S \cup {g} : Floor(h) # None} = {h \in S : Floor(h) # None}
        BY <1>1
    <2>2. QED
        BY <2>1 DEF FoundIn
<1>2. ASSUME Floor(g) # None
      PROVE  FoundIn(S \cup {g}) = FoundIn(S) \cup {Found(m, g) : m \in Metrics}
    <2>1. {h \in S \cup {g} : Floor(h) # None} = {h \in S : Floor(h) # None} \cup {g}
        BY <1>2
    <2>2. QED
        BY <2>1 DEF FoundIn
<1>3. QED
    BY <1>1, <1>2

LEMMA FoundSoFar ==
    ASSUME NEW g
    PROVE  /\ \A step \in {"resolve", "parameters", "hundo"} : FoundOf(g, step) = {}
           /\ \A step \in {"count", "stats"} : FoundOf(g, step) = {Found("hundo_rate", g)}
           /\ FoundOf(g, "sums") = {Found("hundo_rate", g), Found("stat_uniformity", g)}
           /\ {Found(m, g) : m \in Metrics} =
                  FoundOf(g, "sums") \cup {Found("sum_uniformity", g)}
BY DEF FoundOf, Metrics

LEMMA MovesOn ==
    ASSUME AnalysisTypeOK, NEW q, NEW x, NEW n, NEW c, q.step \in Computing, Kept(q, x),
           Moves(q, n), Progressing(q, c)
    PROVE  Progressing(n, c)
<1> SUFFICES ASSUME c # None PROVE Progressing(n, c)
    BY DEF Progressing
<1>1. c = Input
    BY DEF Progressing
<1>2. CASE Gathers(q, n)
    <2>1. {g \in Groups : IsLucky(g)} \cup {g \in Groups : ~IsLucky(g)} = Groups
        OBVIOUS
    <2>2. FoundIn(Groups \ Groups) = {}
        BY DEF FoundIn
    <2>3. CASE n.step \in Flagging
        BY <1>1, <1>2, <2>1, <2>3 DEF Gathers, Progressing, Grouping, Flagging
    <2>4. CASE n.step \notin Flagging
        <3>1. n.step = "floor" /\ n.groups = Groups /\ n.results = q.results
            BY <1>2, <2>4 DEF Gathers, Progressing, Flagging
        <3>2. n.results = FoundIn(Groups \ n.groups)
            BY <1>2, <2>2, <2>4, <3>1 DEF Gathers, Kept, Flagging
        <3>3. QED
            BY <1>1, <3>1, <3>2 DEF Progressing, Grouping
    <2>5. QED
        BY <2>3, <2>4
<1>3. CASE Takes(q, n)
    <2>1. /\ q.groups \subseteq Groups /\ n.results = FoundIn(Groups \ q.groups)
        BY <1>3 DEF Takes, Progressing, Computing
    <2>2. CASE n.step = "commit"
        <3>1. Groups \ {} = Groups /\ q.groups = {}
            BY <1>3, <2>2 DEF Takes
        <3>2. QED
            BY <1>1, <2>1, <2>2, <3>1 DEF Progressing, Grouping
    <2>3. CASE n.step # "commit"
        <3>1. PICK g \in q.groups :
                  /\ n.groups = q.groups \ {g} /\ n.group = g
                  /\ \/ g.ruleset \in rulesets /\ n.step = "parameters" /\ n.floor = g.ruleset
                     \/ g.ruleset \notin rulesets /\ n.step = "resolve"
            BY <1>3, <2>3 DEF Takes
        <3>2. /\ (Groups \ n.groups) \ {g} = Groups \ q.groups
              /\ g \in Groups \ n.groups /\ n.groups \subseteq Groups
            BY <2>1, <3>1
        <3>3. n.results = FoundIn((Groups \ n.groups) \ {n.group}) \cup FoundOf(n.group, n.step)
            BY <2>1, <3>1, <3>2, FoundSoFar
        <3>4. g.ruleset \in rulesets => n.floor = Floor(g) /\ n.floor # None
            BY <3>1, AnalysisAssumption DEF Floor, AnalysisTypeOK
        <3>5. QED
            BY <1>1, <3>1, <3>2, <3>3, <3>4 DEF Progressing, Grouping
    <2>4. QED
        BY <2>2, <2>3
<1>4. CASE q.step \in Grouping
    <2>1. PICK g, S : g = q.group /\ S = (Groups \ q.groups) \ {g}
        OBVIOUS
    <2>2. /\ q.groups \subseteq Groups /\ g \in Groups \ q.groups
          /\ q.step = "resolve" => g.ruleset \notin rulesets
          /\ q.step # "resolve" => q.floor = Floor(g) /\ q.floor # None
          /\ q.results = FoundIn(S) \cup FoundOf(g, q.step)
        BY <1>4, <2>1 DEF Progressing, Computing
    <2>3. S \cup {g} = Groups \ q.groups
        BY <2>1, <2>2
    <2>4. CASE Drops(q, n)
        <3>1. q.step = "resolve" /\ current = None
            <4>1. PICK o \in ValidObs : g = GroupOf(o)
                BY <2>2 DEF Groups
            <4>2. o \in InGroup(g)
                BY <4>1 DEF InGroup
            <4>3. QED
                BY <2>1, <2>4, <4>2 DEF Drops
        <3>2. Floor(g) = None
            BY <2>2, <3>1 DEF Floor
        <3>3. q.results = FoundIn(Groups \ q.groups)
            BY <2>2, <2>3, <3>1, <3>2, FoundGrows, FoundSoFar
        <3>4. QED
            BY <1>1, <2>2, <2>4, <3>3 DEF Drops, Progressing, Grouping
    <2>5. CASE Continues(q, n)
        <3>1. n.floor = Floor(g) /\ n.floor # None
            <4>1. CASE q.step = "resolve"
                BY <2>2, <2>5, <4>1 DEF Continues, Floor
            <4>2. CASE q.step = "parameters"
                BY <2>2, <2>5, <4>2 DEF Continues, Floor, AnalysisTypeOK
            <4>3. CASE q.step = "count"
                BY <2>2, <2>5, <4>3 DEF Continues
            <4>4. QED
                BY <2>5, <4>1, <4>2, <4>3 DEF Continues
        <3>2. FoundOf(g, n.step) = FoundOf(g, q.step) /\ n.step \in Grouping \ {"resolve"}
            BY <2>5, FoundSoFar DEF Continues, Grouping
        <3>3. n.group = g /\ n.groups = q.groups /\ n.results = q.results
            BY <2>1, <2>5 DEF Continues
        <3>4. QED
            BY <1>1, <2>1, <2>2, <3>1, <3>2, <3>3 DEF Progressing, Grouping
    <2>6. ASSUME NEW m \in Metrics, Adds(q, n, m) PROVE Progressing(n, c)
        <3>1. Finds(q, m) = Found(m, g)
            BY <2>1, <2>2, <2>6 DEF Finds, Found, Adds
        <3>2. n.results = FoundIn(S) \cup FoundOf(g, q.step) \cup {Found(m, g)}
            BY <2>2, <2>6, <3>1 DEF Adds
        <3>3. CASE q.step = "hundo" \/ q.step = "stats"
            <4>1. FoundOf(g, q.step) \cup {Found(m, g)} = FoundOf(g, n.step)
                BY <2>6, <3>3, FoundSoFar DEF Adds
            <4>2. /\ n.results = FoundIn(S) \cup FoundOf(g, n.step)
                  /\ n.group = g /\ n.groups = q.groups /\ n.floor = q.floor
                  /\ n.step \in {"count", "sums"}
                BY <2>1, <2>6, <3>2, <3>3, <4>1 DEF Adds
            <4>3. QED
                BY <1>1, <2>1, <2>2, <3>3, <4>2 DEF Progressing, Grouping
        <3>4. CASE q.step = "sums"
            <4>1. n.results = FoundIn(S \cup {g})
                BY <2>2, <2>6, <3>2, <3>4, FoundGrows, FoundSoFar DEF Adds
            <4>2. n.step = "floor" /\ n.groups = q.groups
                BY <2>6, <3>4 DEF Adds
            <4>3. QED
                BY <1>1, <2>2, <2>3, <4>1, <4>2 DEF Progressing, Grouping
        <3>5. QED
            BY <2>6, <3>3, <3>4 DEF Adds
    <2>7. QED
        BY <1>4, <2>4, <2>5, <2>6 DEF Moves, Gathers, Takes, Grouping
<1>5. QED
    BY <1>2, <1>3, <1>4 DEF Moves, Drops, Continues, Adds, Grouping

LEMMA QueryOwn ==
    ASSUME AnalysisTypeOK, NEW r \in Requests, Sound(r), QueryStep(r)
    PROVE  /\ request'[r] \in Request /\ run'[r] \in Run \cup {None}
           /\ clean'[r] \in Data \cup {None} /\ Sound(r)'
<1>1. Queries /\ \E n : Moves(request[r], n) /\ request' = [request EXCEPT ![r] = n]
    BY QueryMoves DEF Sound
<1>2. PICK n : Moves(request[r], n) /\ request' = [request EXCEPT ![r] = n]
    BY <1>1
<1>3. /\ run[r] \in Run \cup {None} /\ clean[r] \in Data \cup {None} /\ request[r] \in Request
      /\ run' = [run EXCEPT ![r] = run[r]] /\ clean' = [clean EXCEPT ![r] = clean[r]]
      /\ DataUnchanged
    BY <1>1 DEF AnalysisTypeOK, Queries
<1>4. Kept(n, run[r]) /\ request[r].step \in Computing /\ n.step \in Computing
    BY <1>2, <1>3, MovesKept DEF Sound
<1>5. request[r].step \notin {"done", "lookup", "create"} /\ n.step \notin {"lookup", "create"}
    BY <1>4 DEF Computing, Flagging, Grouping
<1>6. n \in Request /\ n.answer = None
    BY <1>2, <1>5, NotYetAnswered DEF Moves
<1>7. Progressing(n, clean[r]) /\ Finished(run[r], clean[r])
    BY <1>2, <1>4, MovesOn DEF Sound
<1>8. Snapped(n, run[r], clean[r])
    BY <1>5 DEF Sound, Snapped, Printed, KeptPrint
<1>9. QED
    BY <1>2, <1>3, <1>4, <1>6, <1>7, <1>8, OwnUnanswered

LEMMA CompleteRunOwn ==
    ASSUME AnalysisTypeOK, NEW r \in Requests, Sound(r), CompleteRun(r)
    PROVE  /\ request'[r] \in Request /\ run'[r] \in Run \cup {None}
           /\ clean'[r] \in Data \cup {None} /\ Sound(r)'
<1> DEFINE q == [NewRequest EXCEPT !.step = "done", !.answer = r]
           x == [run[r] EXCEPT !.status = "complete", !.results = request[r].results,
                               !.flags = request[r].flags]
<1>1. /\ request \in [Requests -> Request] /\ request[r] \in Request
      /\ run \in [Requests -> Run \cup {None}] /\ clean \in [Requests -> Data \cup {None}]
    BY DEF AnalysisTypeOK
<1>2. request[r].step = "commit" /\ DataUnchanged /\ clean'[r] = clean[r]
    BY DEF CompleteRun, Is
<1>3. run[r] \in Run
    BY <1>1, <1>2 DEF Sound, Kept, Computing
<1>4. request'[r] = q /\ run'[r] = x
    BY <1>1 DEF CompleteRun, Ends
<1>5. q \in Request /\ q.step = "done" /\ q.answer = r /\ q.results = {}
    BY DEF NewRequest, Request
<1>6. /\ x \in Run /\ x.status = "complete" /\ x.results = request[r].results
      /\ x.print = run[r].print
    BY <1>1, <1>3 DEF Run, Request
<1>7. x # None /\ run[r] # None
    BY <1>3, <1>6, AnalysisAssumption
<1> HIDE DEF q, x
<1>8. Kept(q, x) /\ Progressing(q, clean[r])
    BY <1>5, <1>6 DEF Kept, Progressing, Computing, Early, Flagging, Grouping
<1>9. Snapped(q, x, clean[r])
    BY <1>2, <1>5, <1>6, <1>7 DEF Sound, Snapped, Printed, KeptPrint
<1>10. Finished(x, clean[r])
    <2>1. clean[r] # None =>
              /\ clean[r] = Input /\ request[r].results = FoundIn(Groups)
        BY <1>2 DEF Sound, Progressing, Computing
    <2>2. QED
        BY <1>6, <2>1, ExpectedNow DEF Finished
<1>11. Answered(r)'
    BY <1>4, <1>5, <1>6, <1>7 DEF Answered
<1>12. UNCHANGED <<obs, rulesets, current>>
    BY <1>2 DEF DataUnchanged
<1>13. QED
    BY <1>1, <1>2, <1>4, <1>5, <1>6, <1>8, <1>9, <1>10, <1>11, <1>12, OwnSound

LEMMA CutShortOwn ==
    ASSUME AnalysisTypeOK, NEW r \in Requests, Sound(r), FailRun(r) \/ Crash(r)
    PROVE  /\ request'[r] \in Request /\ run'[r] \in Run \cup {None}
           /\ clean'[r] \in Data \cup {None} /\ Sound(r)'
<1> DEFINE q == [NewRequest EXCEPT !.step = "done", !.answer = None]
<1>1. /\ request \in [Requests -> Request]
      /\ run \in [Requests -> Run \cup {None}] /\ clean \in [Requests -> Data \cup {None}]
    BY DEF AnalysisTypeOK
<1>2. /\ request' = [request EXCEPT ![r] = q] /\ clean' = [clean EXCEPT ![r] = None]
      /\ DataUnchanged /\ request[r].step # "done"
    BY <1>1 DEF FailRun, Crash, Ends, Forget, Computing, Flagging, Grouping
<1>3. q \in Request /\ q.step = "done" /\ q.answer = None /\ q.results = {}
    BY DEF NewRequest, Request
<1>4. PICK x \in Run \cup {None} :
          /\ run' = [run EXCEPT ![r] = x]
          /\ x # None => x.status # "complete" /\ x.results = {}
    <2>1. CASE FailRun(r)
        <3>1. run[r] \in Run /\ run[r].status = "pending" /\ run[r].results = {}
            BY <1>1, <2>1 DEF FailRun, Sound, Kept
        <3>2. /\ [run[r] EXCEPT !.status = "failed"] \in Run
              /\ [run[r] EXCEPT !.status = "failed"].status = "failed"
              /\ [run[r] EXCEPT !.status = "failed"].results = {}
            BY <3>1 DEF Run
        <3>3. run' = [run EXCEPT ![r] = [run[r] EXCEPT !.status = "failed"]]
            BY <2>1 DEF FailRun
        <3>4. QED
            BY <3>2, <3>3
    <2>2. CASE Crash(r)
        <3>1. run' = [run EXCEPT ![r] = run[r]] /\ run[r] \in Run \cup {None}
            BY <1>1, <2>2 DEF Crash
        <3>2. QED
            BY <1>2, <3>1, NotYetAnswered
    <2>3. QED
        BY <2>1, <2>2
<1> HIDE DEF q
<1>5. Kept(q, x) /\ Progressing(q, None) /\ Finished(x, None) /\ Snapped(q, x, None)
    BY <1>3, <1>4 DEF Kept, Progressing, Finished, Snapped, Computing, Flagging, Grouping,
       Early
<1>6. QED
    BY <1>2, <1>3, <1>4, <1>5, OwnUnanswered

\* Every step of a request leaves it typed and sound.
LEMMA OwnStep ==
    ASSUME AnalysisInv, NEW r \in Requests, RequestStep(r)
    PROVE  /\ request'[r] \in Request /\ run'[r] \in Run \cup {None}
           /\ clean'[r] \in Data \cup {None} /\ Sound(r)'
<1>1. AnalysisTypeOK /\ Sound(r)
    BY DEF AnalysisInv
<1>2. QED
    BY <1>1, TakeFingerprintOwn, LookupOwn, CreateRunOwn, QueryOwn, CompleteRunOwn, CutShortOwn DEF RequestStep

\* Its fingerprint, if it has one then, it had before with the same data, or it has just
\* taken it.
LEMMA PrintKept ==
    ASSUME AnalysisInv, NEW r \in Requests, RequestStep(r), HasPrint(r)'
    PROVE  \/ HasPrint(r) /\ PrintOf(r)' = PrintOf(r) /\ clean'[r] = clean[r]
           \/ PrintOf(r)' = InputFingerprint /\ clean'[r] = Input
<1>1. /\ AnalysisTypeOK /\ Sound(r) /\ request \in [Requests -> Request]
      /\ request[r] \in Request
      /\ run \in [Requests -> Run \cup {None}] /\ clean \in [Requests -> Data \cup {None}]
    BY DEF AnalysisInv, AnalysisTypeOK
<1>2. clean'[r] # None
    BY DEF HasPrint
<1>3. CASE TakeFingerprint(r)
    <2>1. request'[r].step = "lookup" /\ request'[r].print = InputFingerprint /\ clean'[r] = Input
        BY <1>1, <1>3 DEF TakeFingerprint, Request
    <2>2. QED
        BY <2>1 DEF PrintOf, KeptPrint
<1>4. CASE Lookup(r)
    <2>1. run[r] = None /\ run' = run /\ clean' = clean /\ request[r].step = "lookup"
        BY <1>1, <1>4 DEF Lookup, Queries, Is, Sound, Kept, Early
    <2>2. CASE Goes(r, "create")
        <3>1. request'[r].step = "create" /\ request'[r].print = request[r].print
            BY <1>1, <2>2 DEF Goes, Request
        <3>2. QED
            BY <1>2, <2>1, <3>1 DEF HasPrint, Printed, PrintOf, KeptPrint
    <2>3. ASSUME NEW a, Ends(r, a) PROVE FALSE
        <3>1. request'[r].step = "done"
            BY <1>1, <2>3 DEF Ends, NewRequest
        <3>2. QED
            BY <2>1, <3>1 DEF HasPrint, Printed
    <2>4. QED
        BY <1>4, <2>2, <2>3 DEF Lookup
<1>5. CASE CreateRun(r)
    <2>1. request[r].step = "create" /\ request'[r].step = "lucky_groups"
        BY <1>1, <1>5 DEF CreateRun, Is, Goes
    <2>2. run'[r].print = request[r].print
        BY <1>1, <1>5 DEF CreateRun
    <2>3. clean'[r] \in {clean[r], None}
        BY <1>1, <1>5 DEF CreateRun, Forget
    <2>4. QED
        BY <1>2, <2>1, <2>2, <2>3 DEF HasPrint, Printed, PrintOf, KeptPrint
<1>6. CASE QueryStep(r)
    <2>1. Queries /\ \E n : Moves(request[r], n) /\ request' = [request EXCEPT ![r] = n]
        BY <1>1, <1>6, QueryMoves DEF Sound
    <2>2. PICK n : Moves(request[r], n) /\ request' = [request EXCEPT ![r] = n]
        BY <2>1
    <2>3. request[r].step \in Computing /\ request'[r].step \in Computing
        BY <1>1, <2>2, MovesKept DEF Sound
    <2>4. run' = run /\ clean' = clean
        BY <2>1 DEF Queries
    <2>5. request[r].step \notin {"lookup", "create"} /\ request'[r].step \notin {"lookup", "create"}
        BY <2>3 DEF Computing, Flagging, Grouping
    <2>6. QED
        BY <1>2, <2>3, <2>4, <2>5 DEF HasPrint, Printed, PrintOf, KeptPrint, Sound, Kept
<1>7. CASE CompleteRun(r)
    <2>1. request'[r].step = "done" /\ clean' = clean /\ request[r].step = "commit"
        BY <1>1, <1>7 DEF CompleteRun, Ends, NewRequest, Is
    <2>2. run[r] # None /\ run'[r].print = run[r].print
        BY <1>1, <1>7, <2>1 DEF CompleteRun, Sound, Kept, Computing, Run
    <2>3. QED
        BY <1>2, <2>1, <2>2 DEF HasPrint, Printed, PrintOf, KeptPrint
<1>8. CASE FailRun(r) \/ Crash(r)
    <2>1. clean'[r] = None
        BY <1>1, <1>8 DEF FailRun, Crash, Forget
    <2>2. QED
        BY <1>2, <2>1
<1>9. QED
    BY <1>3, <1>4, <1>5, <1>6, <1>7, <1>8 DEF RequestStep

LEMMA RequestKeeps ==
    ASSUME AnalysisInv, NEW r \in Requests, RequestStep(r) PROVE AnalysisInv'
<1>1. /\ AnalysisTypeOK /\ StampsInv /\ SamePrint /\ \A q \in Requests : Sound(q)
      /\ request \in [Requests -> Request] /\ run \in [Requests -> Run \cup {None}]
      /\ clean \in [Requests -> Data \cup {None}]
    BY DEF AnalysisInv, AnalysisTypeOK
<1>2. /\ DataUnchanged /\ thinned' = thinned /\ request[r].step # "done"
      /\ request' = [request EXCEPT ![r] = request'[r]]
      /\ run' = [run EXCEPT ![r] = run'[r]] /\ clean' = [clean EXCEPT ![r] = clean'[r]]
    BY <1>1, RequestFrame
<1>3. /\ request'[r] \in Request /\ run'[r] \in Run \cup {None}
      /\ clean'[r] \in Data \cup {None} /\ Sound(r)'
    BY OwnStep
<1>4. UNCHANGED <<obs, rulesets, current>>
    BY <1>2 DEF DataUnchanged
<1>5. \A q \in Requests : q # r => /\ request'[q] = request[q] /\ run'[q] = run[q]
                                   /\ clean'[q] = clean[q]
    BY <1>1, <1>2
<1>6. AnalysisTypeOK'
    <2>1. /\ request' \in [Requests -> Request] /\ run' \in [Requests -> Run \cup {None}]
          /\ clean' \in [Requests -> Data \cup {None}]
        BY <1>1, <1>2, <1>3
    <2>2. QED
        BY <1>1, <1>2, <2>1 DEF AnalysisTypeOK, DataUnchanged
<1>7. StampsInv'
    BY <1>1, <1>2 DEF StampsInv, DataUnchanged
<1>8. ASSUME NEW q \in Requests PROVE Sound(q)'
    <2>1. CASE q = r
        BY <1>3, <2>1
    <2>2. CASE q # r
        <3>1. \A a \in Requests : run[a] # None /\ run[a].status = "complete" => a # r
            BY <1>1, <1>2, NotYetAnswered
        <3>2. QED
            BY <1>1, <1>4, <1>5, <2>2, <3>1, Unmoved
    <2>3. QED
        BY <2>1, <2>2
<1>9. SamePrint'
    <2>1. ASSUME NEW q \in Requests, q # r, HasPrint(q)'
          PROVE  HasPrint(q) /\ PrintOf(q)' = PrintOf(q) /\ clean'[q] = clean[q]
        BY <1>5, <2>1 DEF HasPrint, Printed, PrintOf, KeptPrint
    <2>2. ASSUME NEW q \in Requests, q # r, HasPrint(q)', HasPrint(r)', PrintOf(q)' = PrintOf(r)'
          PROVE  clean'[q] = clean'[r]
        <3>1. HasPrint(q) /\ PrintOf(q)' = PrintOf(q) /\ clean'[q] = clean[q]
            BY <2>1, <2>2
        <3>2. CASE HasPrint(r) /\ PrintOf(r)' = PrintOf(r) /\ clean'[r] = clean[r]
            BY <1>1, <2>2, <3>1, <3>2 DEF SamePrint
        <3>3. CASE PrintOf(r)' = InputFingerprint /\ clean'[r] = Input
            <4>1. Snapshot(clean[q], PrintOf(q)) /\ PrintOf(q) = InputFingerprint
                BY <1>1, <2>2, <3>1, <3>3 DEF Sound, Snapped, HasPrint, PrintOf
            <4>2. clean[q] = Input
                BY <1>1, <4>1, SameFingerprint
            <4>3. QED
                BY <3>1, <3>3, <4>2
        <3>4. QED
            BY <2>2, <3>2, <3>3, PrintKept
    <2>3. ASSUME NEW x \in Requests, NEW y \in Requests,
                 HasPrint(x)', HasPrint(y)', PrintOf(x)' = PrintOf(y)'
          PROVE  clean'[x] = clean'[y]
        <3>1. CASE x = r \/ y = r
            BY <2>2, <2>3, <3>1
        <3>2. CASE x # r /\ y # r
            BY <1>1, <2>1, <2>3, <3>2 DEF SamePrint
        <3>3. QED
            BY <3>1, <3>2
    <2>4. QED
        BY <2>3 DEF SamePrint
<1>10. QED
    BY <1>6, <1>7, <1>8, <1>9 DEF AnalysisInv

-----------------------------------------------------------------------------
(* The steps of the observations and the rulesets *)

DataStep ==
    \/ \E o \in Obs :
           \/ CommitWrite(o)
           \/ \E state \in {"valid", "excluded"}, kind \in Kinds : BeginWrite(o, state, kind)
    \/ \E v \in Rulesets : DeleteRuleset(v)
    \/ \E v \in Rulesets \cup {None} : ChangeCurrent(v)

\* They forget the data of some requests and give none.
LEMMA DataFrame ==
    ASSUME AnalysisTypeOK, DataStep
    PROVE  /\ UNCHANGED <<request, run>>
           /\ clean' \in [Requests -> Data \cup {None}] /\ thinned \subseteq thinned'
           /\ thinned' \subseteq Requests
           /\ \A q \in Requests : clean'[q] \in {clean[q], None}
<1>1. thinned \subseteq Requests /\ clean \in [Requests -> Data \cup {None}]
    BY DEF AnalysisTypeOK
<1>2. ASSUME NEW rows, Thin(rows) PROVE thinned \subseteq thinned' /\ thinned' \subseteq Requests
    BY <1>1, <1>2 DEF Thin
<1>3. ASSUME NEW o \in Obs, CommitWrite(o)
      PROVE  /\ UNCHANGED <<request, run>> /\ clean' \in [Requests -> Data \cup {None}]
             /\ thinned \subseteq thinned' /\ thinned' \subseteq Requests
             /\ \A q \in Requests : clean'[q] \in {clean[q], None}
    <2> DEFINE late == \E p \in Obs : obs[p] # None /\ obs[p].stamp > writing[o].stamp
    <2>1. PICK a, b : /\ a = IF late THEN Requests ELSE {r \in Requests : request[r].step \in Computing}
                      /\ b = IF writing[o].state = "excluded" THEN {o} ELSE {}
        OBVIOUS
    <2>2. \/ clean' = clean /\ thinned' = thinned
          \/ clean' = [q \in Requests |-> IF q \in a THEN None ELSE clean[q]] /\ Thin(b)
        BY <1>3, <2>1 DEF CommitWrite, Forget
    <2>3. UNCHANGED <<request, run>>
        BY <1>3 DEF CommitWrite
    <2>4. thinned \subseteq thinned' /\ thinned' \subseteq Requests
        BY <1>1, <1>2, <2>2
    <2>5. QED
        BY <1>1, <2>2, <2>3, <2>4
<1>4. ASSUME NEW o \in Obs, NEW state \in {"valid", "excluded"}, NEW kind \in Kinds,
             BeginWrite(o, state, kind)
      PROVE  UNCHANGED <<request, run, clean, thinned>>
    BY <1>4 DEF BeginWrite
<1>5. ASSUME NEW v, DeleteRuleset(v) \/ ChangeCurrent(v)
      PROVE  /\ UNCHANGED <<request, run>> /\ clean' = [q \in Requests |-> None]
             /\ thinned \subseteq thinned' /\ thinned' \subseteq Requests
    <2>1. UNCHANGED <<request, run>> /\ clean' = [q \in Requests |-> None]
        BY <1>5 DEF DeleteRuleset, ChangeCurrent, Forget
    <2>2. thinned' = thinned \/ \E rows : Thin(rows)
        BY <1>5 DEF DeleteRuleset, ChangeCurrent
    <2>3. QED
        BY <1>1, <1>2, <2>1, <2>2
<1>6. QED
    BY <1>1, <1>3, <1>4, <1>5 DEF DataStep

\* A request stays sound if what is said of its data stands, or they are forgotten.
LEMMA StillSound ==
    ASSUME AnalysisTypeOK, NEW r \in Requests, Sound(r), UNCHANGED <<request, run>>,
           \A q \in Requests : clean'[q] \in {clean[q], None},
           NEW q, NEW x, NEW c, q = request[r], x = run[r], c = clean[r],
           clean'[r] # None =>
               Progressing(q, c)' /\ Finished(x, c)' /\ Snapped(q, x, c)'
    PROVE  Sound(r)'
<1>1. request'[r] = q /\ run'[r] = x /\ request'[r] = request[r] /\ run'[r] = run[r]
    OBVIOUS
<1>2. Kept(q, x)
    BY DEF Sound
<1>3. request[r].answer \in Requests \cup {None}
    BY DEF AnalysisTypeOK, Request
<1>4. Answered(r)'
    BY <1>3 DEF Sound, Answered
<1>5. CASE clean'[r] = None
    BY <1>1, <1>2, <1>4, <1>5 DEF Sound, Kept, Progressing, Finished, Snapped
<1>6. CASE clean'[r] # None
    <2>1. clean'[r] = c
        BY <1>6
    <2>2. Progressing(q, c)' /\ Finished(x, c)' /\ Snapped(q, x, c)' /\ Kept(q, x)'
        BY <1>2, <1>6 DEF Kept
    <2>3. Progressing(request[r], clean[r])'
        BY <1>1, <2>1, <2>2 DEF Progressing
    <2>4. Snapped(request[r], run[r], clean[r])'
        BY <1>1, <2>1, <2>2 DEF Snapped
    <2>5. Finished(run[r], clean[r])' /\ Kept(request[r], run[r])'
        BY <1>1, <2>1, <2>2 DEF Finished, Kept
    <2>6. QED
        BY <1>4, <2>3, <2>4, <2>5 DEF Sound
<1>7. QED
    BY <1>5, <1>6

\* A write that overtook none is younger than every row, and than every snapshot: it takes
\* nothing away from what was counted, and adds nothing that should have been.
LEMMA SnapshotStays ==
    ASSUME AnalysisTypeOK, StampsInv, NEW o \in Obs, writing[o] # None,
           ~(\E p \in Obs : obs[p] # None /\ obs[p].stamp > writing[o].stamp),
           obs' = [obs EXCEPT ![o] =
               IF @ = None THEN writing[o]
               ELSE [@ EXCEPT !.state = writing[o].state, !.stamp = writing[o].stamp]],
           NEW data, NEW print, print \in Fingerprint, Snapshot(data, print)
    PROVE  Snapshot(data, print)'
<1>1. /\ obs \in [Obs -> Row \cup {None}] /\ writing[o] \in Row
      /\ writing[o].stamp \in Nat /\ writing[o].stamp >= 1 /\ print.max \in Nat
    BY AnalysisAssumption DEF AnalysisTypeOK, Row, Fingerprint
<1>2. /\ obs'[o] # None /\ obs'[o].stamp = writing[o].stamp
      /\ obs[o] # None => GroupOf(o)' = GroupOf(o)
      /\ \A p \in Obs : p # o => obs'[p] = obs[p]
    <2>1. CASE obs[o] = None
        <3>1. obs'[o] = writing[o]
            BY <1>1, <2>1
        <3>2. QED
            BY <1>1, <2>1, <3>1
    <2>2. CASE obs[o] # None
        <3>1. obs[o] \in Row
            BY <1>1, <2>2
        <3>2. obs'[o] = [obs[o] EXCEPT !.state = writing[o].state, !.stamp = writing[o].stamp]
            BY <1>1, <2>2
        <3>3. obs'[o] \in Row
            BY <1>1, <3>1, <3>2 DEF Row
        <3>4. /\ obs'[o].stamp = writing[o].stamp
              /\ obs'[o].ruleset = obs[o].ruleset /\ obs'[o].kind = obs[o].kind
            BY ONLY <3>1, <3>2 DEF Row
        <3>5. QED
            BY <1>1, <3>3, <3>4, AnalysisAssumption DEF GroupOf
    <2>3. QED
        BY <2>1, <2>2
<1>3. \A p \in Obs : obs[p] # None => obs[p].stamp \in Nat /\ obs[p].stamp < writing[o].stamp
    <2> SUFFICES ASSUME NEW p \in Obs, obs[p] # None
                 PROVE  obs[p].stamp \in Nat /\ obs[p].stamp < writing[o].stamp
        OBVIOUS
    <2>1. obs[p].stamp \in Nat /\ obs[p].stamp # writing[o].stamp
        BY RowsTyped DEF StampsInv
    <2>2. ~(obs[p].stamp > writing[o].stamp)
        OBVIOUS
    <2>3. QED
        BY <1>1, <2>1, <2>2
<1>4. print.max < writing[o].stamp
    <2>1. CASE print.max = 0
        BY <1>1, <2>1
    <2>2. CASE print.max # 0
        <3>1. PICK p \in Obs : obs[p] # None /\ obs[p].stamp >= print.max
            BY <2>2 DEF Snapshot
        <3>2. QED
            BY <1>1, <1>3, <3>1
    <2>3. QED
        BY <2>1, <2>2
<1>5. \A p \in Rows(data) : p \in Obs /\ obs[p] # None
    BY DEF Rows, Snapshot
<1>6. \A p \in Rows(data) : obs'[p] # None /\ GroupOf(p)' = GroupOf(p)
    BY <1>2, <1>5 DEF GroupOf
<1>7. data = {<<p, GroupOf(p)'>> : p \in Rows(data)}
    BY <1>6 DEF Snapshot
<1>8. ASSUME NEW p \in Obs, obs'[p] # None, obs'[p].state = "valid", obs'[p].stamp <= print.max
      PROVE  p \in Rows(data)
    <2>1. p # o
        BY <1>1, <1>2, <1>4, <1>8
    <2>2. QED
        BY <1>2, <1>8, <2>1 DEF Snapshot, ValidObs
<1>9. print.max = 0 \/ \E p \in Obs : obs'[p] # None /\ obs'[p].stamp >= print.max
    BY <1>1, <1>2, <1>4
<1>10. print.count = Cardinality(Rows(data))
    BY DEF Snapshot
<1>11. QED
    BY <1>6, <1>7, <1>8, <1>9, <1>10 DEF Snapshot, Rows, ValidObs, GroupOf

LEMMA CommitKeeps ==
    ASSUME AnalysisInv, NEW o \in Obs, CommitWrite(o)
    PROVE  AnalysisTypeOK' /\ StampsInv' /\ \A r \in Requests : Sound(r)'
<1>1. /\ AnalysisTypeOK /\ StampsInv /\ \A r \in Requests : Sound(r)
      /\ obs \in [Obs -> Row \cup {None}] /\ writing \in [Obs -> Row \cup {None}]
      /\ writing[o] # None /\ writing[o] \in Row
      /\ request \in [Requests -> Request] /\ run \in [Requests -> Run \cup {None}]
      /\ clean \in [Requests -> Data \cup {None}]
    BY DEF AnalysisInv, AnalysisTypeOK, CommitWrite
<1>2. /\ UNCHANGED <<request, run>> /\ clean' \in [Requests -> Data \cup {None}]
      /\ \A q \in Requests : clean'[q] \in {clean[q], None}
      /\ thinned' \subseteq Requests
    BY <1>1, DataFrame DEF DataStep
<1>3. /\ writing' = [writing EXCEPT ![o] = None]
      /\ UNCHANGED <<clock, rulesets, current, changes, request, run>>
    BY DEF CommitWrite
<1> DEFINE late == \E p \in Obs : obs[p] # None /\ obs[p].stamp > writing[o].stamp
           kept == [obs[o] EXCEPT !.state = writing[o].state, !.stamp = writing[o].stamp]
           new == IF obs[o] = None THEN writing[o] ELSE kept
<1>4. CASE UNCHANGED <<obs, clean>>
    <2>1. AnalysisTypeOK'
        BY <1>1, <1>2, <1>3, <1>4 DEF AnalysisTypeOK
    <2>2. StampsInv'
        BY <1>1, <1>3, <1>4 DEF StampsInv
    <2>3. ASSUME NEW r \in Requests PROVE Sound(r)'
        BY <1>1, <1>3, <1>4, Unmoved
    <2>4. QED
        BY <2>1, <2>2, <2>3
<1>5. CASE /\ obs' = [obs EXCEPT ![o] = new]
           /\ Forget(IF late THEN Requests ELSE {r \in Requests : request[r].step \in Computing})
    <2>1. new \in Row /\ new.stamp = writing[o].stamp
        <3>1. CASE obs[o] = None
            BY <1>1, <3>1
        <3>2. CASE obs[o] # None
            <4>1. kept \in Row /\ kept.stamp = writing[o].stamp
                BY <1>1, <3>2 DEF Row
            <4>2. QED
                BY <3>2, <4>1
        <3>3. QED
            BY <3>1, <3>2
    <2>2. obs'[o] = new /\ \A p \in Obs : p # o => obs'[p] = obs[p]
        BY <1>1, <1>5
    <2>3. obs' \in [Obs -> Row \cup {None}]
        <3> HIDE DEF new
        <3>1. QED
            BY <1>1, <1>5, <2>1
    <2>4. AnalysisTypeOK'
        BY <1>1, <1>2, <1>3, <2>3 DEF AnalysisTypeOK
    <2>5. StampsInv'
        <3> HIDE DEF new
        <3>1. \A p \in Obs : p # o => writing'[p] = writing[p]
            BY <1>1, <1>3
        <3>2. writing'[o] = None
            BY <1>1, <1>3
        <3>3. QED
            BY <1>1, <1>3, <2>1, <2>2, <3>1, <3>2 DEF StampsInv
    <2>6. ASSUME NEW r \in Requests PROVE Sound(r)'
        <3>1. PICK q, x, c : q = request[r] /\ x = run[r] /\ c = clean[r]
            OBVIOUS
        <3>2. CASE clean'[r] = None
            BY <1>1, <1>2, <3>1, <3>2, StillSound
        <3>3. CASE clean'[r] # None
            <4>1. ~late /\ q.step \notin Computing /\ c # None
                BY <1>2, <1>5, <3>1, <3>3 DEF Forget
            <4>2. Progressing(q, c)'
                BY <4>1 DEF Progressing
            <4>3. Finished(x, c)'
                <5>1. Finished(x, c)
                    BY <1>1, <3>1 DEF Sound
                <5>2. QED
                    BY <1>3, <5>1 DEF Finished, Expected, Floor
            <4>4. Snapped(q, x, c)'
                <5>1. SUFFICES ASSUME Printed(q, x) PROVE Snapshot(c, KeptPrint(q, x))'
                    BY DEF Snapped, Printed
                <5>2. Snapshot(c, KeptPrint(q, x)) /\ KeptPrint(q, x) \in Fingerprint
                    <6>1. Snapshot(c, KeptPrint(q, x)) /\ Kept(q, x)
                        BY <1>1, <3>1, <4>1, <5>1 DEF Sound, Snapped
                    <6>2. x # None => x.print \in Fingerprint
                        BY <1>1, <3>1 DEF Run
                    <6>3. QED
                        BY <5>1, <6>1, <6>2 DEF Kept, Printed, KeptPrint
                <5>3. PICK print : print = KeptPrint(q, x)
                    OBVIOUS
                <5>4. Snapshot(c, print)'
                    BY <1>1, <1>5, <4>1, <5>2, <5>3, SnapshotStays
                <5>5. QED
                    BY <5>3, <5>4 DEF KeptPrint
            <4>5. QED
                BY <1>1, <1>2, <3>1, <4>2, <4>3, <4>4, StillSound
        <3>4. QED
            BY <3>2, <3>3
    <2>7. QED
        BY <2>4, <2>5, <2>6
<1>6. QED
    BY <1>4, <1>5 DEF CommitWrite

LEMMA BeginKeeps ==
    ASSUME AnalysisInv, NEW o \in Obs, NEW state \in {"valid", "excluded"}, NEW kind \in Kinds,
             BeginWrite(o, state, kind)
    PROVE  AnalysisTypeOK' /\ StampsInv' /\ \A r \in Requests : Sound(r)'
<1>1. /\ AnalysisTypeOK /\ StampsInv /\ \A r \in Requests : Sound(r)
      /\ obs \in [Obs -> Row \cup {None}] /\ writing \in [Obs -> Row \cup {None}]
      /\ clock \in 0 .. MaxClock /\ rulesets \subseteq Rulesets /\ current \in rulesets \cup {None}
    BY DEF AnalysisInv, AnalysisTypeOK
<1>2. /\ UNCHANGED <<obs, rulesets, current, request, run, clean, thinned>>
      /\ clock < MaxClock /\ clock' = clock + 1 /\ MaxClock \in Nat
    BY AnalysisAssumption DEF BeginWrite
<1>3. PICK ruleset \in Rulesets \cup {None} :
          writing' = [writing EXCEPT ![o] =
              [state |-> state, stamp |-> clock + 1, kind |-> kind, ruleset |-> ruleset]]
    <2>1. (IF obs[o] = None THEN current ELSE None) \in Rulesets \cup {None}
        BY <1>1
    <2>2. QED
        BY <2>1 DEF BeginWrite
<1>4. PICK new : new = [state |-> state, stamp |-> clock + 1, kind |-> kind, ruleset |-> ruleset]
    OBVIOUS
<1>5. new \in Row /\ new.stamp = clock + 1 /\ new # None
    BY <1>1, <1>2, <1>3, <1>4, AnalysisAssumption DEF Row
<1>6. /\ writing' \in [Obs -> Row \cup {None}] /\ writing'[o] = new
      /\ \A p \in Obs : p # o => writing'[p] = writing[p]
    BY <1>1, <1>3, <1>4, <1>5
<1>7. AnalysisTypeOK'
    BY <1>1, <1>2, <1>6 DEF AnalysisTypeOK
<1>8. StampsInv'
    <2>1. \A p \in Obs : /\ obs[p] # None => obs[p].stamp \in Nat /\ obs[p].stamp <= clock
                         /\ writing[p] # None => writing[p].stamp \in Nat /\ writing[p].stamp <= clock
        BY <1>1, AnalysisAssumption DEF StampsInv, Row
    <2>2. \A p \in Obs : /\ obs[p] # None => obs[p].stamp <= clock + 1 /\ obs[p].stamp # clock + 1
                         /\ writing[p] # None =>
                                writing[p].stamp <= clock + 1 /\ writing[p].stamp # clock + 1
        BY <1>1, <2>1
    <2>3. \A p \in Obs : writing'[p] # None => writing'[p].stamp <= clock'
        BY <1>1, <1>2, <1>5, <1>6, <2>2
    <2>4. ASSUME NEW p \in Obs, NEW s \in Obs, writing'[p] # None, obs'[s] # None
          PROVE  writing'[p].stamp # obs'[s].stamp
        BY <1>1, <1>2, <1>5, <1>6, <2>2, <2>4 DEF StampsInv
    <2>5. ASSUME NEW p \in Obs, NEW s \in Obs, p # s, writing'[p] # None, writing'[s] # None
          PROVE  writing'[p].stamp # writing'[s].stamp
        BY <1>1, <1>2, <1>5, <1>6, <2>2, <2>5 DEF StampsInv
    <2>6. QED
        BY <1>2, <2>2, <2>3, <2>4, <2>5 DEF StampsInv
<1>9. ASSUME NEW r \in Requests PROVE Sound(r)'
    BY <1>1, <1>2, Unmoved
<1>10. QED
    BY <1>7, <1>8, <1>9

\* The staff's changes make every later answer another: nothing is said of the old data.
LEMMA StaffKeeps ==
    ASSUME AnalysisInv, NEW v, v \in Rulesets \cup {None},
           (v \in Rulesets /\ DeleteRuleset(v)) \/ ChangeCurrent(v)
    PROVE  AnalysisTypeOK' /\ StampsInv' /\ \A r \in Requests : Sound(r)'
<1>1. /\ AnalysisTypeOK /\ StampsInv /\ \A r \in Requests : Sound(r)
      /\ obs \in [Obs -> Row \cup {None}] /\ writing \in [Obs -> Row \cup {None}]
      /\ rulesets \subseteq Rulesets /\ current \in rulesets \cup {None}
    BY DEF AnalysisInv, AnalysisTypeOK
<1>2. /\ UNCHANGED <<writing, clock, request, run>> /\ clean' = [q \in Requests |-> None]
      /\ thinned' \subseteq Requests
    BY <1>1, DataFrame DEF DataStep, DeleteRuleset, ChangeCurrent, Forget
<1>3. obs' \in [Obs -> Row \cup {None}]
      /\ \A o \in Obs : /\ obs'[o] # None <=> obs[o] # None
                        /\ obs[o] # None => obs'[o].stamp = obs[o].stamp
    <2>1. CASE ChangeCurrent(v)
        BY <1>1, <2>1 DEF ChangeCurrent
    <2>2. CASE DeleteRuleset(v)
        <3> DEFINE moved(o) == [obs[o] EXCEPT !.ruleset = None]
        <3>1. \A o \in Obs : obs[o] # None =>
                  /\ moved(o) \in Row /\ moved(o) # None /\ moved(o).stamp = obs[o].stamp
            BY <1>1, AnalysisAssumption DEF Row
        <3>2. obs' = [o \in Obs |->
                  IF o \in {p \in Obs : obs[p] # None /\ obs[p].ruleset = v}
                  THEN moved(o) ELSE obs[o]]
            BY <2>2 DEF DeleteRuleset
        <3> HIDE DEF moved
        <3>3. QED
            BY <1>1, <3>1, <3>2
    <2>3. QED
        BY <2>1, <2>2
<1>4. rulesets' \subseteq Rulesets /\ current' \in rulesets' \cup {None}
    BY <1>1 DEF DeleteRuleset, ChangeCurrent
<1>5. AnalysisTypeOK'
    BY <1>1, <1>2, <1>3, <1>4 DEF AnalysisTypeOK
<1>6. StampsInv'
    BY <1>1, <1>2, <1>3 DEF StampsInv
<1>7. ASSUME NEW r \in Requests PROVE Sound(r)'
    <2>1. PICK q, x, c : q = request[r] /\ x = run[r] /\ c = clean[r]
        OBVIOUS
    <2>2. clean'[r] = None /\ \A p \in Requests : clean'[p] \in {clean[p], None}
        BY <1>2
    <2>3. QED
        BY <1>1, <1>2, <2>1, <2>2, StillSound
<1>8. QED
    BY <1>5, <1>6, <1>7

LEMMA DataKeeps == ASSUME AnalysisInv, DataStep PROVE AnalysisInv'
<1>1. AnalysisTypeOK' /\ StampsInv' /\ \A r \in Requests : Sound(r)'
    BY CommitKeeps, BeginKeeps, StaffKeeps DEF DataStep
<1>2. SamePrint'
    <2>1. /\ AnalysisTypeOK /\ SamePrint /\ UNCHANGED <<request, run>>
          /\ \A q \in Requests : clean'[q] \in {clean[q], None}
        BY DataFrame DEF AnalysisInv
    <2>2. ASSUME NEW q \in Requests, HasPrint(q)'
          PROVE  HasPrint(q) /\ PrintOf(q)' = PrintOf(q) /\ clean'[q] = clean[q]
        BY <2>1, <2>2 DEF HasPrint, PrintOf, Printed, KeptPrint
    <2>3. QED
        BY <2>1, <2>2 DEF SamePrint
<1>3. QED
    BY <1>1, <1>2 DEF AnalysisInv

-----------------------------------------------------------------------------
(* The invariant *)

LEMMA InitHolds == AnalysisInit => AnalysisInv
<1> SUFFICES ASSUME AnalysisInit PROVE AnalysisInv
    OBVIOUS
<1>1. /\ \A o \in Obs : obs[o] = None /\ writing[o] = None
      /\ \A r \in Requests : request[r] = NewRequest /\ run[r] = None /\ clean[r] = None
    BY DEF AnalysisInit
<1>2. AnalysisTypeOK
    <2>1. NewRequest \in Request
        BY DEF NewRequest, Request
    <2>2. QED
        BY <2>1, AnalysisAssumption DEF AnalysisInit, AnalysisTypeOK
<1>3. StampsInv
    BY <1>1 DEF StampsInv
<1>4. SamePrint
    BY <1>1 DEF SamePrint, HasPrint
<1>5. ASSUME NEW r \in Requests PROVE Sound(r)
    <2>1. NewRequest.step = "new" /\ NewRequest.answer = None /\ NewRequest.results = {}
        BY DEF NewRequest
    <2>2. QED
        BY <1>1, <2>1
        DEF Sound, Kept, Progressing, Finished, Snapped, Printed, Answered, Early, Computing,
            Flagging, Grouping
<1>6. QED
    BY <1>2, <1>3, <1>4, <1>5 DEF AnalysisInv

LEMMA StillHolds == ASSUME AnalysisInv, UNCHANGED analysisVars PROVE AnalysisInv'
<1>1. /\ UNCHANGED <<obs, writing, clock, rulesets, current, request, run, clean, thinned>>
      /\ AnalysisTypeOK /\ StampsInv /\ SamePrint /\ \A r \in Requests : Sound(r)
    BY DEF analysisVars, AnalysisInv
<1>2. AnalysisTypeOK' /\ StampsInv'
    BY <1>1 DEF AnalysisTypeOK, StampsInv
<1>3. SamePrint'
    BY <1>1 DEF SamePrint, HasPrint, PrintOf, Printed, KeptPrint
<1>4. ASSUME NEW r \in Requests PROVE Sound(r)'
    BY <1>1, Unmoved
<1>5. QED
    BY <1>2, <1>3, <1>4 DEF AnalysisInv

LEMMA InvHolds == AnalysisSpec => []AnalysisInv
<1>1. AnalysisInv /\ [AnalysisNext]_analysisVars => AnalysisInv'
    <2> SUFFICES ASSUME AnalysisInv, [AnalysisNext]_analysisVars PROVE AnalysisInv'
        OBVIOUS
    <2>1. CASE AnalysisNext
        <3>1. (\E r \in Requests : RequestStep(r)) \/ DataStep
            BY <2>1 DEF AnalysisNext, RequestStep, QueryStep, DataStep
        <3>2. QED
            BY <3>1, RequestKeeps, DataKeeps
    <2>2. CASE UNCHANGED analysisVars
        BY <2>2, StillHolds
    <2>3. QED
        BY <2>1, <2>2
<1>2. QED
    BY <1>1, InitHolds, PTL DEF AnalysisSpec

\* The variables have their types.
THEOREM AnalysisTyped == AnalysisSpec => []AnalysisTypeOK
<1>1. AnalysisInv => AnalysisTypeOK
    BY DEF AnalysisInv
<1>2. QED
    BY <1>1, InvHolds, PTL

\* FailedIsEmpty, for any number of requests and observations: the results are written in the
\* transaction that completes the run, and no run that is complete fails afterwards.
THEOREM UnfinishedIsEmpty == AnalysisSpec => []FailedIsEmpty
<1>1. AnalysisInv => FailedIsEmpty
    BY DEF AnalysisInv, Sound, Kept, FailedIsEmpty
<1>2. QED
    BY <1>1, InvHolds, PTL

\* ReuseIsSound, for any number of requests, observations and rulesets.  The count and the
\* maximum of the hash decide for every data that have them, not only for the few of a run.
THEOREM ReuseAnswersTheData == AnalysisSpec => []ReuseIsSound
<1>1. ASSUME AnalysisInv PROVE ReuseIsSound
    <2> SUFFICES ASSUME NEW r \in Requests, NEW q, q = request[r].answer,
                        q \notin {None, r}, clean[r] # None, clean[q] # None
                 PROVE  run[q].results = Expected(clean[r])
        BY DEF ReuseIsSound
    <2>1. request[r].answer \in Requests \cup {None}
        BY <1>1 DEF AnalysisInv, AnalysisTypeOK, Request
    <2>2. q \in Requests /\ Answered(r) /\ Finished(run[q], clean[q])
        BY <1>1, <2>1 DEF AnalysisInv, Sound
    <2>3. run[q] # None /\ run[q].status = "complete" /\ clean[r] = clean[q]
        BY <2>2 DEF Answered
    <2>4. QED
        BY <2>2, <2>3 DEF Finished
<1>2. QED
    BY <1>1, InvHolds, PTL

-----------------------------------------------------------------------------
(* The flags of a run, a second invariant *)

Later == {"floor", "commit"} \cup Grouping

\* What a set of groups has to be flagged with, ...
Deserves(S, flag) ==
    CASE flag = "lucky"    -> \E g \in S : IsLucky(g)
      [] flag = "normal"   -> \E g \in S : ~IsLucky(g)
      [] flag = "rulesets" -> \E g, h \in S : ~IsLucky(g) /\ ~IsLucky(h) /\ g.ruleset # h.ruleset

Flagged(S, known, flags) == \A flag \in known : Deserves(S, flag) => flag \in flags

\* ... what a request has read of it at a step, and of which groups.
Known(step) ==
    CASE step = "count_normal"   -> {"lucky"}
      [] step = "count_rulesets" -> {"lucky", "normal"}
      [] step \in Later          -> Flags
      [] OTHER                   -> {}

ResultGroups(results) == {x.group : x \in results}
Handled(q) == q.groups \cup ResultGroups(q.results) \cup (IF q.step \in Grouping THEN {q.group} ELSE {})

\* A request from which no row was taken still finds its groups while it reads their flags, and
\* has flagged what it read; so has its run.
Told(q) ==
    /\ q.step \in Flagging => q.groups \subseteq Groups
    /\ q.step \in Computing => Flagged(Handled(q), Known(q.step), q.flags)

ToldRun(x) ==
    x # None /\ x.status = "complete" => Flagged(ResultGroups(x.results), Flags, x.flags)

FlagsInv == \A r \in Requests : r \notin thinned => Told(request[r]) /\ ToldRun(run[r])

LEMMA FewerFlagged ==
    ASSUME NEW S, NEW T \in SUBSET S, NEW known \in SUBSET Flags, NEW flags, Flagged(S, known, flags)
    PROVE  Flagged(T, known, flags)
<1>1. ASSUME NEW flag \in known, Deserves(T, flag) PROVE Deserves(S, flag)
    <2>1. flag \in {"lucky", "normal", "rulesets"}
        BY DEF Flags
    <2>2. CASE flag = "lucky"
        BY <1>1, <2>2 DEF Deserves
    <2>3. CASE flag = "normal"
        BY <1>1, <2>3 DEF Deserves
    <2>4. CASE flag = "rulesets"
        BY <1>1, <2>4 DEF Deserves
    <2>5. QED
        BY <2>1, <2>2, <2>3, <2>4
<1>2. QED
    BY <1>1 DEF Flagged

\* The query that counts the rulesets finds two of them.
LEMMA RulesetsCounted ==
    ASSUME AnalysisTypeOK, NEW S \in SUBSET Groups, Deserves(S, "rulesets")
    PROVE  MixedRulesets
<1> DEFINE normal == {h \in Groups : ~IsLucky(h)}
           of == [g \in normal |-> g.ruleset]
           found == {g.ruleset : g \in normal}
<1>1. PICK g \in normal, h \in normal : g.ruleset # h.ruleset
    BY DEF Deserves
<1>2. IsFiniteSet(normal)
    BY InputTyped, FS_Subset
<1>3. of \in Surjection(normal, found)
    BY DEF Surjection
<1>4. g.ruleset \in found /\ h.ruleset \in found
    OBVIOUS
<1>5. MixedRulesets <=> Cardinality(found) > 1
    BY DEF MixedRulesets
<1> HIDE DEF normal, of, found
<1>6. IsFiniteSet(found)
    BY <1>2, <1>3, FS_Surjection
<1>7. PICK a, b : a = g.ruleset /\ b = h.ruleset
    OBVIOUS
<1>8. {a, b} \subseteq found /\ a # b
    BY <1>1, <1>4, <1>7
<1>9. Cardinality({a, b}) = 2
    <2>1. IsFiniteSet({a}) /\ Cardinality({a}) = 1 /\ b \notin {a} /\ {a, b} = {a} \cup {b}
        BY <1>8, FS_Singleton
    <2>2. QED
        BY <2>1, FS_AddElement
<1>10. Cardinality({a, b}) <= Cardinality(found) /\ Cardinality(found) \in Nat
    BY <1>6, <1>8, FS_Subset, FS_CardinalityType
<1>11. QED
    BY <1>5, <1>9, <1>10

LEMMA GathersTold ==
    ASSUME AnalysisTypeOK, NEW q, NEW x, Kept(q, x), NEW n, Gathers(q, n), Told(q)
    PROVE  Told(n)
<1>1. q.step \in {"lucky_groups"} \cup Flagging
    BY DEF Gathers, Flagging
<1>2. /\ q.results = {} /\ n.results = {} /\ ResultGroups({}) = {}
      /\ n.step \in {"floor"} \cup Flagging /\ n.step \notin Grouping /\ q.step \notin Grouping
    BY <1>1 DEF Kept, Gathers, Flagging, Grouping, ResultGroups
<1>3. Handled(n) = n.groups /\ Handled(q) = q.groups
    BY <1>2 DEF Handled
<1>4. /\ Known("lucky_groups") = {} /\ Known("normal_groups") = {} /\ Known("count_lucky") = {}
      /\ Known("count_normal") = {"lucky"} /\ Known("count_rulesets") = {"lucky", "normal"}
      /\ Known("floor") = {"lucky", "normal", "rulesets"}
    BY DEF Known, Later, Grouping, Flags
<1>5. \/ /\ q.step = "lucky_groups" /\ n.step = "normal_groups"
         /\ n.groups = {g \in Groups : IsLucky(g)}
      \/ /\ q.step = "normal_groups" /\ n.step = "count_lucky"
         /\ n.groups = q.groups \cup {g \in Groups : ~IsLucky(g)}
      \/ /\ q.step \in {"count_lucky", "count_normal", "count_rulesets"} /\ n.groups = q.groups
         /\ q.flags \subseteq n.flags
    BY DEF Gathers
<1>6. n.groups \subseteq Groups
    BY <1>1, <1>5 DEF Told, Flagging
<1>7. q.step \in Computing => Flagged(q.groups, Known(q.step), q.flags)
    BY <1>3 DEF Told
<1>8. CASE q.step = "count_lucky"
    <2>1. n.step = "count_normal" /\ ((\E g \in Groups : IsLucky(g)) => "lucky" \in n.flags)
        BY <1>8 DEF Gathers
    <2>2. Deserves(n.groups, "lucky") => "lucky" \in n.flags
        BY <1>6, <2>1 DEF Deserves
    <2>3. Flagged(n.groups, {"lucky"}, n.flags)
        BY <2>2 DEF Flagged
    <2>4. QED
        BY <1>3, <1>4, <1>6, <2>1, <2>3 DEF Told
<1>9. CASE q.step = "count_normal"
    <2>1. n.step = "count_rulesets" /\ ((\E g \in Groups : ~IsLucky(g)) => "normal" \in n.flags)
        BY <1>9 DEF Gathers
    <2>2. Deserves(n.groups, "normal") => "normal" \in n.flags
        BY <1>6, <2>1 DEF Deserves
    <2>3. Deserves(n.groups, "lucky") => "lucky" \in n.flags
        <3>1. q.step \in Computing /\ n.groups = q.groups /\ q.flags \subseteq n.flags
            BY <1>5, <1>9 DEF Computing, Flagging
        <3>2. Deserves(q.groups, "lucky") => "lucky" \in q.flags
            BY <1>4, <1>7, <1>9, <3>1 DEF Flagged
        <3>3. QED
            BY <3>1, <3>2
    <2>4. Flagged(n.groups, {"lucky", "normal"}, n.flags)
        BY <2>2, <2>3 DEF Flagged
    <2>5. QED
        BY <1>3, <1>4, <1>6, <2>1, <2>4 DEF Told
<1>10. CASE q.step = "count_rulesets"
    <2>1. n.step = "floor" /\ (MixedRulesets => "rulesets" \in n.flags)
        BY <1>10 DEF Gathers
    <2>2. Deserves(n.groups, "rulesets") => "rulesets" \in n.flags
        BY <1>6, <2>1, RulesetsCounted
    <2>3. /\ Deserves(n.groups, "lucky") => "lucky" \in n.flags
          /\ Deserves(n.groups, "normal") => "normal" \in n.flags
        <3>1. q.step \in Computing /\ n.groups = q.groups /\ q.flags \subseteq n.flags
            BY <1>5, <1>10 DEF Computing, Flagging
        <3>2. /\ Deserves(q.groups, "lucky") => "lucky" \in q.flags
              /\ Deserves(q.groups, "normal") => "normal" \in q.flags
            BY <1>4, <1>7, <1>10, <3>1 DEF Flagged
        <3>3. QED
            BY <3>1, <3>2
    <2>4. Flagged(n.groups, {"lucky", "normal", "rulesets"}, n.flags)
        BY <2>2, <2>3 DEF Flagged
    <2>5. QED
        BY <1>3, <1>4, <2>1, <2>4 DEF Told, Flagging
<1>11. CASE q.step \in {"lucky_groups", "normal_groups"}
    <2>1. n.step \in {"normal_groups", "count_lucky"}
        BY <1>11 DEF Gathers
    <2>2. Flagged(n.groups, Known(n.step), n.flags)
        BY <1>4, <2>1 DEF Flagged
    <2>3. QED
        BY <1>3, <1>6, <2>2 DEF Told
<1>12. QED
    BY <1>1, <1>8, <1>9, <1>10, <1>11 DEF Flagging

\* What comes after the flags handles no other groups.
LEMMA LaterTold ==
    ASSUME NEW q, NEW n, q.step \in Computing, Told(q),
           \/ Takes(q, n) \/ Drops(q, n) \/ Continues(q, n) \/ \E m \in Metrics : Adds(q, n, m)
    PROVE  Told(n)
<1>1. q.step \in Later /\ n.step \in Later /\ n.flags = q.flags
    BY DEF Takes, Drops, Continues, Adds, Later, Grouping
<1>2. n.step \notin Flagging /\ Known(q.step) = Flags /\ Known(n.step) = Flags
    BY <1>1 DEF Known, Later, Flagging, Grouping
<1>3. Handled(n) \subseteq Handled(q)
    <2>1. CASE Takes(q, n)
        <3>1. q.step \notin Grouping /\ n.results = q.results /\ n.groups \subseteq q.groups
            BY <2>1 DEF Takes, Grouping
        <3>2. n.step \in Grouping => n.group \in q.groups
            BY <2>1 DEF Takes, Grouping
        <3>3. QED
            BY <3>1, <3>2 DEF Handled
    <2>2. CASE Drops(q, n)
        <3>1. n.step \notin Grouping /\ n.results = q.results /\ n.groups = q.groups
            BY <2>2 DEF Drops, Grouping
        <3>2. QED
            BY <3>1 DEF Handled
    <2>3. CASE Continues(q, n)
        <3>1. /\ q.step \in Grouping /\ n.results = q.results /\ n.groups = q.groups
              /\ n.group = q.group
            BY <2>3 DEF Continues, Grouping
        <3>2. QED
            BY <3>1 DEF Handled
    <2>4. ASSUME NEW m \in Metrics, Adds(q, n, m) PROVE Handled(n) \subseteq Handled(q)
        <3>1. /\ q.step \in Grouping /\ n.groups = q.groups /\ (n.step \in Grouping => n.group = q.group)
              /\ n.results = q.results \cup {Finds(q, m)} /\ Finds(q, m).group = q.group
            BY <2>4 DEF Adds, Grouping, Finds
        <3>2. ResultGroups(n.results) = ResultGroups(q.results) \cup {q.group}
            BY <3>1 DEF ResultGroups
        <3>3. QED
            BY <3>1, <3>2 DEF Handled
    <2>5. QED
        BY <2>1, <2>2, <2>3, <2>4
<1>4. Flagged(Handled(q), Flags, q.flags)
    BY <1>2 DEF Told
<1>5. Flagged(Handled(n), Flags, n.flags)
    BY <1>1, <1>3, <1>4, FewerFlagged
<1>6. QED
    BY <1>2, <1>5 DEF Told

\* A write or a deletion that takes a row from a request's groups is noted in thinned.
LEMMA GroupsStay ==
    ASSUME AnalysisTypeOK, DataStep, NEW r \in Requests, request[r].step \in Flagging,
           r \notin thinned'
    PROVE  Groups \subseteq Groups'
<1>1. ASSUME NEW rows, Thin(rows) PROVE rows \cap ValidObs = {}
    BY <1>1 DEF Thin
<1>2. SUFFICES ASSUME NEW o \in ValidObs PROVE o \in ValidObs' /\ GroupOf(o)' = GroupOf(o)
    BY DEF Groups
<1>3. obs[o] # None /\ obs[o].state = "valid" /\ obs[o] \in Row /\ o \in Obs
    BY RowsTyped DEF ValidObs
<1>4. CASE obs' = obs
    BY <1>4 DEF ValidObs, GroupOf
<1>5. ASSUME NEW p \in Obs, CommitWrite(p), obs' # obs
      PROVE  o \in ValidObs' /\ GroupOf(o)' = GroupOf(o)
    <2>1. /\ obs' = [obs EXCEPT ![p] =
                 IF @ = None THEN writing[p]
                 ELSE [@ EXCEPT !.state = writing[p].state, !.stamp = writing[p].stamp]]
          /\ Thin(IF writing[p].state = "excluded" THEN {p} ELSE {}) /\ writing[p] # None
        BY <1>5 DEF CommitWrite
    <2>2. obs \in [Obs -> Row \cup {None}] /\ writing[p] \in Row
        BY <2>1 DEF AnalysisTypeOK
    <2>3. CASE o # p
        <3>1. obs'[o] = obs[o]
            BY <2>1, <2>3
        <3>2. QED
            BY <1>3, <3>1 DEF ValidObs, GroupOf
    <2>4. CASE o = p
        <3>1. writing[p].state = "valid"
            <4>1. writing[p].state # "excluded"
                BY <1>1, <2>1, <2>4
            <4>2. QED
                BY <2>2, <4>1 DEF Row
        <3>2. obs'[o] = [obs[o] EXCEPT !.state = writing[p].state, !.stamp = writing[p].stamp]
            BY <1>3, <2>1, <2>2, <2>4
        <3>3. /\ obs'[o].state = writing[p].state /\ obs'[o].kind = obs[o].kind
              /\ obs'[o].ruleset = obs[o].ruleset /\ obs'[o] \in Row
            <4>1. obs[o] \in Row /\ writing[p] \in Row
                BY <1>3, <2>2
            <4>2. QED
                BY ONLY <3>2, <4>1 DEF Row
        <3>4. QED
            BY <1>3, <3>1, <3>3, AnalysisAssumption DEF ValidObs, GroupOf
    <2>5. QED
        BY <2>3, <2>4
<1>6. ASSUME NEW v, DeleteRuleset(v) PROVE o \in ValidObs' /\ GroupOf(o)' = GroupOf(o)
    <2>1. PICK cleared : /\ cleared = {p \in Obs : obs[p] # None /\ obs[p].ruleset = v}
                         /\ Thin(cleared)
        BY <1>6 DEF DeleteRuleset
    <2>2. ~(obs[o].ruleset = v)
        BY <1>1, <1>3, <2>1
    <2>3. obs'[o] = obs[o]
        BY <1>3, <1>6, <2>2 DEF DeleteRuleset
    <2>4. QED
        BY <1>3, <2>3 DEF ValidObs, GroupOf
<1>7. ASSUME NEW v, ChangeCurrent(v) PROVE obs' = obs
    BY <1>7 DEF ChangeCurrent
<1>8. ASSUME NEW p \in Obs, NEW state \in {"valid", "excluded"}, NEW kind \in Kinds,
             BeginWrite(p, state, kind)
      PROVE  obs' = obs
    BY <1>8 DEF BeginWrite
<1>9. QED
    BY <1>4, <1>5, <1>6, <1>7, <1>8 DEF DataStep

LEMMA DataKeepsFlags ==
    ASSUME AnalysisTypeOK, FlagsInv, DataStep PROVE FlagsInv'
<1> SUFFICES ASSUME NEW r \in Requests, r \notin thinned'
             PROVE  Told(request[r])' /\ ToldRun(run[r])'
    BY DEF FlagsInv
<1>1. request' = request /\ run' = run /\ r \notin thinned
    BY DataFrame
<1>2. Told(request[r]) /\ ToldRun(run[r])
    BY <1>1 DEF FlagsInv
<1>3. PICK q, x : q = request[r] /\ x = run[r]
    OBVIOUS
<1>4. Told(q) /\ ToldRun(x) /\ request'[r] = q /\ run'[r] = x
    BY <1>1, <1>2, <1>3
<1>5. q.step \in Flagging => q.groups \subseteq Groups'
    BY <1>3, <1>4, GroupsStay DEF Told
<1>6. Told(q)'
    BY <1>4, <1>5 DEF Told, Handled
<1>7. QED
    BY <1>4, <1>6 DEF Told, ToldRun

\* A request's own step; the others' records, runs and rows stay.
LEMMA RequestKeepsFlags ==
    ASSUME AnalysisInv, FlagsInv, NEW r \in Requests, RequestStep(r) PROVE FlagsInv'
<1>1. /\ AnalysisTypeOK /\ Sound(r) /\ request \in [Requests -> Request]
      /\ run \in [Requests -> Run \cup {None}]
    BY DEF AnalysisInv, AnalysisTypeOK
<1>2. PICK q, x : q = request[r] /\ x = run[r]
    OBVIOUS
<1>3. Kept(q, x)
    BY <1>1, <1>2 DEF Sound
<1>4. obs' = obs /\ thinned' = thinned
    BY DEF RequestStep, QueryStep, TakeFingerprint, Lookup, CreateRun, BuildLuckyGroups,
           BuildNormalGroups, CountLucky, CountNormal, CountRulesets, Counts, GroupFloor,
           ResolveFloor, ReadParameters, CountHundos, CountRows, ReadStats, ReadSums,
           StoreResults, CompleteRun, FailRun, Crash, Queries, DataUnchanged
<1>5. Groups' = Groups
    BY <1>4 DEF Groups, ValidObs, GroupOf
<1>6. ASSUME NEW n, NEW y, request'[r] = n, run'[r] = y,
             \A s \in Requests \ {r} : request'[s] = request[s] /\ run'[s] = run[s],
             r \notin thinned => Told(n) /\ ToldRun(y)
      PROVE  FlagsInv'
    <2> SUFFICES ASSUME NEW s \in Requests, s \notin thinned'
                 PROVE  Told(request[s])' /\ ToldRun(run[s])'
        BY DEF FlagsInv
    <2>1. PICK m, z : m = request'[s] /\ z = run'[s]
        OBVIOUS
    <2>2. Told(m) /\ ToldRun(z)
        BY <1>4, <1>6, <2>1 DEF FlagsInv
    <2>3. Told(m)'
        BY <1>5, <2>2 DEF Told, Handled
    <2>4. QED
        BY <2>1, <2>2, <2>3 DEF Told, ToldRun
<1>7. CASE QueryStep(r)
    <2>1. PICK n : Queries /\ Moves(q, n) /\ request' = [request EXCEPT ![r] = n]
        BY <1>1, <1>2, <1>3, <1>7, QueryMoves
    <2>2. q.step \in Computing
        BY <1>2, <1>7 DEF QueryStep, BuildLuckyGroups, BuildNormalGroups, CountLucky, CountNormal,
               CountRulesets, GroupFloor, ResolveFloor, ReadParameters, CountHundos, CountRows,
               ReadStats, ReadSums, StoreResults, Is, Computing, Flagging, Grouping
    <2>3. r \notin thinned => Told(q) /\ ToldRun(x)
        BY <1>2 DEF FlagsInv
    <2>4. Told(q) => Told(n)
        BY <1>1, <1>3, <2>1, <2>2, GathersTold, LaterTold DEF Moves
    <2>5. run' = run
        BY <2>1 DEF Queries
    <2>6. /\ request'[r] = n /\ run'[r] = x
          /\ \A s \in Requests \ {r} : request'[s] = request[s] /\ run'[s] = run[s]
        BY <1>1, <1>2, <2>1, <2>5
    <2>7. QED
        BY <1>6, <2>3, <2>4, <2>6
<1>8. CASE CompleteRun(r)
    <2>1. PICK n, y :
              /\ n = [NewRequest EXCEPT !.step = "done", !.answer = r]
              /\ y = [x EXCEPT !.status = "complete", !.results = q.results, !.flags = q.flags]
        OBVIOUS
    <2>2. /\ request' = [request EXCEPT ![r] = n] /\ run' = [run EXCEPT ![r] = y]
          /\ q.step = "commit"
        BY <1>2, <1>8, <2>1 DEF CompleteRun, Ends, Is
    <2>3. n.step = "done" /\ n.step \notin Computing \cup Flagging
        BY <2>1 DEF NewRequest, Computing, Flagging, Grouping
    <2>4. x \in Run
        BY <1>1, <1>2, <1>3, <2>2 DEF Kept, Computing
    <2>5. y.results = q.results /\ y.flags = q.flags
        BY <2>1, <2>4 DEF Run
    <2>6. Told(n)
        BY <2>3 DEF Told
    <2>7. ASSUME r \notin thinned PROVE ToldRun(y)
        <3>1. Known(q.step) = Flags /\ q.step \in Computing
            BY <2>2 DEF Known, Later, Computing
        <3>2. Flagged(Handled(q), Flags, q.flags)
            BY <1>2, <2>7, <3>1 DEF FlagsInv, Told
        <3>3. ResultGroups(q.results) \in SUBSET Handled(q)
            BY DEF Handled
        <3>4. Flagged(ResultGroups(q.results), Flags, q.flags)
            BY <3>2, <3>3, FewerFlagged
        <3>5. QED
            BY <2>5, <3>4 DEF ToldRun
    <2>8. /\ request'[r] = n /\ run'[r] = y
          /\ \A s \in Requests \ {r} : request'[s] = request[s] /\ run'[s] = run[s]
        BY <1>1, <2>2
    <2>9. QED
        BY <1>6, <2>6, <2>7, <2>8
<1>9. CASE TakeFingerprint(r) \/ Lookup(r) \/ CreateRun(r) \/ FailRun(r) \/ Crash(r)
    <2>1. PICK n, y : n = request'[r] /\ y = run'[r]
        OBVIOUS
    <2>2. n.step \notin Computing \/ (n.step = "lucky_groups")
        <3>1. CASE CreateRun(r)
            BY <1>1, <2>1, <3>1 DEF CreateRun, Goes, Request
        <3>2. CASE Lookup(r)
            <4>1. request[r] \in Request
                BY <1>1
            <4>2. Goes(r, "create") \/ \E answer : Ends(r, answer)
                BY <3>2 DEF Lookup
            <4>3. CASE Goes(r, "create")
                BY <1>1, <2>1, <4>1, <4>3 DEF Goes, Request, Computing, Flagging, Grouping
            <4>4. CASE \E answer : Ends(r, answer)
                BY <1>1, <2>1, <4>4 DEF Ends, NewRequest, Computing, Flagging, Grouping
            <4>5. QED
                BY <4>2, <4>3, <4>4
        <3>3. CASE TakeFingerprint(r)
            BY <1>1, <2>1, <3>3 DEF TakeFingerprint, Request, Computing, Flagging, Grouping
        <3>4. CASE FailRun(r) \/ Crash(r)
            BY <1>1, <2>1, <3>4 DEF FailRun, Crash, Ends, NewRequest, Computing, Flagging, Grouping
        <3>5. QED
            BY <1>9, <3>1, <3>2, <3>3, <3>4
    <2>3. Told(n)
        <3>1. Known("lucky_groups") = {} /\ "lucky_groups" \notin Flagging
            BY DEF Known, Later, Flagging, Grouping
        <3>2. CASE n.step = "lucky_groups"
            BY <3>1, <3>2 DEF Told, Flagged
        <3>3. CASE n.step \notin Computing
            BY <3>3 DEF Told, Computing
        <3>4. QED
            BY <2>2, <3>2, <3>3
    <2>4. y = x \/ y = None \/ y.status # "complete"
        <3>1. CASE CreateRun(r)
            BY <1>1, <2>1, <3>1 DEF CreateRun
        <3>2. CASE FailRun(r)
            <4>1. run[r] \in Run /\ run' = [run EXCEPT ![r].status = "failed"]
                BY <1>1, <1>2, <1>3, <3>2 DEF Kept, FailRun
            <4>2. y = [run[r] EXCEPT !.status = "failed"]
                BY <1>1, <2>1, <4>1
            <4>3. QED
                BY <4>1, <4>2 DEF Run
        <3>3. CASE TakeFingerprint(r) \/ Lookup(r) \/ Crash(r)
            BY <1>2, <2>1, <3>3 DEF TakeFingerprint, Lookup, Crash, Queries
        <3>4. QED
            BY <1>9, <3>1, <3>2, <3>3
    <2>5. r \notin thinned => ToldRun(y)
        BY <1>2, <2>4 DEF FlagsInv, ToldRun
    <2>6. \A s \in Requests \ {r} : request'[s] = request[s] /\ run'[s] = run[s]
        BY <1>1, <1>9 DEF TakeFingerprint, Lookup, CreateRun, FailRun, Crash, Goes, Ends, Queries
    <2>7. QED
        BY <1>6, <2>1, <2>3, <2>5, <2>6
<1>10. QED
    BY <1>7, <1>8, <1>9 DEF RequestStep

LEMMA FlagsHold == AnalysisSpec => []FlagsInv
<1>1. AnalysisInit => FlagsInv
    <2> SUFFICES ASSUME AnalysisInit, NEW r \in Requests PROVE Told(request[r]) /\ ToldRun(run[r])
        BY DEF FlagsInv
    <2>1. request[r].step = "new" /\ run[r] = None
        BY DEF AnalysisInit, NewRequest
    <2>2. QED
        BY <2>1 DEF Told, ToldRun, Computing, Flagging, Grouping
<1>2. AnalysisInv /\ FlagsInv /\ [AnalysisNext]_analysisVars => FlagsInv'
    <2> SUFFICES ASSUME AnalysisInv, FlagsInv, [AnalysisNext]_analysisVars PROVE FlagsInv'
        OBVIOUS
    <2>1. CASE AnalysisNext
        <3>1. (\E r \in Requests : RequestStep(r)) \/ DataStep
            BY <2>1 DEF AnalysisNext, RequestStep, QueryStep, DataStep
        <3>2. QED
            BY <3>1, RequestKeepsFlags, DataKeepsFlags DEF AnalysisInv
    <2>2. CASE UNCHANGED analysisVars
        <3>1. request' = request /\ run' = run /\ obs' = obs /\ thinned' = thinned
            BY <2>2 DEF analysisVars
        <3>2. Groups' = Groups
            BY <3>1 DEF Groups, ValidObs, GroupOf
        <3>3. QED
            BY <3>1, <3>2 DEF FlagsInv, Told, ToldRun, Handled
    <2>3. QED
        BY <2>1, <2>2
<1>3. QED
    BY <1>1, <1>2, InvHolds, PTL DEF AnalysisSpec

-----------------------------------------------------------------------------
(* What evaluate says *)

\* How many of A have a lower rank.
Position(A, rank) == [i \in A |-> Cardinality({j \in A : rank[j] < rank[i]})]

\* Without ties, every place of a sorted list has its element: the positions are all different,
\* and there are as many as elements.
LEMMA PositionsAreAll ==
    ASSUME NEW A, IsFiniteSet(A), NEW rank \in [A -> Int],
           \A i, j \in A : rank[i] = rank[j] => i = j
    PROVE  /\ Cardinality(A) \in Nat
           /\ \A i \in A : Position(A, rank)[i] \in 0 .. (Cardinality(A) - 1)
           /\ \A i, j \in A : Position(A, rank)[i] = Position(A, rank)[j] => i = j
           /\ \A k \in 0 .. (Cardinality(A) - 1) : \E i \in A : Position(A, rank)[i] = k
<1> DEFINE before(i) == {j \in A : rank[j] < rank[i]}
<1>1. Cardinality(A) \in Nat
    BY FS_CardinalityType
<1>2. \A i \in A : Position(A, rank)[i] = Cardinality(before(i))
    BY DEF Position
<1>3. ASSUME NEW i \in A, NEW S \in SUBSET A, before(i) \cup {i} \subseteq S
      PROVE  /\ Cardinality(before(i)) \in Nat /\ Cardinality(S) \in Nat
             /\ Cardinality(before(i)) < Cardinality(S)
    <2>1. before(i) \in SUBSET A /\ i \notin before(i)
        OBVIOUS
    <2> HIDE DEF before
    <2>2. IsFiniteSet(before(i)) /\ IsFiniteSet(S)
        BY <2>1, FS_Subset
    <2>3. Cardinality(before(i) \cup {i}) = Cardinality(before(i)) + 1
        BY <2>1, <2>2, FS_AddElement
    <2>4. Cardinality(before(i) \cup {i}) <= Cardinality(S)
        BY <1>3, <2>2, FS_Subset
    <2>5. Cardinality(before(i)) \in Nat /\ Cardinality(S) \in Nat
        BY <2>2, FS_CardinalityType
    <2>6. QED
        BY <2>3, <2>4, <2>5
<1>4. ASSUME NEW i \in A PROVE Position(A, rank)[i] \in 0 .. (Cardinality(A) - 1)
    <2>1. A \in SUBSET A /\ before(i) \cup {i} \subseteq A
        OBVIOUS
    <2> HIDE DEF before
    <2>2. Cardinality(before(i)) \in Nat /\ Cardinality(before(i)) < Cardinality(A)
        BY <1>3, <2>1
    <2>3. QED
        BY <1>1, <1>2, <2>2
<1>5. ASSUME NEW i \in A, NEW j \in A, rank[i] < rank[j]
      PROVE  Position(A, rank)[i] < Position(A, rank)[j]
    <2>1. before(j) \in SUBSET A /\ before(i) \cup {i} \subseteq before(j)
        BY <1>5
    <2> HIDE DEF before
    <2>2. Cardinality(before(i)) < Cardinality(before(j))
        BY <1>3, <2>1
    <2>3. QED
        BY <1>2, <2>2
<1>6. ASSUME NEW i \in A, NEW j \in A, Position(A, rank)[i] = Position(A, rank)[j] PROVE i = j
    <2>1. Position(A, rank)[i] \in Int /\ rank[i] \in Int /\ rank[j] \in Int
        BY <1>1, <1>4
    <2>2. ~(rank[i] < rank[j]) /\ ~(rank[j] < rank[i])
        BY <1>5, <1>6, <2>1
    <2>3. QED
        BY <2>1, <2>2
<1>7. Position(A, rank) \in Injection(A, 0 .. (Cardinality(A) - 1))
    <2>1. Position(A, rank) = [i \in A |-> Position(A, rank)[i]]
        BY DEF Position
    <2>2. Position(A, rank) \in [A -> 0 .. (Cardinality(A) - 1)]
        BY <1>4, <2>1
    <2>3. QED
        BY <1>6, <2>2 DEF Injection, IsInjective
<1>8. /\ IsFiniteSet(0 .. (Cardinality(A) - 1))
      /\ Cardinality(0 .. (Cardinality(A) - 1)) = Cardinality(A)
    BY <1>1, FS_Interval
<1>9. Position(A, rank) \in Surjection(A, 0 .. (Cardinality(A) - 1))
    BY <1>7, <1>8, FS_Injection
<1>10. QED
    BY <1>1, <1>4, <1>6, <1>9 DEF Surjection

\* evaluate loses no rule that applies and adds none.
LEMMA SaysWhatApplies ==
    ASSUME NEW c, NEW rule
    PROVE  Says(Evaluate(c), rule) <=> \E i \in DOMAIN Rules : Rules[i] = rule /\ Applies(c, rule)
<1> DEFINE A == {i \in DOMAIN Rules : Applies(c, Rules[i])}
           rank == [i \in A |-> Rank(i)]
           n == Cardinality(A)
           at(k) == CHOOSE i \in A : Cardinality({j \in A : Rank(j) < Rank(i)}) = k - 1
<1>1. DOMAIN Rules = 1 .. 8 /\ Len(Rules) = 8
    BY DEF Rules
<1>2. IsFiniteSet(A)
    <2>1. IsFiniteSet(1 .. 8)
        <3>1. PICK m \in Nat : m = 8
            OBVIOUS
        <3>2. IsFiniteSet(1 .. m)
            BY FS_Interval
        <3>3. QED
            BY <3>1, <3>2
    <2>2. \A i \in A : i \in DOMAIN Rules
        OBVIOUS
    <2> HIDE DEF A
    <2>3. QED
        BY <1>1, <2>1, <2>2, FS_Subset
<1>3. \A i, j \in A : Rank(i) \in Int /\ (Rank(i) = Rank(j) => i = j)
    BY <1>1 DEF Rank
<1>4. rank \in [A -> Int] /\ \A i, j \in A : rank[i] = rank[j] => i = j
    BY <1>3
<1>5. \A i \in A : Position(A, rank)[i] = Cardinality({j \in A : Rank(j) < Rank(i)})
    <2> SUFFICES ASSUME NEW i \in A
                 PROVE  Position(A, rank)[i] = Cardinality({j \in A : Rank(j) < Rank(i)})
        OBVIOUS
    <2>1. {j \in A : rank[j] < rank[i]} = {j \in A : Rank(j) < Rank(i)}
        OBVIOUS
    <2> HIDE DEF rank, A
    <2>2. QED
        BY <2>1 DEF Position
<1>6. Evaluate(c) = [k \in 1 .. n |-> Rules[at(k)]]
    BY DEF Evaluate
<1>7. \A i \in A : i \in DOMAIN Rules /\ Applies(c, Rules[i])
    OBVIOUS
<1>8. \A i \in DOMAIN Rules : Applies(c, Rules[i]) => i \in A
    OBVIOUS
<1> HIDE DEF rank, A
<1>9. /\ n \in Nat
      /\ \A i \in A : Position(A, rank)[i] \in 0 .. (n - 1)
      /\ \A i, j \in A : Position(A, rank)[i] = Position(A, rank)[j] => i = j
      /\ \A k \in 0 .. (n - 1) : \E i \in A : Position(A, rank)[i] = k
    BY <1>2, <1>4, PositionsAreAll
<1>10. \A k \in 1 .. n : at(k) \in A /\ Position(A, rank)[at(k)] = k - 1
    <2> SUFFICES ASSUME NEW k \in 1 .. n PROVE at(k) \in A /\ Position(A, rank)[at(k)] = k - 1
        OBVIOUS
    <2>1. k - 1 \in 0 .. (n - 1)
        BY <1>9
    <2>2. \E i \in A : Cardinality({j \in A : Rank(j) < Rank(i)}) = k - 1
        BY <1>5, <1>9, <2>1
    <2>3. at(k) \in A /\ Cardinality({j \in A : Rank(j) < Rank(at(k))}) = k - 1
        BY <2>2
    <2> HIDE DEF at
    <2>4. QED
        BY <1>5, <2>3
<1> HIDE DEF at, n
<1>11. ASSUME Says(Evaluate(c), rule)
       PROVE  \E i \in DOMAIN Rules : Rules[i] = rule /\ Applies(c, rule)
    <2>1. PICK k \in 1 .. n : Rules[at(k)] = rule
        BY <1>6, <1>11 DEF Says
    <2>2. QED
        BY <1>7, <1>10, <2>1
<1>12. ASSUME NEW i \in DOMAIN Rules, Rules[i] = rule, Applies(c, rule)
       PROVE  Says(Evaluate(c), rule)
    <2>1. i \in A
        BY <1>8, <1>12
    <2>2. PICK k \in 1 .. n : k - 1 = Position(A, rank)[i]
        <3>1. Position(A, rank)[i] \in 0 .. (n - 1)
            BY <1>9, <2>1
        <3>2. Position(A, rank)[i] + 1 \in 1 .. n /\ (Position(A, rank)[i] + 1) - 1 = Position(A, rank)[i]
            BY <1>9, <3>1
        <3>3. QED
            BY <3>2
    <2>3. at(k) = i
        BY <1>9, <1>10, <2>1, <2>2
    <2>4. k \in DOMAIN Evaluate(c) /\ Evaluate(c)[k] = rule
        BY <1>6, <1>12, <2>3
    <2>5. QED
        BY <2>4 DEF Says
<1>13. QED
    BY <1>11, <1>12

\* What the dashboard says of a run, rule by rule.
LEMMA SaysOfRules ==
    ASSUME NEW c
    PROVE  /\ Says(Evaluate(c), "insufficient_sample") <=> ~Enough(c)
           /\ Says(Evaluate(c), "separate_lucky_and_normal") <=> c.lucky_normal
           /\ Says(Evaluate(c), "mixed_rulesets_or_periods") <=> c.rulesets
           /\ Says(Evaluate(c), "compatible_with_model") <=> (c.p >= Alpha /\ Enough(c))
           /\ Says(Evaluate(c), "model_not_demonstrated") <=> (c.p < Alpha /\ Enough(c))
<1>1. /\ DOMAIN Rules = 1 .. 8 /\ Rules[1] = "insufficient_sample"
      /\ Rules[2] = "separate_lucky_and_normal" /\ Rules[3] = "mixed_rulesets_or_periods"
      /\ Rules[4] = "compatible_with_model" /\ Rules[5] = "model_not_demonstrated"
    BY DEF Rules
<1>2. /\ Applies(c, "insufficient_sample") <=> ~Enough(c)
      /\ Applies(c, "separate_lucky_and_normal") <=> c.lucky_normal
      /\ Applies(c, "mixed_rulesets_or_periods") <=> c.rulesets
      /\ Applies(c, "compatible_with_model") <=> (c.p >= Alpha /\ Enough(c))
      /\ Applies(c, "model_not_demonstrated") <=> (c.p < Alpha /\ Enough(c))
    BY DEF Applies
<1>3. \A i \in 1 .. 5 : i \in DOMAIN Rules
    BY <1>1
<1>4. QED
    BY <1>1, <1>2, <1>3, SaysWhatApplies

\* The context of a result: its rows, the run's flags, and a p-value that reads as 1 when there
\* is none.
ContextOf(c, q, x) ==
    /\ c.lucky_normal <=> {"lucky", "normal"} \subseteq run[q].flags
    /\ c.rulesets <=> "rulesets" \in run[q].flags
    /\ c.n = Cardinality(x.rows) /\ c.p \in 0 .. 100
    /\ c.n < MinHundos => c.p = 100

\* The recommendations are those of such a context.
LEMMA RecommendationsAre ==
    ASSUME NEW q, NEW x, x.rows \in SUBSET Obs, NEW recs \in Recommendations(q, x)
    PROVE  /\ Cardinality(x.rows) \in Nat
           /\ x.rows = {} => recs = <<>> /\ Cardinality(x.rows) = 0
           /\ x.rows # {} => \E c : recs = Evaluate(c) /\ ContextOf(c, q, x)
<1>1. IsFiniteSet(x.rows)
    BY AnalysisAssumption, FS_Subset
<1>2. Cardinality(x.rows) \in Nat /\ (x.rows = {} => Cardinality(x.rows) = 0)
    BY <1>1, FS_CardinalityType, FS_EmptySet
<1>3. x.rows = {} => recs = <<>>
    BY DEF Recommendations
<1>4. ASSUME x.rows # {} PROVE \E c : recs = Evaluate(c) /\ ContextOf(c, q, x)
    <2>1. PICK payload \in HundoPayloads(x.rows) :
              recs = Evaluate(BuildContext(payload, run[q].flags))
        BY <1>4 DEF Recommendations
    <2>2. /\ payload.n = Cardinality(x.rows)
          /\ payload.tested => payload.p \in 0 .. 100
          /\ Cardinality(x.rows) < MinHundos => ~payload.tested
        BY <2>1, VerdictsAssumption DEF HundoPayloads
    <2>3. PICK c : c = BuildContext(payload, run[q].flags)
        OBVIOUS
    <2>4. c.n = payload.n /\ c.p = IF payload.tested THEN payload.p ELSE 100
        BY <2>3 DEF BuildContext
    <2>5. ContextOf(c, q, x)
        <3>1. c.n = Cardinality(x.rows) /\ c.p \in 0 .. 100 /\ (c.n < MinHundos => c.p = 100)
            BY <2>2, <2>4
        <3>2. /\ c.lucky_normal = ({"lucky", "normal"} \subseteq run[q].flags)
              /\ c.rulesets = ("rulesets" \in run[q].flags)
            BY <2>3 DEF BuildContext
        <3>3. QED
            BY <3>1, <3>2, Zenon DEF ContextOf
    <2>6. QED
        BY <2>1, <2>3, <2>5
<1>5. QED
    BY <1>2, <1>3, <1>4

\* An answer is a run that is complete, of which every result has rows there are.
LEMMA AnswersAreRuns ==
    ASSUME AnalysisInv, NEW r \in Requests, NEW q, q = request[r].answer, q # None
    PROVE  /\ q \in Requests /\ run[q] \in Run /\ run[q] # None /\ run[q].status = "complete"
           /\ Sound(q) /\ \A x \in run[q].results : x.rows \in SUBSET Obs
<1>1. /\ request[r].answer \in Requests \cup {None}
      /\ run \in [Requests -> Run \cup {None}]
      /\ \A s \in Requests : Sound(s)
    BY DEF AnalysisInv, AnalysisTypeOK, Request
<1>2. q \in Requests /\ run[q] # None /\ run[q].status = "complete"
    BY <1>1 DEF Sound, Answered
<1>3. run[q] \in Run
    BY <1>1, <1>2
<1>4. \A x \in run[q].results : x \in Result
    BY <1>3 DEF Run
<1>5. \A x \in run[q].results : x.rows \in SUBSET Obs
    BY <1>4 DEF Result
<1>6. QED
    BY <1>1, <1>2, <1>3, <1>5

\* VerdictsNeedData, whatever the minimum, the p-values and the rows.
THEOREM VerdictsHaveData == AnalysisSpec => []VerdictsNeedData
<1>1. ASSUME AnalysisInv PROVE VerdictsNeedData
    <2> DEFINE verdicts(recs) ==
            {v \in {"compatible_with_model", "model_not_demonstrated"} : Says(recs, v)}
    <2>1. ASSUME NEW r \in Requests, NEW q, q = request[r].answer, q # None,
                 NEW x \in HundoResults(q), NEW recs \in Recommendations(q, x)
          PROVE  /\ Cardinality(verdicts(recs)) = IF Cardinality(x.rows) >= MinHundos THEN 1 ELSE 0
                 /\ Says(recs, "insufficient_sample") <=>
                        (x.rows # {} /\ ~(Cardinality(x.rows) >= MinHundos))
        <3>1. x.rows \in SUBSET Obs
            BY <1>1, <2>1, AnswersAreRuns DEF HundoResults
        <3>2. MinHundos \in Nat /\ MinHundos >= 1
            BY VerdictsAssumption
        <3>3. Cardinality(x.rows) \in Nat
            BY <3>1, RecommendationsAre
        <3>4. CASE x.rows = {}
            <4>1. recs = <<>> /\ Cardinality(x.rows) = 0
                BY <3>1, <3>4, RecommendationsAre
            <4>2. \A rule : ~Says(recs, rule)
                BY <4>1 DEF Says
            <4>3. Cardinality(verdicts(recs)) = 0
                BY <4>2, FS_EmptySet
            <4> HIDE DEF verdicts
            <4>4. QED
                BY <3>2, <3>4, <4>1, <4>2, <4>3
        <3>5. CASE x.rows # {}
            <4>1. PICK c : recs = Evaluate(c) /\ ContextOf(c, q, x)
                BY <3>1, <3>5, RecommendationsAre
            <4>2. /\ Says(recs, "insufficient_sample") <=> ~(c.n >= MinHundos)
                  /\ Says(recs, "compatible_with_model") <=> (c.p >= 5 /\ c.n >= MinHundos)
                  /\ Says(recs, "model_not_demonstrated") <=> (c.p < 5 /\ c.n >= MinHundos)
                BY <4>1, SaysOfRules DEF Enough, Alpha
            <4>3. CASE c.n >= MinHundos
                <5>1. Says(recs, "compatible_with_model") <=> ~Says(recs, "model_not_demonstrated")
                    BY <4>1, <4>2, <4>3 DEF ContextOf
                <5>2. \E v : verdicts(recs) = {v}
                    <6>1. CASE Says(recs, "compatible_with_model")
                        <7>1. verdicts(recs) = {"compatible_with_model"}
                            BY <5>1, <6>1
                        <7>2. QED
                            BY <7>1
                    <6>2. CASE ~Says(recs, "compatible_with_model")
                        <7>1. verdicts(recs) = {"model_not_demonstrated"}
                            BY <5>1, <6>2
                        <7>2. QED
                            BY <7>1
                    <6>3. QED
                        BY <6>1, <6>2
                <5> HIDE DEF verdicts
                <5>3. Cardinality(verdicts(recs)) = 1
                    BY <5>2, FS_Singleton
                <5>4. QED
                    BY <3>5, <4>1, <4>2, <4>3, <5>3 DEF ContextOf
            <4>4. CASE ~(c.n >= MinHundos)
                <5>1. verdicts(recs) = {}
                    BY <4>2, <4>4
                <5> HIDE DEF verdicts
                <5>2. Cardinality(verdicts(recs)) = 0
                    BY <5>1, FS_EmptySet
                <5>3. QED
                    BY <3>5, <4>1, <4>2, <4>4, <5>2 DEF ContextOf
            <4>5. QED
                BY <4>3, <4>4
        <3>6. QED
            BY <3>4, <3>5
    <2>2. QED
        BY <2>1 DEF VerdictsNeedData
<1>2. QED
    BY <1>1, InvHolds, PTL

\* MixesAreFlagged, for any number of rulesets, friendships and requests: what a run has results
\* of was there when its flags were read, because no row of it went away and more only add.
THEOREM MixesAreSaid == AnalysisSpec => []MixesAreFlagged
<1>1. ASSUME AnalysisInv, FlagsInv PROVE MixesAreFlagged
    <2> SUFFICES ASSUME NEW r \in Requests, NEW q, q = request[r].answer, q # None, q \notin thinned,
                        NEW x \in run[q].results, NEW y \in run[q].results
                 PROVE  /\ IsLucky(x.group) /\ ~IsLucky(y.group) => Warns(q, "separate_lucky_and_normal")
                        /\ ~IsLucky(x.group) /\ ~IsLucky(y.group) /\ x.group.ruleset # y.group.ruleset
                               => Warns(q, "mixed_rulesets_or_periods")
        BY DEF MixesAreFlagged
    <2>1. /\ q \in Requests /\ run[q] # None /\ run[q].status = "complete"
          /\ \A z \in run[q].results : z.rows \in SUBSET Obs
        BY <1>1, AnswersAreRuns
    <2>2. Flagged(ResultGroups(run[q].results), Flags, run[q].flags)
        BY <1>1, <2>1 DEF FlagsInv, ToldRun
    <2>3. x.group \in ResultGroups(run[q].results) /\ y.group \in ResultGroups(run[q].results)
        BY DEF ResultGroups
    <2>4. \A z \in HundoResults(q) : \A recs \in Recommendations(q, z) :
              recs = <<>> \/ \E c : recs = Evaluate(c) /\ ContextOf(c, q, z)
        BY <2>1, RecommendationsAre DEF HundoResults
    <2>5. ASSUME IsLucky(x.group), ~IsLucky(y.group) PROVE Warns(q, "separate_lucky_and_normal")
        <3>1. {"lucky", "normal"} \subseteq run[q].flags
            <4>1. /\ Deserves(ResultGroups(run[q].results), "lucky")
                  /\ Deserves(ResultGroups(run[q].results), "normal")
                BY <2>3, <2>5 DEF Deserves
            <4>2. QED
                BY <2>2, <4>1 DEF Flagged, Flags
        <3>2. \A c, z : ContextOf(c, q, z) => Says(Evaluate(c), "separate_lucky_and_normal")
            BY <3>1, SaysOfRules DEF ContextOf
        <3>3. QED
            BY <2>4, <3>2 DEF Warns
    <2>6. ASSUME ~IsLucky(x.group), ~IsLucky(y.group), x.group.ruleset # y.group.ruleset
          PROVE  Warns(q, "mixed_rulesets_or_periods")
        <3>1. "rulesets" \in run[q].flags
            <4>1. Deserves(ResultGroups(run[q].results), "rulesets")
                BY <2>3, <2>6 DEF Deserves
            <4>2. QED
                BY <2>2, <4>1 DEF Flagged, Flags
        <3>2. \A c, z : ContextOf(c, q, z) => Says(Evaluate(c), "mixed_rulesets_or_periods")
            BY <3>1, SaysOfRules DEF ContextOf
        <3>3. QED
            BY <2>4, <3>2 DEF Warns
    <2>7. QED
        BY <2>5, <2>6
<1>2. QED
    BY <1>1, InvHolds, FlagsHold, PTL

=============================================================================
