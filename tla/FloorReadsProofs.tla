-------------------------- MODULE FloorReadsProofs --------------------------
(***************************************************************************)
(* The floors an answer was computed with can be read again, and no answer *)
(* is older than its question while no ruleset lapses, for any number of   *)
(* readers, rulesets, keys and values.  A reader resolves a ruleset, reads *)
(* its floor and, a calculation, resolves it again; the staff works in     *)
(* between, as RulesetShelf promises.                                      *)
(***************************************************************************)
EXTENDS FloorReads, TLAPS

-----------------------------------------------------------------------------
(* The inductive invariant *)

Calculating == {"lookup", "again", "compute", "store"}

\* What a reader d is and what it has in hand at each step.
Holding(d) ==
    /\ d.step \in {"ruleset", "reread"} => d.kind = "single"
    /\ d.step = "insert" => d.kind # "calculator"
    /\ d.step \in Calculating => d.kind = "calculator"
    /\ d.kind = "calculator" => d.key = ScenarioKey
    /\ d.kind = "calculator" /\ d.step \in {"resolve", "floor", "lookup", "again", "compute"} =>
           d.answer.floor = None
    /\ d.step \in {"floor"} \cup Calculating => d.version \in Versions
    /\ d.step \in {"reread", "compute", "store"} => d.answer.ruleset \in Versions

\* The floor an answer keeps was guaranteed, and a guarantee is never given a second time.
Kept(a, k) ==
    a.floor # None /\ a.ruleset # None =>
        /\ floors[a.ruleset] # None
        /\ Guaranteed(a.ruleset) => FloorOf(floors[a.ruleset], k) = a.floor

\* The answer of a single registration takes its floor and its ruleset from two readings.
KeptBy(d) == d.kind # "single" => Kept(d.answer, d.key)

\* A stored observation names a ruleset there is.
Stored(d) ==
    d.kind # "calculator" /\ d.step = "done" /\ d.answer.ruleset # None =>
        Exists(d.answer.ruleset)

\* The rulesets a request resolves come one after the other: the one in force when it
\* began, the one of its cache key, the one of its answer; none is newer than today's.
Ordered(d) ==
    ~lapsed =>
        /\ d.began <= InForce
        /\ d.version # None => d.began <= d.version /\ d.version <= InForce
        /\ d.answer.ruleset # None => d.began <= d.answer.ruleset
        /\ d.step \in {"compute", "store"} => d.version <= d.answer.ruleset

Sound(d) == Holding(d) /\ KeptBy(d) /\ Stored(d) /\ Ordered(d)

\* A cached result names its ruleset, that of its key or, without a lapse, a newer one.
SoundEntry(r, a) ==
    a.ruleset \in Versions /\ Kept(a, ScenarioKey) /\ (~lapsed => r <= a.ruleset)

\* Nobody guarantees the floors of a ruleset there never was.
AbsentUnknown == \A r \in Versions : status[r] = "absent" => floors[r] = None

ReadersSound == \A x \in Readers : Sound(reader[x])

CacheSound == \A r \in Versions : cache[r] # None => SoundEntry(r, cache[r])

ReadsInv == TypeOK /\ AbsentUnknown /\ ReadersSound /\ CacheSound

-----------------------------------------------------------------------------
(* The ruleset in force, and what is read of it *)

LEMMA NewestInForce ==
    ASSUME NEW r \in NewestActive
    PROVE  r \in Versions /\ r \in Nat /\ InForce = r
<1>1. r \in Active /\ r \in Versions /\ \A q \in NewestActive : q \in Nat /\ q <= r /\ r <= q
    BY ReadersAssumption DEF NewestActive, Active
<1>2. InForce \in NewestActive
    BY DEF InForce
<1>3. QED
    BY <1>1, <1>2

LEMMA InForceTyped == InForce \in Nat
<1>1. CASE NewestActive = {}
    BY <1>1 DEF InForce
<1>2. CASE NewestActive # {}
    BY <1>2, NewestInForce
<1>3. QED
    BY <1>1, <1>2

LEMMA ReadingsFloor ==
    ASSUME TypeOK, NEW r \in Versions, NEW k \in Keys, NEW m \in Readings(r)
    PROVE  /\ FloorOf(m, k) \in FloorValues \cup {BadValue}
           /\ Guaranteed(r) => m = floors[r] /\ FloorOf(m, k) \in FloorValues
<1>1. CASE Guaranteed(r)
    <2>1. m = floors[r] /\ m \in [Keys -> FloorValues]
        BY <1>1 DEF Readings, TypeOK, ShelfTypeOK, Guarantees, Guaranteed
    <2>2. m[k] \in FloorValues
        BY <2>1
    <2>3. QED
        BY <2>1, <2>2, ReadersAssumption DEF FloorOf
<1>2. CASE ~Guaranteed(r)
    <2>1. m[k] \in FloorValues \cup {BadValue, None}
        BY <1>2 DEF Readings
    <2>2. QED
        BY <1>2, <2>1, ReadersAssumption DEF FloorOf
<1>3. QED
    BY <1>1, <1>2

LEMMA ReadIsKept ==
    ASSUME TypeOK, NEW r \in Versions, NEW k \in Keys, NEW m \in Readings(r),
           FloorOf(m, k) # BadValue
    PROVE  /\ Read(r, FloorOf(m, k)) \in Answer /\ Read(r, FloorOf(m, k)).ruleset = r
           /\ Kept(Read(r, FloorOf(m, k)), k)
<1> DEFINE f == FloorOf(m, k)
<1>1. f \in FloorValues /\ (Guaranteed(r) => m = floors[r])
    BY ReadingsFloor
<1>2. CASE Guaranteed(r)
    <2>1. Read(r, f) = [ruleset |-> r, floor |-> f] /\ f = FloorOf(floors[r], k)
        BY <1>1, <1>2 DEF Read
    <2>2. floors[r] # None
        BY <1>2 DEF Guaranteed
    <2> HIDE DEF f
    <2>3. QED
        BY <1>1, <2>1, <2>2 DEF Answer, Kept, f
<1>3. CASE ~Guaranteed(r)
    <2>1. Read(r, f) = [ruleset |-> r, floor |-> None]
        BY <1>3 DEF Read
    <2> HIDE DEF f
    <2>2. QED
        BY <2>1 DEF Answer, Kept, f
<1>4. QED
    BY <1>2, <1>3

LEMMA ReaderTyped ==
    ASSUME TypeOK, NEW x \in Readers
    PROVE  /\ reader[x] \in Reader /\ reader[x].kind \in Kinds /\ reader[x].key \in Keys
           /\ reader[x].step \in ReaderSteps /\ reader[x].version \in Versions \cup {None}
           /\ reader[x].answer \in Answer /\ reader[x].answer.ruleset \in Versions \cup {None}
           /\ reader[x].began \in Nat
BY DEF TypeOK, Reader, Answer

-----------------------------------------------------------------------------
(* The steps of the readers *)

\* While the staff and the clock stand still.
Still == UNCHANGED <<shelfVars, window>> /\ lapsed' = (lapsed \/ InForce' < InForce)

LEMMA StillSame ==
    ASSUME Still
    PROVE  /\ UNCHANGED <<status, floors, window>> /\ InForce' = InForce
           /\ \A d : Sound(d)' <=> Sound(d)
           /\ \A r, a : SoundEntry(r, a)' <=> SoundEntry(r, a)
<1>1. UNCHANGED <<status, floors, window>>
    BY DEF Still, shelfVars
<1>2. InForce' = InForce
    BY <1>1 DEF InForce, NewestActive, Active
<1>3. ~(InForce' < InForce)
    BY <1>2, InForceTyped
<1>4. lapsed' <=> lapsed
    BY <1>3 DEF Still
<1>5. ASSUME NEW d PROVE Sound(d)' <=> Sound(d)
    BY <1>1, <1>2, <1>4 DEF Sound, Holding, KeptBy, Kept, Stored, Ordered, Guaranteed, Exists
<1>6. QED
    BY <1>1, <1>2, <1>4, <1>5 DEF SoundEntry, Kept, Guaranteed

\* A reader goes on to d.
LEMMA GoesOn ==
    ASSUME ReadsInv, Still, UNCHANGED cache, NEW x \in Readers, NEW d \in Reader, Sound(d),
           reader' = [reader EXCEPT ![x] = d]
    PROVE  ReadsInv'
<1>1. /\ reader' \in [Readers -> Reader] /\ reader'[x] = d
      /\ \A y \in Readers \ {x} : reader'[y] = reader[y]
    BY DEF ReadsInv, TypeOK
<1>2. UNCHANGED <<status, floors, window, cache>> /\ lapsed' \in BOOLEAN
    BY StillSame DEF Still, ReadsInv, TypeOK
<1>3. TypeOK' /\ AbsentUnknown'
    BY <1>1, <1>2 DEF ReadsInv, TypeOK, ShelfTypeOK, Guaranteed, AbsentUnknown
<1>4. ReadersSound'
    <2>1. ASSUME NEW y \in Readers PROVE Sound(reader'[y])
        BY <1>1 DEF ReadsInv, ReadersSound
    <2>2. QED
        BY <2>1, StillSame DEF ReadersSound
<1>5. CacheSound'
    BY <1>2, StillSame DEF ReadsInv, CacheSound
<1>6. QED
    BY <1>3, <1>4, <1>5 DEF ReadsInv

\* Without anything new in hand.
LEMMA GoesToStep ==
    ASSUME ReadsInv, Still, UNCHANGED cache, NEW x \in Readers, NEW step,
           reader' = [reader EXCEPT ![x].step = step],
           \/ step = "failed"
           \/ step = "insert" /\ reader[x].kind # "calculator"
           \/ step = "ruleset" /\ reader[x].kind = "single"
           \/ step = "again" /\ reader[x].step = "lookup"
           \/ /\ step = "done" /\ reader[x].kind # "calculator"
              /\ reader[x].answer.ruleset = None \/ Exists(reader[x].answer.ruleset)
    PROVE  ReadsInv'
<1> DEFINE d == [reader[x] EXCEPT !.step = step]
<1>1. step \in ReaderSteps
    BY DEF ReaderSteps
<1>2. reader[x] \in Reader /\ Sound(reader[x])
    BY ReaderTyped DEF ReadsInv, ReadersSound
<1>3. /\ d \in Reader /\ d.kind = reader[x].kind /\ d.key = reader[x].key /\ d.step = step
      /\ d.version = reader[x].version /\ d.answer = reader[x].answer /\ d.began = reader[x].began
    BY <1>1, <1>2 DEF Reader
<1>4. reader' = [reader EXCEPT ![x] = d]
    OBVIOUS
<1> HIDE DEF d
<1>5. Holding(d)
    BY <1>2, <1>3 DEF Sound, Holding, Calculating
<1>6. KeptBy(d) /\ Stored(d) /\ Ordered(d)
    BY <1>2, <1>3 DEF Sound, KeptBy, Stored, Ordered
<1>7. QED
    BY <1>3, <1>4, <1>5, <1>6, GoesOn DEF Sound

LEMMA StartInv ==
    ASSUME ReadsInv, Still, NEW x \in Readers, Start(x)
    PROVE  ReadsInv'
<1>1. PICK c \in Kinds, k \in Keys :
          /\ c = "calculator" => k = ScenarioKey
          /\ reader' = [reader EXCEPT ![x] =
                 [kind |-> c, key |-> k, step |-> "resolve", version |-> None,
                  answer |-> NoAnswer, began |-> InForce]]
    BY ReadersAssumption DEF Start
<1> DEFINE d == [kind |-> c, key |-> k, step |-> "resolve", version |-> None,
                 answer |-> NoAnswer, began |-> InForce]
<1>2. NoAnswer \in Answer /\ NoAnswer.floor = None /\ NoAnswer.ruleset = None
    BY DEF NoAnswer, Answer
<1>3. d \in Reader
    BY <1>2, InForceTyped DEF Reader, ReaderSteps
<1>4. Holding(d)
    BY <1>1, <1>2 DEF Holding, Calculating
<1>5. KeptBy(d) /\ Stored(d) /\ Ordered(d)
    BY <1>2, InForceTyped DEF KeptBy, Kept, Stored, Ordered
<1>6. QED
    BY <1>1, <1>3, <1>4, <1>5, GoesOn DEF Sound, Start

LEMMA ResolveInv ==
    ASSUME ReadsInv, Still, NEW x \in Readers, Resolve(x)
    PROVE  ReadsInv'
<1>1. /\ reader[x] \in Reader /\ Sound(reader[x]) /\ UNCHANGED cache /\ reader[x].kind \in Kinds
      /\ reader[x].step = "resolve"
    BY ReaderTyped DEF ReadsInv, ReadersSound, Resolve
<1>2. CASE NewestActive # {}
    <2>1. PICK r \in NewestActive :
              reader' = [reader EXCEPT ![x].version = r, ![x].step = "floor"]
        BY <1>2 DEF Resolve
    <2> DEFINE d == [reader[x] EXCEPT !.version = r, !.step = "floor"]
    <2>2. r \in Versions /\ r \in Nat /\ r = InForce
        BY NewestInForce
    <2>3. /\ d \in Reader /\ d.kind = reader[x].kind /\ d.key = reader[x].key /\ d.step = "floor"
          /\ d.version = r /\ d.answer = reader[x].answer /\ d.began = reader[x].began
        BY <1>1, <2>2 DEF Reader, ReaderSteps
    <2>4. reader' = [reader EXCEPT ![x] = d]
        BY <2>1
    <2> HIDE DEF d
    <2>5. Holding(d)
        BY <1>1, <2>2, <2>3 DEF Sound, Holding, Calculating
    <2>6. KeptBy(d) /\ Stored(d) /\ Ordered(d)
        BY <1>1, <2>2, <2>3 DEF Sound, KeptBy, Stored, Ordered
    <2>7. QED
        BY <1>1, <2>3, <2>4, <2>5, <2>6, GoesOn DEF Sound
<1>3. CASE NewestActive = {}
    <2>1. PICK step : /\ reader' = [reader EXCEPT ![x].step = step]
                      /\ \/ step = "failed"
                         \/ step = "insert" /\ reader[x].kind # "calculator"
                         \/ step = "ruleset" /\ reader[x].kind = "single"
        BY <1>1, <1>3 DEF Resolve, ToStep, Kinds
    <2>2. QED
        BY <1>1, <2>1, GoesToStep
<1>4. QED
    BY <1>2, <1>3

LEMMA ReadFloorInv ==
    ASSUME ReadsInv, Still, NEW x \in Readers, ReadFloor(x)
    PROVE  ReadsInv'
<1>1. /\ reader[x] \in Reader /\ Sound(reader[x]) /\ UNCHANGED cache /\ reader[x].kind \in Kinds
      /\ reader[x].key \in Keys /\ reader[x].version \in Versions /\ reader[x].step = "floor"
    BY ReaderTyped DEF ReadsInv, ReadersSound, ReadFloor, Sound, Holding
<1>2. PICK r \in Versions, k \in Keys : r = reader[x].version /\ k = reader[x].key
    BY <1>1
<1>3. PICK m \in Readings(r) :
          IF FloorOf(m, k) = BadValue THEN ToStep(x, "failed")
          ELSE reader' = [reader EXCEPT
                   ![x].version = IF reader[x].kind = "calculator" THEN @ ELSE None,
                   ![x].answer = IF reader[x].kind = "calculator" THEN @
                                 ELSE Read(r, FloorOf(m, k)),
                   ![x].step = CASE reader[x].kind = "calculator" -> "lookup"
                                 [] reader[x].kind = "bulk"       -> "insert"
                                 [] reader[x].kind = "single"     -> "ruleset"]
    BY <1>2 DEF ReadFloor
<1>4. CASE FloorOf(m, k) = BadValue
    BY <1>1, <1>3, <1>4, GoesToStep DEF ToStep
<1>5. CASE FloorOf(m, k) # BadValue
    <2>1. PICK a : a = Read(r, FloorOf(m, k))
        OBVIOUS
    <2>2. a \in Answer /\ a.ruleset = r /\ Kept(a, k) /\ r \in Nat /\ r # None
        BY <1>5, <2>1, ReadIsKept, ReadersAssumption DEF ReadsInv
    <2>3. CASE reader[x].kind = "calculator"
        <3> DEFINE d == [reader[x] EXCEPT !.step = "lookup"]
        <3>1. /\ d \in Reader /\ d.kind = "calculator" /\ d.key = reader[x].key /\ d.step = "lookup"
              /\ d.version = r /\ d.answer = reader[x].answer /\ d.began = reader[x].began
            BY <1>1, <1>2, <2>3 DEF Reader, ReaderSteps
        <3>2. reader' = [reader EXCEPT ![x] = d]
            BY <1>1, <1>3, <1>5, <2>3 DEF Reader
        <3> HIDE DEF d
        <3>3. Holding(d) /\ KeptBy(d) /\ Stored(d) /\ Ordered(d)
            BY <1>1, <1>2, <2>3, <3>1 DEF Sound, Holding, Calculating, KeptBy, Stored, Ordered
        <3>4. QED
            BY <1>1, <3>1, <3>2, <3>3, GoesOn DEF Sound
    <2>4. CASE reader[x].kind # "calculator"
        <3> DEFINE step == IF reader[x].kind = "bulk" THEN "insert" ELSE "ruleset"
                   d == [reader[x] EXCEPT !.version = None, !.answer = a, !.step = step]
        <3>1. /\ d \in Reader /\ d.kind = reader[x].kind /\ d.key = k /\ d.step = step
              /\ d.version = None /\ d.answer = a /\ d.began = reader[x].began
            BY <1>1, <1>2, <2>2 DEF Reader, ReaderSteps
        <3>2. reader' = [reader EXCEPT ![x] = d]
            BY <1>1, <1>3, <1>5, <2>1, <2>4 DEF Reader, Kinds
        <3> HIDE DEF d
        <3>3. Holding(d) /\ KeptBy(d) /\ Stored(d)
            BY <1>1, <1>2, <2>2, <2>4, <3>1 DEF Sound, Holding, Calculating, KeptBy, Stored, Kinds
        <3>4. Ordered(d)
            BY <1>1, <1>2, <2>2, <2>4, <3>1 DEF Sound, Ordered
        <3>5. QED
            BY <1>1, <3>1, <3>2, <3>3, <3>4, GoesOn DEF Sound
    <2>5. QED
        BY <2>3, <2>4
<1>6. QED
    BY <1>4, <1>5

LEMMA ResolveAgainInv ==
    ASSUME ReadsInv, Still, NEW x \in Readers, ResolveAgain(x)
    PROVE  ReadsInv'
<1>1. /\ reader[x] \in Reader /\ Sound(reader[x]) /\ UNCHANGED cache
      /\ reader[x].answer \in Answer /\ reader[x].kind = "single"
    BY ReaderTyped DEF ReadsInv, ReadersSound, ResolveAgain, Sound, Holding
<1>2. PICK r :
          /\ r = None \/ r \in NewestActive
          /\ reader' = [reader EXCEPT ![x].answer.ruleset = r,
                                      ![x].step = IF r = None THEN "insert" ELSE "reread"]
    BY DEF ResolveAgain
<1> DEFINE a == [reader[x].answer EXCEPT !.ruleset = r]
           step == IF r = None THEN "insert" ELSE "reread"
           d == [reader[x] EXCEPT !.answer = a, !.step = step]
<1>3. r \in Versions \cup {None} /\ (r # None => r \in Versions /\ r = InForce)
    BY <1>2, NewestInForce
<1>4. a \in Answer /\ a.ruleset = r
    BY <1>1, <1>3 DEF Answer
<1>5. reader' = [reader EXCEPT ![x] = d]
    BY <1>2
<1> HIDE DEF a
<1>6. /\ d \in Reader /\ d.kind = "single" /\ d.key = reader[x].key /\ d.step = step
      /\ d.version = reader[x].version /\ d.answer = a /\ d.began = reader[x].began
    BY <1>1, <1>4 DEF Reader, ReaderSteps
<1> HIDE DEF d
<1>7. Holding(d) /\ KeptBy(d) /\ Stored(d)
    BY <1>3, <1>4, <1>6 DEF Holding, Calculating, KeptBy, Stored
<1>8. Ordered(d)
    BY <1>1, <1>3, <1>4, <1>6 DEF Sound, Ordered
<1>9. QED
    BY <1>1, <1>5, <1>6, <1>7, <1>8, GoesOn DEF Sound

LEMMA InsertInv ==
    ASSUME ReadsInv, Still, NEW x \in Readers, ReadFloorAgain(x) \/ InsertObservation(x)
    PROVE  ReadsInv'
<1>1. Sound(reader[x]) /\ UNCHANGED cache /\ reader[x].kind \in Kinds
    BY ReaderTyped DEF ReadsInv, ReadersSound, ReadFloorAgain, InsertObservation
<1>2. CASE ReadFloorAgain(x)
    BY <1>1, <1>2, GoesToStep DEF ReadFloorAgain, ToStep, Sound, Holding
<1>3. CASE InsertObservation(x)
    <2>1. reader[x].kind # "calculator"
        BY <1>1, <1>3 DEF InsertObservation, Sound, Holding
    <2>2. \/ ToStep(x, "failed")
          \/ /\ ToStep(x, "done")
             /\ reader[x].answer.ruleset = None \/ Exists(reader[x].answer.ruleset)
        BY <1>3 DEF InsertObservation
    <2>3. QED
        BY <1>1, <1>3, <2>1, <2>2, GoesToStep DEF ToStep
<1>4. QED
    BY <1>2, <1>3

LEMMA LookupInv ==
    ASSUME ReadsInv, Still, NEW x \in Readers, Lookup(x)
    PROVE  ReadsInv'
<1>1. /\ reader[x] \in Reader /\ Sound(reader[x]) /\ UNCHANGED cache
      /\ reader[x].step = "lookup" /\ reader[x].kind = "calculator"
      /\ reader[x].key = ScenarioKey /\ reader[x].version \in Versions /\ reader[x].began \in Nat
    BY ReaderTyped DEF ReadsInv, ReadersSound, Lookup, Sound, Holding, Calculating
<1>2. PICK r \in Versions : r = reader[x].version
    BY <1>1
<1>3. CASE cache[r] # None
    <2>1. PICK a \in Answer : a = cache[r]
        BY <1>3 DEF ReadsInv, TypeOK
    <2>2. SoundEntry(r, a)
        BY <1>3, <2>1 DEF ReadsInv, CacheSound
    <2> DEFINE d == [reader[x] EXCEPT !.answer = a, !.step = "done", !.version = None]
    <2>3. /\ d \in Reader /\ d.kind = "calculator" /\ d.key = ScenarioKey /\ d.step = "done"
          /\ d.version = None /\ d.answer = a /\ d.began = reader[x].began
        BY <1>1 DEF Reader, ReaderSteps
    <2>4. reader' = [reader EXCEPT ![x] = d]
        BY <1>2, <1>3, <2>1 DEF Lookup, CacheKey
    <2> HIDE DEF d
    <2>5. Holding(d) /\ KeptBy(d) /\ Stored(d)
        BY <2>2, <2>3 DEF Holding, Calculating, KeptBy, Stored, SoundEntry
    <2>6. Ordered(d)
        <3>1. r \in Nat /\ a.ruleset \in Nat /\ r # None
            BY <2>2, ReadersAssumption DEF SoundEntry
        <3>2. ~lapsed => d.began <= r /\ r <= a.ruleset
            BY <1>1, <1>2, <2>2, <2>3, <3>1 DEF Sound, Ordered, SoundEntry
        <3>3. ~lapsed => d.began <= a.ruleset
            BY <1>1, <2>3, <3>1, <3>2
        <3>4. QED
            BY <1>1, <2>3, <3>3 DEF Sound, Ordered
    <2>7. QED
        BY <1>1, <2>3, <2>4, <2>5, <2>6, GoesOn DEF Sound
<1>4. CASE cache[r] = None
    BY <1>1, <1>2, <1>4, GoesToStep DEF Lookup, CacheKey
<1>5. QED
    BY <1>3, <1>4

LEMMA RecomputeInv ==
    ASSUME ReadsInv, Still, NEW x \in Readers, Recompute(x)
    PROVE  ReadsInv'
<1>1. /\ reader[x] \in Reader /\ Sound(reader[x]) /\ UNCHANGED cache
      /\ reader[x].kind = "calculator" /\ reader[x].key = ScenarioKey /\ reader[x].step = "again"
      /\ reader[x].version \in Versions /\ reader[x].answer \in Answer
    BY ReaderTyped DEF ReadsInv, ReadersSound, Recompute, Sound, Holding, Calculating
<1>2. CASE NewestActive = {}
    BY <1>1, <1>2, GoesToStep DEF Recompute, ToStep
<1>3. CASE NewestActive # {}
    <2>1. PICK r \in NewestActive :
              reader' = [reader EXCEPT ![x].answer.ruleset = r, ![x].step = "compute"]
        BY <1>3 DEF Recompute
    <2>2. r \in Versions /\ r \in Nat /\ r = InForce /\ r # None
        BY NewestInForce, ReadersAssumption
    <2> DEFINE a == [reader[x].answer EXCEPT !.ruleset = r]
               d == [reader[x] EXCEPT !.answer = a, !.step = "compute"]
    <2>3. a \in Answer /\ a.ruleset = r /\ a.floor = reader[x].answer.floor
        BY <1>1, <2>2 DEF Answer
    <2>4. reader' = [reader EXCEPT ![x] = d]
        BY <2>1
    <2> HIDE DEF a
    <2>5. /\ d \in Reader /\ d.kind = "calculator" /\ d.key = ScenarioKey /\ d.step = "compute"
          /\ d.version = reader[x].version /\ d.answer = a /\ d.began = reader[x].began
        BY <1>1, <2>3 DEF Reader, ReaderSteps
    <2> HIDE DEF d
    <2>6. Holding(d) /\ KeptBy(d) /\ Stored(d)
        BY <1>1, <2>2, <2>3, <2>5 DEF Sound, Holding, Calculating, KeptBy, Kept, Stored
    <2>7. Ordered(d)
        BY <1>1, <2>2, <2>3, <2>5, ReadersAssumption DEF Sound, Ordered
    <2>8. QED
        BY <1>1, <2>4, <2>5, <2>6, <2>7, GoesOn DEF Sound
<1>4. QED
    BY <1>2, <1>3

LEMMA ComputeInv ==
    ASSUME ReadsInv, Still, NEW x \in Readers, Compute(x)
    PROVE  ReadsInv'
<1>1. /\ reader[x] \in Reader /\ Sound(reader[x]) /\ UNCHANGED cache
      /\ reader[x].kind = "calculator" /\ reader[x].key = ScenarioKey /\ reader[x].step = "compute"
      /\ reader[x].version \in Versions /\ reader[x].answer.ruleset \in Versions
    BY ReaderTyped DEF ReadsInv, ReadersSound, Compute, Sound, Holding, Calculating
<1>2. PICK r \in Versions, k \in Keys : r = reader[x].answer.ruleset /\ k = ScenarioKey
    BY <1>1, ReadersAssumption
<1>3. PICK m \in Readings(r) :
          IF FloorOf(m, k) = BadValue THEN ToStep(x, "failed")
          ELSE reader' = [reader EXCEPT ![x].answer = Read(r, FloorOf(m, k)), ![x].step = "store"]
    BY <1>1, <1>2 DEF Compute, Stated
<1>4. CASE FloorOf(m, k) = BadValue
    BY <1>1, <1>3, <1>4, GoesToStep DEF ToStep
<1>5. CASE FloorOf(m, k) # BadValue
    <2>1. PICK a : a = Read(r, FloorOf(m, k))
        OBVIOUS
    <2>2. a \in Answer /\ a.ruleset = r /\ Kept(a, k)
        BY <1>5, <2>1, ReadIsKept DEF ReadsInv
    <2> DEFINE d == [reader[x] EXCEPT !.answer = a, !.step = "store"]
    <2>3. /\ d \in Reader /\ d.kind = "calculator" /\ d.key = k /\ d.step = "store"
          /\ d.version = reader[x].version /\ d.answer = a /\ d.began = reader[x].began
        BY <1>1, <1>2, <2>2 DEF Reader, ReaderSteps
    <2>4. reader' = [reader EXCEPT ![x] = d]
        BY <1>3, <1>5, <2>1
    <2> HIDE DEF d
    <2>5. Holding(d) /\ KeptBy(d) /\ Stored(d)
        BY <1>1, <1>2, <2>2, <2>3 DEF Holding, Calculating, KeptBy, Stored
    <2>6. Ordered(d)
        BY <1>1, <1>2, <2>2, <2>3 DEF Sound, Ordered
    <2>7. QED
        BY <1>1, <2>3, <2>4, <2>5, <2>6, GoesOn DEF Sound
<1>6. QED
    BY <1>4, <1>5

LEMMA StoreInv ==
    ASSUME ReadsInv, Still, NEW x \in Readers, Store(x)
    PROVE  ReadsInv'
<1>1. /\ reader[x] \in Reader /\ Sound(reader[x]) /\ reader[x].answer \in Answer
      /\ reader[x].kind = "calculator" /\ reader[x].key = ScenarioKey /\ reader[x].step = "store"
      /\ reader[x].version \in Versions /\ reader[x].answer.ruleset \in Versions
    BY ReaderTyped DEF ReadsInv, ReadersSound, Store, Sound, Holding, Calculating
<1>2. PICK r \in Versions, a \in Answer : r = reader[x].version /\ a = reader[x].answer
    BY <1>1
<1>3. SoundEntry(r, a)
    BY <1>1, <1>2 DEF Sound, KeptBy, Ordered, SoundEntry
<1>4. cache' = [cache EXCEPT ![r] = a] /\ reader' = [reader EXCEPT ![x].step = "done", ![x].version = None]
    BY <1>2 DEF Store, CacheKey
<1> DEFINE d == [reader[x] EXCEPT !.step = "done", !.version = None]
<1>5. /\ d \in Reader /\ d.kind = "calculator" /\ d.key = ScenarioKey /\ d.step = "done"
      /\ d.version = None /\ d.answer = a /\ d.began = reader[x].began
    BY <1>1, <1>2 DEF Reader, ReaderSteps
<1>6. reader' = [reader EXCEPT ![x] = d]
    BY <1>4
<1> HIDE DEF d
<1>7. Sound(d)
    BY <1>1, <1>2, <1>5 DEF Sound, Holding, Calculating, KeptBy, Stored, Ordered
<1>8. /\ reader' \in [Readers -> Reader]
      /\ \A y \in Readers : reader'[y] = reader[y] \/ reader'[y] = d
    BY <1>5, <1>6 DEF ReadsInv, TypeOK
<1>9. /\ cache' \in [Versions -> Answer \cup {None}] /\ cache'[r] = a
      /\ \A q \in Versions \ {r} : cache'[q] = cache[q]
    BY <1>4 DEF ReadsInv, TypeOK
<1>10. UNCHANGED <<status, floors, window>> /\ lapsed' \in BOOLEAN
    BY StillSame DEF Still
<1>11. TypeOK' /\ AbsentUnknown'
    BY <1>8, <1>9, <1>10 DEF ReadsInv, TypeOK, ShelfTypeOK, Guaranteed, AbsentUnknown
<1>12. ReadersSound'
    <2>1. ASSUME NEW y \in Readers PROVE Sound(reader'[y])
        BY <1>7, <1>8 DEF ReadsInv, ReadersSound
    <2>2. QED
        BY <2>1, StillSame DEF ReadersSound
<1>13. CacheSound'
    <2>1. ASSUME NEW q \in Versions, cache'[q] # None PROVE SoundEntry(q, cache'[q])
        BY <1>3, <1>9, <2>1 DEF ReadsInv, CacheSound
    <2>2. QED
        BY <2>1, StillSame DEF CacheSound
<1>14. QED
    BY <1>11, <1>12, <1>13 DEF ReadsInv

LEMMA ExpireInv ==
    ASSUME ReadsInv, Still, NEW r \in Versions, Expire(r)
    PROVE  ReadsInv'
<1>1. /\ cache' \in [Versions -> Answer \cup {None}] /\ reader' = reader
      /\ \A q \in Versions : cache'[q] # None => cache'[q] = cache[q]
    BY DEF Expire, ReadsInv, TypeOK
<1>2. UNCHANGED <<status, floors, window>> /\ lapsed' \in BOOLEAN
    BY StillSame DEF Still
<1>3. TypeOK' /\ AbsentUnknown'
    BY <1>1, <1>2 DEF ReadsInv, TypeOK, ShelfTypeOK, Guaranteed, AbsentUnknown
<1>4. ReadersSound'
    BY <1>1, StillSame DEF ReadsInv, ReadersSound
<1>5. CacheSound'
    BY <1>1, StillSame DEF ReadsInv, CacheSound
<1>6. QED
    BY <1>3, <1>4, <1>5 DEF ReadsInv

-----------------------------------------------------------------------------
(* The steps of the staff and of time *)

\* What a step of the staff may do to a ruleset.
LEMMA ShelfEffect ==
    ASSUME ReadsInv, ShelfNext
    PROVE  /\ ShelfTypeOK' /\ AbsentUnknown'
           /\ \A r \in Versions :
                  /\ status[r] # "absent" => status'[r] # "absent"
                  /\ floors[r] # None => /\ floors'[r] # None
                                         /\ Guaranteed(r)' => floors'[r] = floors[r]
<1> USE DEF ReadsInv, TypeOK, ShelfTypeOK, AbsentUnknown, Guaranteed
<1>1. Seeded \in Versions /\ None # Lost
    BY ReadersAssumption
<1>2. ASSUME NEW r \in Versions, Draft(r) PROVE ShelfTypeOK' /\ AbsentUnknown' /\ floors' = floors
    BY <1>2 DEF Draft, Becomes
<1>3. ASSUME NEW r \in Versions, Withdraw(r) PROVE ShelfTypeOK' /\ AbsentUnknown' /\ floors' = floors
    BY <1>3 DEF Withdraw, Becomes
<1>4. ASSUME NEW r \in Versions, Issue(r) \/ (Open /\ r = Seeded /\ status[r] # "deleted")
      PROVE  /\ ShelfTypeOK' /\ AbsentUnknown'
             /\ \A q \in Versions : floors[q] # None => floors'[q] = floors[q]
    <2>1. PICK f \in Guarantees \cup {None} : floors' = [floors EXCEPT ![r] = f]
        BY <1>4 DEF Issue, Open, Becomes
    <2>2. floors[r] = None /\ status' = [status EXCEPT ![r] = "published"]
        BY <1>4 DEF Issue, Open, Becomes
    <2>3. QED
        BY <2>1, <2>2
<1>5. ASSUME NEW r \in Versions, LoseGuarantee(r)
      PROVE  /\ ShelfTypeOK' /\ AbsentUnknown'
             /\ \A q \in Versions : floors'[q] = floors[q] \/ floors'[q] = Lost
    BY <1>1, <1>5 DEF LoseGuarantee
<1>6. ASSUME NEW r \in Versions, Discard(r)
      PROVE  /\ ShelfTypeOK' /\ AbsentUnknown'
             /\ \A q \in Versions : floors'[q] = floors[q] \/ floors'[q] = Lost
    <2>1. PICK f \in {floors[r], Lost} \ Guarantees : floors' = [floors EXCEPT ![r] = f]
        BY <1>6 DEF Discard
    <2>2. status' = [status EXCEPT ![r] = "deleted"]
        BY <1>6 DEF Discard, Becomes
    <2>3. f \in {None, Lost}
        BY <2>1
    <2>4. QED
        BY <2>1, <2>2, <2>3
<1>7. ASSUME NEW r \in Versions, status[r] # "absent" PROVE status'[r] # "absent"
    BY <1>1, <1>7 DEF ShelfNext, Draft, Issue, Open, Withdraw, LoseGuarantee, Discard, Becomes
<1>8. ASSUME Open, status[Seeded] = "deleted"
      PROVE  /\ ShelfTypeOK' /\ AbsentUnknown'
             /\ \A q \in Versions : floors'[q] = floors[q] \/ floors'[q] = Lost
    BY <1>1, <1>8 DEF Open, Becomes
<1>9. QED
    BY <1>1, <1>2, <1>3, <1>4, <1>5, <1>6, <1>7, <1>8 DEF ShelfNext

\* What time leaves of a reader's record.
LEMMA Ages ==
    ASSUME ReadsInv, NEW d \in Reader, Sound(d), lapsed' = (lapsed \/ InForce' < InForce),
           ShelfNext \/ UNCHANGED shelfVars
    PROVE  KeptBy(d)' /\ Ordered(d)'
<1>1. d.answer \in Answer /\ d.version \in Versions \cup {None} /\ d.began \in Nat
      /\ d.answer.ruleset \in Versions \cup {None}
    BY DEF Reader, Answer
<1>2. ASSUME NEW r \in Versions, floors[r] # None
      PROVE  floors'[r] # None /\ (Guaranteed(r)' => Guaranteed(r) /\ floors'[r] = floors[r])
    BY <1>2, ShelfEffect DEF shelfVars, Guaranteed
<1>3. KeptBy(d)'
    BY <1>1, <1>2 DEF Sound, KeptBy, Kept
<1>4. InForce \in Nat /\ InForce' \in Nat
    <2>1. (InForce \in Nat)'
        BY InForceTyped, PTL
    <2>2. QED
        BY <2>1, InForceTyped
<1>5. ~lapsed' => ~lapsed /\ ~(InForce' < InForce)
    OBVIOUS
<1>6. ~lapsed' => ~lapsed /\ InForce <= InForce'
    BY <1>4, <1>5
<1>7. Ordered(d)'
    <2>1. d.version # None => d.version \in Nat
        BY <1>1, ReadersAssumption
    <2>2. QED
        BY <1>1, <1>4, <1>6, <2>1 DEF Sound, Ordered
<1>8. QED
    BY <1>3, <1>7

LEMMA EntryAges ==
    ASSUME ReadsInv, NEW r \in Versions, NEW a \in Answer, SoundEntry(r, a),
           lapsed' = (lapsed \/ InForce' < InForce), ShelfNext \/ UNCHANGED shelfVars
    PROVE  SoundEntry(r, a)'
<1>1. ASSUME NEW q \in Versions, floors[q] # None
      PROVE  floors'[q] # None /\ (Guaranteed(q)' => Guaranteed(q) /\ floors'[q] = floors[q])
    BY <1>1, ShelfEffect DEF shelfVars, Guaranteed
<1>2. Kept(a, ScenarioKey)' /\ a.ruleset \in Versions
    BY <1>1 DEF SoundEntry, Kept
<1>3. ~lapsed' => ~lapsed
    OBVIOUS
<1>4. QED
    BY <1>2, <1>3 DEF SoundEntry

LEMMA StaffInv ==
    ASSUME ReadsInv, StaffNext, lapsed' = (lapsed \/ InForce' < InForce)
    PROVE  ReadsInv'
<1>1. ShelfNext /\ UNCHANGED cache /\ ShelfTypeOK' /\ AbsentUnknown'
    BY ShelfEffect DEF StaffNext
<1>2. window' \in [Versions -> Windows] /\ lapsed' \in BOOLEAN
    BY DEF StaffNext, ReadsInv, TypeOK, Windows
<1>3. ASSUME NEW x \in Readers
      PROVE  reader'[x] \in Reader /\ Sound(reader[x])'
    <2>1. PICK d \in Reader : d = reader[x] /\ Sound(d) /\ d.answer \in Answer
        BY ReaderTyped DEF ReadsInv, ReadersSound
    <2>2. Holding(d) /\ KeptBy(d)' /\ Ordered(d)'
        BY <1>1, <2>1, Ages DEF Sound
    <2>3. CASE /\ d.kind # "calculator" /\ d.step = "done"
               /\ d.answer.ruleset # None /\ status'[d.answer.ruleset] = "deleted"
        <3> DEFINE a == [d.answer EXCEPT !.ruleset = None]
                   e == [d EXCEPT !.answer = a]
        <3>1. reader'[x] = e
            BY <2>1, <2>3 DEF StaffNext, ForgetDeleted
        <3>2. a \in Answer /\ a.ruleset = None
            BY <2>1 DEF Answer
        <3> HIDE DEF a
        <3>3. /\ e \in Reader /\ e.kind = d.kind /\ e.key = d.key /\ e.step = d.step
              /\ e.version = d.version /\ e.answer = a /\ e.began = d.began
            BY <3>2 DEF Reader
        <3>4. PICK y \in Reader : y = e
            BY <3>3
        <3> HIDE DEF e
        <3>5. Holding(y) /\ KeptBy(y)' /\ Stored(y)'
            BY <2>2, <2>3, <3>2, <3>3, <3>4 DEF Holding, Calculating, KeptBy, Kept, Stored
        <3>6. Ordered(y)'
            BY <2>2, <2>3, <3>2, <3>3, <3>4 DEF Ordered
        <3>7. Sound(y)'
            BY <3>5, <3>6 DEF Sound, Holding
        <3>8. QED
            BY <3>1, <3>4, <3>7
    <2>4. CASE ~(/\ d.kind # "calculator" /\ d.step = "done"
                 /\ d.answer.ruleset # None /\ status'[d.answer.ruleset] = "deleted")
        <3>1. reader'[x] = d
            BY <2>1, <2>4 DEF StaffNext, ForgetDeleted
        <3>2. Stored(d)'
            <4>1. SUFFICES ASSUME d.kind # "calculator", d.step = "done", d.answer.ruleset # None
                           PROVE  Exists(d.answer.ruleset)'
                BY DEF Stored
            <4>2. d.answer.ruleset \in Versions /\ status[d.answer.ruleset] # "absent"
                BY <2>1, <4>1 DEF Answer, Sound, Stored, Exists
            <4>3. status'[d.answer.ruleset] \notin {"absent", "deleted"}
                BY <1>1, <2>4, <4>1, <4>2, ShelfEffect
            <4>4. QED
                BY <1>1, <4>2, <4>3 DEF Exists, ShelfTypeOK
        <3>3. QED
            BY <2>2, <3>1, <3>2 DEF Sound, Holding
    <2>5. QED
        BY <2>3, <2>4
<1>4. reader' \in [Readers -> Reader]
    <2>1. reader' = [x \in Readers |-> reader'[x]]
        BY DEF StaffNext, ForgetDeleted
    <2>2. QED
        BY <1>3, <2>1
<1>5. CacheSound'
    <2>1. ASSUME NEW r \in Versions, cache[r] # None PROVE SoundEntry(r, cache[r])'
        <3>1. PICK a \in Answer : a = cache[r] /\ a = cache'[r]
            BY <1>1, <2>1 DEF ReadsInv, TypeOK
        <3>2. SoundEntry(r, a)'
            BY <1>1, <2>1, <3>1, EntryAges DEF ReadsInv, CacheSound
        <3>3. QED
            BY <1>1, <3>1, <3>2
    <2>2. QED
        BY <1>1, <2>1 DEF CacheSound
<1>6. QED
    BY <1>1, <1>2, <1>3, <1>4, <1>5 DEF ReadsInv, TypeOK, ReadersSound

LEMMA RetimeInv ==
    ASSUME ReadsInv, NEW t \in Versions, Retime(t), lapsed' = (lapsed \/ InForce' < InForce)
    PROVE  ReadsInv'
<1>1. UNCHANGED shelfVars /\ UNCHANGED <<status, floors, reader, cache>>
    BY DEF Retime, shelfVars
<1>2. window' \in [Versions -> Windows] /\ lapsed' \in BOOLEAN
    BY DEF Retime, ReadsInv, TypeOK, Windows
<1>3. TypeOK' /\ AbsentUnknown'
    BY <1>1, <1>2 DEF ReadsInv, TypeOK, ShelfTypeOK, Guaranteed, AbsentUnknown
<1>4. ASSUME NEW x \in Readers PROVE Sound(reader[x])'
    <2>1. PICK d \in Reader : d = reader[x] /\ d = reader'[x] /\ Sound(d)
        BY <1>1, ReaderTyped DEF ReadsInv, ReadersSound
    <2>2. KeptBy(d)' /\ Ordered(d)' /\ Stored(d)' /\ Holding(d)
        BY <1>1, <2>1, Ages DEF Sound, Stored, Exists
    <2>3. Sound(d)'
        BY <2>2 DEF Sound, Holding
    <2>4. QED
        BY <2>1, <2>3
<1>5. CacheSound'
    <2>1. ASSUME NEW r \in Versions, cache[r] # None PROVE SoundEntry(r, cache[r])'
        <3>1. PICK a \in Answer : a = cache[r] /\ a = cache'[r]
            BY <1>1, <2>1 DEF ReadsInv, TypeOK
        <3>2. SoundEntry(r, a)'
            BY <1>1, <2>1, <3>1, EntryAges DEF ReadsInv, CacheSound
        <3>3. QED
            BY <1>1, <3>1, <3>2
    <2>2. QED
        BY <1>1, <2>1 DEF CacheSound
<1>6. QED
    BY <1>3, <1>4, <1>5 DEF ReadsInv, ReadersSound

-----------------------------------------------------------------------------
(* Every step *)

LEMMA InitInv == Init => ReadsInv
<1> SUFFICES ASSUME Init PROVE ReadsInv
    OBVIOUS
<1>1. NoAnswer \in Answer /\ NoAnswer.floor = None /\ NoAnswer.ruleset = None
    BY DEF NoAnswer, Answer
<1>2. ASSUME NEW x \in Readers
      PROVE  /\ reader[x] \in Reader /\ reader[x].kind = "single" /\ reader[x].step = "waiting"
             /\ reader[x].version = None /\ reader[x].answer = NoAnswer /\ reader[x].began = 0
    <2>1. PICK k \in Keys :
              reader[x] = [kind |-> "single", key |-> k, step |-> "waiting", version |-> None,
                           answer |-> NoAnswer, began |-> 0]
        BY DEF Init
    <2>2. QED
        BY <1>1, <2>1 DEF Reader, Kinds, ReaderSteps
<1>3. ShelfTypeOK /\ AbsentUnknown
    BY DEF Init, ShelfInit, ShelfTypeOK, AbsentUnknown, Guaranteed
<1>4. TypeOK
    BY <1>2, <1>3 DEF Init, TypeOK, Windows
<1>5. ASSUME NEW x \in Readers PROVE Sound(reader[x])
    BY <1>1, <1>2, InForceTyped DEF Sound, Holding, Calculating, KeptBy, Kept, Stored, Ordered
<1>6. CacheSound
    BY DEF Init, CacheSound
<1>7. QED
    BY <1>3, <1>4, <1>5, <1>6 DEF ReadsInv, ReadersSound

LEMMA StutterInv ==
    ASSUME ReadsInv, UNCHANGED vars
    PROVE  ReadsInv'
<1>1. UNCHANGED <<status, floors, window, reader, cache, lapsed>>
    BY DEF vars, readVars, shelfVars
<1>2. InForce' = InForce
    BY <1>1 DEF InForce, NewestActive, Active
<1>3. TypeOK' /\ AbsentUnknown'
    BY <1>1 DEF ReadsInv, TypeOK, ShelfTypeOK, Guaranteed, AbsentUnknown
<1>4. ReadersSound'
    BY <1>1, <1>2 DEF ReadsInv, ReadersSound, Sound, Holding, KeptBy, Kept, Stored, Ordered, Guaranteed, Exists
<1>5. CacheSound'
    BY <1>1 DEF ReadsInv, CacheSound, SoundEntry, Kept, Guaranteed
<1>6. QED
    BY <1>3, <1>4, <1>5 DEF ReadsInv

LEMMA NextInv == ReadsInv /\ [Next]_vars => ReadsInv'
<1> SUFFICES ASSUME ReadsInv, [Next]_vars PROVE ReadsInv'
    OBVIOUS
<1>1. ASSUME NEW x \in Readers, Start(x) \/ ReadStep(x), Still PROVE ReadsInv'
    BY <1>1, StartInv, ResolveInv, ReadFloorInv, ResolveAgainInv, InsertInv, LookupInv,
       RecomputeInv, ComputeInv, StoreInv DEF ReadStep
<1>2. ASSUME NEW r \in Versions, Expire(r), Still PROVE ReadsInv'
    BY <1>2, ExpireInv
<1>3. QED
    BY <1>1, <1>2, StaffInv, RetimeInv, StutterInv DEF Next, Still

LEMMA InvHolds == Spec => []ReadsInv
BY InitInv, NextInv, PTL DEF Spec

-----------------------------------------------------------------------------
(* Theorems *)

\* Every variable has its type: nothing a reader finds, of a deleted ruleset or one without
\* the guarantee, gets into an answer as a floor that was promised.
THEOREM ReadsTyped == Spec => []TypeOK
BY InvHolds, PTL DEF ReadsInv

\* ADR-0002: the floor of a bulk registration or of a calculation, cached or not, is the one
\* its ruleset has today, and a stored observation names a ruleset there is, although
\* resolving the ruleset and reading its floor are two queries (resolve_trade_floor).
THEOREM FloorsCanBeRead == Spec => []FloorsReproduce
<1>1. ReadsInv => FloorsReproduce
    BY DEF ReadsInv, ReadersSound, CacheSound, Sound, SoundEntry, Stored, KeptBy, Kept,
       FloorsReproduce, Reproduces
<1>2. QED
    BY <1>1, InvHolds, PTL

\* While no ruleset in force lapses, an answer is of the ruleset in force when it was asked
\* for or a newer one, although the cache key's ruleset and the result's are resolved apart
\* (compute_scenario_cached, register_observation).
THEOREM AnswersCurrent == Spec => []AnswersAreCurrent
<1>1. ReadsInv => AnswersAreCurrent
    <2> SUFFICES ASSUME ReadsInv, NEW x \in Readers, ~lapsed, reader[x].answer.ruleset # None
                 PROVE  reader[x].answer.ruleset >= reader[x].began
        BY DEF AnswersAreCurrent
    <2>1. reader[x].began <= reader[x].answer.ruleset
        BY DEF ReadsInv, ReadersSound, Sound, Ordered
    <2>2. reader[x].answer.ruleset \in Nat /\ reader[x].began \in Nat
        BY ReaderTyped, ReadersAssumption DEF ReadsInv
    <2>3. QED
        BY <2>1, <2>2
<1>2. QED
    BY <1>1, InvHolds, PTL

=============================================================================
