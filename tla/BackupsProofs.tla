---------------------------- MODULE BackupsProofs ----------------------------
(***************************************************************************)
(* The database and its files, for any number of rows, files, days and     *)
(* commands at once.                                                       *)
(* First what backup.sh and restore.sh promise: a dump as recent as the    *)
(* last success is always left, and what carries a final name is whole.    *)
(* Then what the transaction of seed.py promises: nobody ever sees a part  *)
(* of a seed, whatever is done to the same rows meanwhile.                 *)
(***************************************************************************)
EXTENDS Backups, TLAPS, FiniteSetTheorems, SequenceTheorems, FunctionTheorems

-----------------------------------------------------------------------------
(* The files: the inductive invariant, part by part *)

BackupsTypeOK ==
    /\ day \in Nat
    /\ \A f \in file : f.day \in Nat
    /\ saved # None => saved \in Nat
    /\ backup = [b \in Backups |-> backup[b]]

\* Who removes old files has published one on the same day.
PrunesInTime == \A b \in Backups : backup[b].step = "prune" => saved = day

BackupsInv == BackupsTypeOK /\ PrunesInTime /\ DumpsLast

-----------------------------------------------------------------------------
LEMMA InitHolds == Init => BackupsInv
BY DEF Init, BackupsInv, BackupsTypeOK, PrunesInTime, DumpsLast, Resting

\* A step that leaves the files and what the backups are doing.
LEMMA FilesStay ==
    ASSUME BackupsInv, UNCHANGED <<file, backup, saved, day>> PROVE BackupsInv'
BY DEF BackupsInv, BackupsTypeOK, PrunesInTime, DumpsLast

\* A backup that begins or ends removes nothing.
LEMMA BeginsOrEnds ==
    ASSUME BackupsInv, UNCHANGED <<day, file, saved>>, NEW b \in Backups, NEW new,
           new.step # "prune", backup' = [backup EXCEPT ![b] = new]
    PROVE  BackupsInv'
<1>1. /\ backup' = [c \in Backups |-> backup'[c]] /\ backup'[b] = new
      /\ \A c \in Backups : c # b => backup'[c] = backup[c]
    BY DEF BackupsInv, BackupsTypeOK
<1>2. BackupsTypeOK'
    BY <1>1 DEF BackupsInv, BackupsTypeOK
<1>3. PrunesInTime'
    BY <1>1 DEF BackupsInv, PrunesInTime
<1>4. DumpsLast'
    BY DEF BackupsInv, DumpsLast
<1>5. QED
    BY <1>2, <1>3, <1>4 DEF BackupsInv

\* mv: the new file is whole, and of this day.
LEMMA PublishKeeps ==
    ASSUME BackupsInv, NEW b \in Backups, Publish(b), UNCHANGED day PROVE BackupsInv'
<1>1. PICK new : new = DumpAs(backup[b].name, backup[b].data, TRUE)
    OBVIOUS
<1>2. new.whole = TRUE /\ new.day = day
    BY <1>1 DEF DumpAs
<1>3. file' = {f \in file : f.name # backup[b].name} \cup {new} /\ saved' = day
    BY <1>1 DEF Publish
<1>4. backup' = [c \in Backups |-> backup'[c]]
    BY DEF Publish, BackupsInv, BackupsTypeOK
<1>5. BackupsTypeOK'
    BY <1>2, <1>3, <1>4 DEF BackupsInv, BackupsTypeOK
<1>6. PrunesInTime'
    BY <1>3 DEF PrunesInTime
<1>7. DumpsLast'
    <2>1. \A f \in file' : f.whole
        BY <1>2, <1>3 DEF BackupsInv, DumpsLast
    <2>2. new \in file' /\ new.day >= saved'
        BY <1>2, <1>3 DEF BackupsInv, BackupsTypeOK
    <2>3. QED
        BY <2>1, <2>2 DEF DumpsLast
<1>8. QED
    BY <1>5, <1>6, <1>7 DEF BackupsInv

\* The retention never takes the file of the last success: that is of today.
LEMMA PruneKeeps ==
    ASSUME BackupsInv, NEW b \in Backups, Prune(b), UNCHANGED day PROVE BackupsInv'
<1>1. /\ saved = day /\ saved' = saved /\ file' = {f \in file : ~Old(f)}
      /\ backup' = [backup EXCEPT ![b] = Resting]
    BY DEF Prune, Rests, BackupsInv, PrunesInTime
<1>2. Resting.step # "prune"
    BY DEF Resting
<1>3. /\ backup' = [c \in Backups |-> backup'[c]] /\ backup'[b] = Resting
      /\ \A c \in Backups : c # b => backup'[c] = backup[c]
    BY <1>1 DEF BackupsInv, BackupsTypeOK
<1>4. BackupsTypeOK'
    BY <1>1, <1>3 DEF BackupsInv, BackupsTypeOK
<1>5. PrunesInTime'
    BY <1>1, <1>2, <1>3 DEF BackupsInv, PrunesInTime
<1>6. DumpsLast'
    <2>1. ASSUME saved # None PROVE \E f \in file' : f.day >= saved
        <3>1. PICK f \in file : f.day >= saved
            BY <2>1 DEF BackupsInv, DumpsLast
        <3>2. f.day \in Nat /\ day \in Nat /\ Retention \in Nat
            BY BackupsAssumption DEF BackupsInv, BackupsTypeOK
        <3>3. ~Old(f)
            BY <1>1, <3>1, <3>2 DEF Old
        <3>4. QED
            BY <1>1, <3>1, <3>3
    <2>2. QED
        BY <1>1, <2>1 DEF BackupsInv, DumpsLast
<1>7. QED
    BY <1>4, <1>5, <1>6 DEF BackupsInv

LEMMA StepKeeps == BackupsInv /\ [Next]_vars => BackupsInv'
<1> SUFFICES ASSUME BackupsInv, [Next]_vars PROVE BackupsInv'
    OBVIOUS
<1>1. CASE BackupStep
    <2>1. UNCHANGED day
        BY <1>1 DEF BackupStep
    <2>2. ASSUME NEW b \in Backups, NEW n \in Names, Dump(b, n) PROVE BackupsInv'
        <3>1. PICK new : /\ new = [step |-> "dumping", name |-> n, data |-> row]
                         /\ backup' = [backup EXCEPT ![b] = new] /\ UNCHANGED <<file, saved>>
            BY <2>2 DEF Dump, Begins
        <3>2. new.step # "prune"
            BY <3>1
        <3>3. QED
            BY <2>1, <3>1, <3>2, BeginsOrEnds
    <2>3. ASSUME NEW b \in Backups, Fail(b) PROVE BackupsInv'
        <3>1. Resting.step # "prune"
            BY DEF Resting
        <3>2. QED
            BY <2>1, <2>3, <3>1, BeginsOrEnds DEF Fail, Rests
    <2>4. QED
        BY <1>1, <2>1, <2>2, <2>3, PublishKeeps, PruneKeeps DEF BackupStep
<1>2. CASE NextDay
    <2>1. /\ day' = day + 1 /\ UNCHANGED <<file, backup, saved>>
          /\ \A b \in Backups : backup[b].step # "prune"
        BY <1>2 DEF NextDay
    <2>2. QED
        BY <2>1 DEF BackupsInv, BackupsTypeOK, PrunesInTime, DumpsLast
<1>3. CASE UNCHANGED <<file, backup, saved, day>>
    BY <1>3, FilesStay
<1>4. QED
    BY <1>1, <1>2, <1>3 DEF Next, Lose, Migrate, Restore, vars, backupVars

\* DumpsLast, for any number of files, backups at once and days of retention, whatever fails,
\* is killed or lost, and whatever the database holds when it is dumped.
THEOREM DumpsStay == Spec => []DumpsLast
<1>1. BackupsInv => DumpsLast
    BY DEF BackupsInv
<1>2. QED
    BY <1>1, InitHolds, StepKeeps, PTL DEF Spec

-----------------------------------------------------------------------------
(* The tasks of a seed, listed *)

\* The tasks that there are.
Kinds == {"site", "mechanic", "ruleset", "source", "claim", "current", "page", "text", "commit"}
AnyTask == [kind : Kinds, about : Keys \cup Titles \cup Scopes]

\* The members of S in some order.
Covers(list, n, S) ==
    /\ n \in Nat /\ DOMAIN list = 1 .. n /\ Len(list) = n
    /\ \A i \in 1 .. n : list[i] \in S
    /\ \A s \in S : \E i \in 1 .. n : list[i] = s

\* SetToSeq gives every member of a finite set a place.
LEMMA SetsAreListed ==
    ASSUME NEW S, IsFiniteSet(S)
    PROVE  Covers(SetToSeq(S), Cardinality(S), S)
<1>1. PICK n : n = Cardinality(S)
    OBVIOUS
<1>2. n \in Nat /\ ExistsBijection(1 .. n, S)
    BY <1>1, FS_CardinalityType
<1>3. \E f \in [1 .. n -> S] : IsInjective(f)
    BY <1>2 DEF ExistsBijection, Bijection, Injection
<1>4. PICK list : list = SetToSeq(S)
    OBVIOUS
<1>5. list \in [1 .. n -> S] /\ IsInjective(list)
    BY <1>1, <1>3, <1>4 DEF SetToSeq
<1>6. list \in Injection(1 .. n, S)
    BY <1>5 DEF Injection
<1>7. Cardinality(1 .. n) = n
    <2>1. 1 \in Int /\ n \in Int
        BY <1>2
    <2>2. Cardinality(1 .. n) = IF 1 > n THEN 0 ELSE n - 1 + 1
        BY <2>1, FS_Interval
    <2>3. QED
        BY <1>2, <2>2
<1>8. list \in Surjection(1 .. n, S)
    BY <1>1, <1>6, <1>7, FS_Injection
<1>9. \A s \in S : \E i \in 1 .. n : list[i] = s
    BY <1>8 DEF Surjection
<1>10. Len(list) = n
    BY <1>2, <1>5
<1>11. QED
    BY <1>1, <1>2, <1>4, <1>5, <1>9, <1>10 DEF Covers

\* One task of the kind for each.
Lists(list, n, kind, abouts) ==
    /\ n \in Nat /\ list \in Seq(AnyTask) /\ Len(list) = n
    /\ \A i \in 1 .. n : list[i].kind = kind /\ list[i].about \in abouts
    /\ \A a \in abouts : \E i \in 1 .. n : list[i].kind = kind /\ list[i].about = a

\* Tasks(kind, abouts) has one task for each.
LEMMA TasksAreListed ==
    ASSUME NEW kind \in Kinds, NEW abouts, IsFiniteSet(abouts),
           abouts \subseteq Keys \cup Titles \cup Scopes
    PROVE  \E n : Lists(Tasks(kind, abouts), n, kind, abouts)
<1>1. PICK order, n : order = SetToSeq(abouts) /\ Covers(order, n, abouts)
    BY SetsAreListed
<1>2. PICK list : list = Tasks(kind, abouts)
    OBVIOUS
<1>3. list = [i \in 1 .. n |-> [kind |-> kind, about |-> order[i]]]
    BY <1>1, <1>2 DEF Tasks, Task, Covers
<1>4. \A i \in 1 .. n : list[i] \in AnyTask
    BY <1>1, <1>3 DEF Covers, AnyTask
<1>5. list \in [1 .. n -> AnyTask] /\ n \in Nat
    BY <1>1, <1>3, <1>4 DEF Covers
<1>6. list \in Seq(AnyTask) /\ Len(list) = n
    BY <1>5
<1>7. QED
    BY <1>1, <1>2, <1>3, <1>5, <1>6 DEF Lists, Covers

\* The pages, and each of their translations.
PagesListed(list, n, slugs) ==
    /\ n \in Nat /\ list \in Seq(AnyTask) /\ Len(list) = n
    /\ \A i \in 1 .. n : \/ list[i].kind = "page" /\ list[i].about \in slugs
                         \/ list[i].kind = "text" /\ list[i].about \in slugs \X Locales
    /\ \A slug \in slugs : \E i \in 1 .. n : list[i].kind = "page" /\ list[i].about = slug
    /\ \A text \in slugs \X Locales :
          \E i \in 1 .. n : list[i].kind = "text" /\ list[i].about = text

\* Where a translation stands in the list of the pages: behind its page, by its locale.
LEMMA PlaceOfText ==
    ASSUME NEW m \in Nat, NEW width \in Nat \ {0},
           NEW i \in 1 .. m, NEW j \in 0 .. width - 1
    PROVE  LET at == (i - 1) * width + j + 1 IN
           /\ at \in 1 .. m * width
           /\ 1 + (at - 1) \div width = i /\ (at - 1) % width = j
<1>1. PICK a \in Nat : a = i - 1 /\ a + 1 <= m
    OBVIOUS
<1>2. a * width \in Nat /\ (a + 1) * width <= m * width /\ (a + 1) * width = a * width + width
    BY <1>1
<1>3. (a * width + j) \div width = a /\ (a * width + j) % width = j
    BY <1>2
<1>4. QED
    BY <1>1, <1>2, <1>3

\* And what stands at a place that is not a page's.
LEMMA PlaceIsOfText ==
    ASSUME NEW m \in Nat, NEW width \in Nat \ {0}, NEW at \in 1 .. m * width
    PROVE  1 + (at - 1) \div width \in 1 .. m /\ (at - 1) % width \in 0 .. width - 1
<1>1. PICK a \in Nat : a = at - 1 /\ a < m * width
    OBVIOUS
<1>2. PICK q \in Int, r \in Int : q = a \div width /\ r = a % width
    BY <1>1
<1>3. r \in 0 .. width - 1 /\ a = q * width + r /\ q \in Nat
    BY <1>2
<1>4. q < m
    <2> SUFFICES ASSUME q >= m PROVE FALSE
        BY <1>2
    <2>1. q * width >= m * width
        BY <1>3
    <2>2. QED
        BY <1>1, <1>3, <2>1
<1>5. QED
    BY <1>1, <1>2, <1>3, <1>4

\* seed_content's list: every page and every translation, and nothing else.
LEMMA PagesAreListed ==
    ASSUME NEW slugs \in SUBSET Slugs, IsFiniteSet(slugs)
    PROVE  /\ \E n : PagesListed(PageTasks(slugs), n, slugs)
           /\ slugs # {} => Len(PageTasks(slugs)) > 0
<1>1. PICK pages, m : pages = SetToSeq(slugs) /\ Covers(pages, m, slugs)
    BY SetsAreListed
<1>2. PICK locales, k : locales = SetToSeq(Locales) /\ Covers(locales, k, Locales)
    <2>1. IsFiniteSet(Locales)
        BY SeedAssumption
    <2>2. QED
        BY <2>1, SetsAreListed
<1>3. m \in Nat /\ k \in Nat
    BY <1>1, <1>2 DEF Covers
<1>4. PICK width \in Nat \ {0} : width = 1 + k
    BY <1>3
<1>5. PICK n \in Nat : n = m * width
    BY <1>3, <1>4
<1>6. PICK list : list = PageTasks(slugs)
    OBVIOUS
<1>7. list = [i \in 1 .. n |->
          IF (i - 1) % width = 0
          THEN [kind |-> "page", about |-> pages[1 + (i - 1) \div width]]
          ELSE [kind |-> "text", about |-> <<pages[1 + (i - 1) \div width], locales[(i - 1) % width]>>]]
    BY <1>1, <1>2, <1>4, <1>5, <1>6 DEF PageTasks, Task, Covers
<1>8. ASSUME NEW i \in 1 .. n
      PROVE  /\ \/ list[i].kind = "page" /\ list[i].about \in slugs
                \/ list[i].kind = "text" /\ list[i].about \in slugs \X Locales
             /\ list[i] \in AnyTask
    <2>1. PICK q, r : q = 1 + (i - 1) \div width /\ r = (i - 1) % width
        OBVIOUS
    <2>2. q \in 1 .. m /\ r \in 0 .. k
        BY <1>3, <1>4, <1>5, <2>1, PlaceIsOfText
    <2>3. pages[q] \in slugs /\ pages[q] \in Slugs
        BY <1>1, <2>2 DEF Covers
    <2>4. CASE r = 0
        <3>1. list[i] = [kind |-> "page", about |-> pages[q]]
            BY <1>7, <2>1, <2>4
        <3>2. QED
            BY <2>3, <3>1 DEF AnyTask, Kinds, Keys
    <2>5. CASE r # 0
        <3>1. list[i] = [kind |-> "text", about |-> <<pages[q], locales[r]>>]
            BY <1>7, <2>1, <2>5
        <3>2. locales[r] \in Locales
            BY <1>2, <2>2, <2>5 DEF Covers
        <3>3. <<pages[q], locales[r]>> \in slugs \X Locales
            BY <2>3, <3>2
        <3>4. <<pages[q], locales[r]>> \in Texts
            BY <2>3, <3>2 DEF Texts
        <3>5. QED
            BY <3>1, <3>3, <3>4 DEF AnyTask, Kinds, Keys
    <2>6. QED
        BY <2>4, <2>5
<1>9. ASSUME NEW slug \in slugs
      PROVE  \E i \in 1 .. n : list[i].kind = "page" /\ list[i].about = slug
    <2>1. PICK q \in 1 .. m : pages[q] = slug
        BY <1>1 DEF Covers
    <2>2. PICK at : at = (q - 1) * width + 0 + 1
        OBVIOUS
    <2>3. at \in 1 .. n /\ 1 + (at - 1) \div width = q /\ (at - 1) % width = 0
        BY <1>3, <1>5, <2>2, PlaceOfText
    <2>4. list[at] = [kind |-> "page", about |-> slug]
        BY <1>7, <2>1, <2>3
    <2>5. QED
        BY <2>3, <2>4
<1>10. ASSUME NEW text \in slugs \X Locales
       PROVE  \E i \in 1 .. n : list[i].kind = "text" /\ list[i].about = text
    <2>1. PICK slug \in slugs, locale \in Locales : text = <<slug, locale>>
        OBVIOUS
    <2>2. PICK q \in 1 .. m : pages[q] = slug
        BY <1>1 DEF Covers
    <2>3. PICK r \in 1 .. k : locales[r] = locale
        BY <1>2 DEF Covers
    <2>4. PICK at : at = (q - 1) * width + r + 1
        OBVIOUS
    <2>5. at \in 1 .. n /\ 1 + (at - 1) \div width = q /\ (at - 1) % width = r
        BY <1>3, <1>4, <1>5, <2>4, PlaceOfText
    <2>6. list[at] = [kind |-> "text", about |-> <<slug, locale>>]
        BY <1>7, <2>2, <2>3, <2>5
    <2>7. QED
        BY <2>1, <2>5, <2>6
<1>11. list \in Seq(AnyTask) /\ Len(list) = n
    <2>1. list \in [1 .. n -> AnyTask]
        BY <1>7, <1>8
    <2>2. QED
        BY <1>5, <2>1
<1>12. slugs # {} => n > 0
    BY <1>9
<1>13. QED
    BY <1>6, <1>8, <1>9, <1>10, <1>11, <1>12 DEF PagesListed

-----------------------------------------------------------------------------
(* Their order *)

\* list is first and then second.
Glued(list, first, second) ==
    /\ list \in Seq(AnyTask) /\ Len(list) = Len(first) + Len(second)
    /\ \A i \in 1 .. Len(first) : list[i] = first[i]
    /\ \A i \in 1 .. Len(second) : list[Len(first) + i] = second[i]
    /\ \A i \in 1 .. Len(list) : i <= Len(first) \/ \E j \in 1 .. Len(second) : i = Len(first) + j

\* What concatenation does to two lists of tasks.
LEMMA ConcatGlues ==
    ASSUME NEW first \in Seq(AnyTask), NEW second \in Seq(AnyTask),
           NEW list, list = first \o second
    PROVE  Glued(list, first, second)
<1>1. list = first \o second
    OBVIOUS
<1>2. list \in Seq(AnyTask) /\ Len(list) = Len(first) + Len(second)
      /\ Len(first) \in Nat /\ Len(second) \in Nat
    BY <1>1
<1>3. \A i \in 1 .. Len(list) :
          list[i] = IF i <= Len(first) THEN first[i] ELSE second[i - Len(first)]
    BY <1>1
<1>4. \A i \in 1 .. Len(first) : list[i] = first[i]
    BY <1>2, <1>3
<1>5. ASSUME NEW i \in 1 .. Len(second) PROVE list[Len(first) + i] = second[i]
    <2>1. PICK at : at = Len(first) + i /\ at \in 1 .. Len(list)
        BY <1>2
    <2>2. ~(at <= Len(first)) /\ at - Len(first) = i
        BY <1>2, <2>1
    <2>3. list[at] = second[at - Len(first)]
        BY <1>3, <2>1, <2>2
    <2>4. QED
        BY <2>1, <2>2, <2>3
<1>6. ASSUME NEW i \in 1 .. Len(list), ~(i <= Len(first))
      PROVE  \E j \in 1 .. Len(second) : i = Len(first) + j
    <2>1. i - Len(first) \in 1 .. Len(second) /\ i = Len(first) + (i - Len(first))
        BY <1>2, <1>6
    <2>2. QED
        BY <2>1
<1>7. QED
    BY <1>2, <1>4, <1>5, <1>6 DEF Glued

\* What is in the first list is in both.
LEMMA FirstStays ==
    ASSUME NEW list, NEW first, NEW second \in Seq(AnyTask), Glued(list, first, second),
           first \in Seq(AnyTask), NEW i \in 1 .. Len(first)
    PROVE  i \in 1 .. Len(list) /\ list[i] = first[i]
<1>1. Len(first) \in Nat /\ Len(second) \in Nat
    OBVIOUS
<1>2. QED
    BY <1>1 DEF Glued

\* What is in the second list is in both.
LEMMA SecondFollows ==
    ASSUME NEW list, NEW first, NEW second \in Seq(AnyTask), Glued(list, first, second),
           first \in Seq(AnyTask), NEW i \in 1 .. Len(second)
    PROVE  Len(first) + i \in 1 .. Len(list) /\ list[Len(first) + i] = second[i]
<1>1. Len(first) \in Nat /\ Len(second) \in Nat
    OBVIOUS
<1>2. QED
    BY <1>1 DEF Glued

\* What a task is about.
Rightly(task) ==
    /\ task.kind \in Kinds
    /\ task.kind = "source" => task.about \in Titles
    /\ task.kind = "claim" => task.about \in Scopes
    /\ task.kind = "page" => task.about \in Slugs
    /\ task.kind = "text" => task.about \in Texts

\* The list has a task of the kind, about this.
IsIn(list, kind, about) ==
    \E i \in 1 .. Len(list) : list[i].kind = kind /\ list[i].about = about

\* The order that the seed relies on, and that nothing is left out.
InOrder(list) ==
    /\ list \in Seq(AnyTask) /\ Len(list) \in Nat /\ Len(list) > 4
    /\ list[1].kind = "site" /\ list[2].kind = "mechanic" /\ list[3].kind = "ruleset"
    /\ list[Len(list)].kind = "commit"
    /\ \A i \in 1 .. Len(list) :
          /\ Rightly(list[i])
          /\ list[i].kind = "site" => i = 1
          /\ list[i].kind = "mechanic" => i = 2
          /\ list[i].kind = "ruleset" => i = 3
          /\ list[i].kind = "commit" => i = Len(list)

\* Everything that the seed is to write has its task.
NothingIsLeftOut(list) ==
    /\ \A t \in Titles : IsIn(list, "source", t)
    /\ \A x \in Scopes : IsIn(list, "claim", x)
    /\ IsIn(list, "current", Mechanic)
    /\ \A slug \in Slugs : IsIn(list, "page", slug)
    /\ \A text \in Texts : IsIn(list, "text", text)

\* A claim's task comes when every source has been saved.
SourcesFirst(list) ==
    \A i \in 1 .. Len(list) : list[i].kind = "claim" =>
        \A t \in Titles : \E j \in 1 .. i - 1 : list[j].kind = "source" /\ list[j].about = t

\* A list of one task.
One(kind, about) == <<[kind |-> kind, about |-> about]>>

\* It has its task, and no other.
LEMMA OneIs ==
    ASSUME NEW kind \in Kinds, NEW about \in Keys
    PROVE  /\ One(kind, about) \in Seq(AnyTask) /\ Len(One(kind, about)) = 1
           /\ One(kind, about)[1].kind = kind /\ One(kind, about)[1].about = about
BY DEF One, AnyTask

\* Going on with a list: what is in it stays in its place.
Starts(list, before) ==
    /\ list \in Seq(AnyTask) /\ Len(before) \in Nat /\ Len(list) \in Nat
    /\ Len(before) <= Len(list) /\ \A i \in 1 .. Len(before) : list[i] = before[i]

\* seed.py's order: the Site, the mechanic, the ruleset, the sources, the claims, the current
\* ruleset, the pages, and the commit last.
LEMMA SeedTasksAre ==
    InOrder(SeedTasks) /\ NothingIsLeftOut(SeedTasks) /\ SourcesFirst(SeedTasks)
<1>1. PICK head :
          /\ head = <<[kind |-> "site", about |-> Site], [kind |-> "mechanic", about |-> Mechanic],
                      [kind |-> "ruleset", about |-> Mechanic]>>
          /\ head \in Seq(AnyTask) /\ Len(head) = 3
    <2>1. [kind |-> "site", about |-> Site] \in AnyTask
          /\ [kind |-> "mechanic", about |-> Mechanic] \in AnyTask
          /\ [kind |-> "ruleset", about |-> Mechanic] \in AnyTask
        BY DEF AnyTask, Kinds, Keys
    <2>2. PICK head : head =
              <<[kind |-> "site", about |-> Site], [kind |-> "mechanic", about |-> Mechanic],
                [kind |-> "ruleset", about |-> Mechanic]>>
        OBVIOUS
    <2>3. DOMAIN head = 1 .. 3 /\ \A i \in 1 .. 3 : head[i] \in AnyTask
        BY <2>1, <2>2
    <2>4. Len(head) = 3 /\ head \in Seq(AnyTask)
        BY <2>2, <2>3
    <2>5. QED
        BY <2>2, <2>4
<1>2. head[1].kind = "site" /\ head[2].kind = "mechanic" /\ head[3].kind = "ruleset"
    BY <1>1
<1>3. PICK sources, m : sources = SourceTasks /\ Lists(sources, m, "source", Titles)
    <2>1. IsFiniteSet(Titles) /\ "source" \in Kinds
        BY SeedAssumption DEF Kinds
    <2>2. QED
        BY <2>1, TasksAreListed DEF SourceTasks
<1>4. PICK claims, n : claims = ClaimTasks /\ Lists(claims, n, "claim", Scopes)
    <2>1. IsFiniteSet(Scopes) /\ "claim" \in Kinds
        BY SeedAssumption DEF Kinds
    <2>2. QED
        BY <2>1, TasksAreListed DEF ClaimTasks
<1>5. PICK current : current = One("current", Mechanic) /\ current \in Seq(AnyTask)
                     /\ Len(current) = 1 /\ current[1].kind = "current"
                     /\ current[1].about = Mechanic
    <2>1. "current" \in Kinds /\ Mechanic \in Keys
        BY DEF Kinds, Keys
    <2>2. QED
        BY <2>1, OneIs
<1>6. PICK pages, k : pages = PageTasks(SeedSlugs) /\ PagesListed(pages, k, SeedSlugs)
    <2>1. IsFiniteSet(SeedSlugs) /\ SeedSlugs \in SUBSET Slugs
        BY SeedAssumption DEF Slugs
    <2>2. QED
        BY <2>1, PagesAreListed
<1>7. PICK content, l : content = ContentTasks /\ PagesListed(content, l, ContentSlugs)
    <2>1. IsFiniteSet(ContentSlugs) /\ ContentSlugs \in SUBSET Slugs
        BY SeedAssumption DEF Slugs
    <2>2. QED
        BY <2>1, PagesAreListed DEF ContentTasks
<1>8. PICK end : end = One("commit", Site) /\ end \in Seq(AnyTask)
                 /\ Len(end) = 1 /\ end[1].kind = "commit"
    <2>1. "commit" \in Kinds /\ Site \in Keys
        BY DEF Kinds, Keys
    <2>2. QED
        BY <2>1, OneIs
<1>9. PICK a, b, c, d, e, f :
          /\ a = head \o sources /\ b = a \o claims /\ c = b \o current /\ d = c \o pages
          /\ e = d \o content /\ f = e \o end
    OBVIOUS
<1>10. SeedTasks = f
    BY <1>1, <1>3, <1>4, <1>5, <1>6, <1>7, <1>8, <1>9 DEF SeedTasks, Task, One
<1>11. sources \in Seq(AnyTask) /\ Len(sources) = m /\ m \in Nat
       /\ claims \in Seq(AnyTask) /\ Len(claims) = n /\ n \in Nat
       /\ pages \in Seq(AnyTask) /\ Len(pages) = k /\ k \in Nat
       /\ content \in Seq(AnyTask) /\ Len(content) = l /\ l \in Nat
    BY <1>3, <1>4, <1>6, <1>7 DEF Lists, PagesListed
<1>12. Glued(a, head, sources) /\ Len(a) = 3 + m /\ a \in Seq(AnyTask)
    <2>1. head \in Seq(AnyTask) /\ sources \in Seq(AnyTask) /\ a = head \o sources
        BY <1>1, <1>5, <1>8, <1>9, <1>11, <1>1
    <2>2. Glued(a, head, sources)
        BY ONLY <2>1, ConcatGlues
    <2>3. a \in Seq(AnyTask) /\ Len(a) = Len(head) + Len(sources)
        BY ONLY <2>2 DEF Glued
    <2>4. QED
        BY <1>1, <1>5, <1>8, <1>11, <1>1, <2>2, <2>3
<1>13. Glued(b, a, claims) /\ Len(b) = 3 + m + n /\ b \in Seq(AnyTask)
    <2>1. a \in Seq(AnyTask) /\ claims \in Seq(AnyTask) /\ b = a \o claims
        BY <1>1, <1>5, <1>8, <1>9, <1>11, <1>12
    <2>2. Glued(b, a, claims)
        BY ONLY <2>1, ConcatGlues
    <2>3. b \in Seq(AnyTask) /\ Len(b) = Len(a) + Len(claims)
        BY ONLY <2>2 DEF Glued
    <2>4. QED
        BY <1>1, <1>5, <1>8, <1>11, <1>12, <2>2, <2>3
<1>14. Glued(c, b, current) /\ Len(c) = 4 + m + n /\ c \in Seq(AnyTask)
    <2>1. b \in Seq(AnyTask) /\ current \in Seq(AnyTask) /\ c = b \o current
        BY <1>1, <1>5, <1>8, <1>9, <1>11, <1>13
    <2>2. Glued(c, b, current)
        BY ONLY <2>1, ConcatGlues
    <2>3. c \in Seq(AnyTask) /\ Len(c) = Len(b) + Len(current)
        BY ONLY <2>2 DEF Glued
    <2>4. QED
        BY <1>1, <1>5, <1>8, <1>11, <1>13, <2>2, <2>3
<1>15. Glued(d, c, pages) /\ Len(d) = 4 + m + n + k /\ d \in Seq(AnyTask)
    <2>1. c \in Seq(AnyTask) /\ pages \in Seq(AnyTask) /\ d = c \o pages
        BY <1>1, <1>5, <1>8, <1>9, <1>11, <1>14
    <2>2. Glued(d, c, pages)
        BY ONLY <2>1, ConcatGlues
    <2>3. d \in Seq(AnyTask) /\ Len(d) = Len(c) + Len(pages)
        BY ONLY <2>2 DEF Glued
    <2>4. QED
        BY <1>1, <1>5, <1>8, <1>11, <1>14, <2>2, <2>3
<1>16. Glued(e, d, content) /\ Len(e) = 4 + m + n + k + l /\ e \in Seq(AnyTask)
    <2>1. d \in Seq(AnyTask) /\ content \in Seq(AnyTask) /\ e = d \o content
        BY <1>1, <1>5, <1>8, <1>9, <1>11, <1>15
    <2>2. Glued(e, d, content)
        BY ONLY <2>1, ConcatGlues
    <2>3. e \in Seq(AnyTask) /\ Len(e) = Len(d) + Len(content)
        BY ONLY <2>2 DEF Glued
    <2>4. QED
        BY <1>1, <1>5, <1>8, <1>11, <1>15, <2>2, <2>3
<1>17. Glued(f, e, end) /\ Len(f) = 5 + m + n + k + l /\ f \in Seq(AnyTask)
    <2>1. e \in Seq(AnyTask) /\ end \in Seq(AnyTask) /\ f = e \o end
        BY <1>1, <1>5, <1>8, <1>9, <1>11, <1>16
    <2>2. Glued(f, e, end)
        BY ONLY <2>1, ConcatGlues
    <2>3. f \in Seq(AnyTask) /\ Len(f) = Len(e) + Len(end)
        BY ONLY <2>2 DEF Glued
    <2>4. QED
        BY <1>1, <1>5, <1>8, <1>11, <1>16, <2>2, <2>3
\* Where each part is in the whole.
<1>18. \A i \in 1 .. 3 : f[i] = head[i]
    <2> SUFFICES ASSUME NEW at \in 1 .. 3 PROVE f[at] = head[at]
        OBVIOUS
    <2>1. at \in 1 .. Len(head)
        BY <1>1
    <2>2. at \in 1 .. Len(a) /\ a[at] = head[at]
        BY <1>1, <1>1, <1>12, <1>11, <2>1, FirstStays
    <2>3. at \in 1 .. Len(b) /\ b[at] = a[at]
        BY <1>1, <1>12, <1>13, <1>11, <2>2, FirstStays
    <2>4. at \in 1 .. Len(c) /\ c[at] = b[at]
        BY <1>1, <1>13, <1>14, <1>5, <2>3, FirstStays
    <2>5. at \in 1 .. Len(d) /\ d[at] = c[at]
        BY <1>1, <1>14, <1>15, <1>11, <2>4, FirstStays
    <2>6. at \in 1 .. Len(e) /\ e[at] = d[at]
        BY <1>1, <1>15, <1>16, <1>11, <2>5, FirstStays
    <2>7. at \in 1 .. Len(f) /\ f[at] = e[at]
        BY <1>1, <1>16, <1>17, <1>8, <2>6, FirstStays
    <2>8. QED
        BY <2>1, <2>2, <2>3, <2>4, <2>5, <2>6, <2>7
<1>19. \A i \in 1 .. m : f[3 + i] = sources[i]
    <2> SUFFICES ASSUME NEW i \in 1 .. m PROVE f[3 + i] = sources[i]
        OBVIOUS
    <2>1. PICK at : at = 3 + i
        OBVIOUS
    <2>2. at = Len(head) + i /\ i \in 1 .. Len(sources)
        BY <1>1, <1>5, <1>8, <1>11, <1>1, <2>1
    <2>3. at \in 1 .. Len(a) /\ a[at] = sources[i]
        <3>1. head \in Seq(AnyTask) /\ sources \in Seq(AnyTask)
            BY <1>1, <1>1, <1>11
        <3>2. Len(head) + i \in 1 .. Len(a) /\ a[Len(head) + i] = sources[i]
            BY ONLY <1>12, <2>2, <3>1, SecondFollows
        <3>3. QED
            BY <2>2, <3>2
    <2>4. at \in 1 .. Len(b) /\ b[at] = a[at]
        BY <1>1, <1>12, <1>13, <1>11, <2>3, FirstStays
    <2>5. at \in 1 .. Len(c) /\ c[at] = b[at]
        BY <1>1, <1>13, <1>14, <1>5, <2>4, FirstStays
    <2>6. at \in 1 .. Len(d) /\ d[at] = c[at]
        BY <1>1, <1>14, <1>15, <1>11, <2>5, FirstStays
    <2>7. at \in 1 .. Len(e) /\ e[at] = d[at]
        BY <1>1, <1>15, <1>16, <1>11, <2>6, FirstStays
    <2>8. at \in 1 .. Len(f) /\ f[at] = e[at]
        BY <1>1, <1>16, <1>17, <1>8, <2>7, FirstStays
    <2>9. QED
        BY <2>1, <2>2, <2>3, <2>4, <2>5, <2>6, <2>7, <2>8
<1>20. \A i \in 1 .. n : f[3 + m + i] = claims[i]
    <2> SUFFICES ASSUME NEW i \in 1 .. n PROVE f[3 + m + i] = claims[i]
        OBVIOUS
    <2>1. PICK at : at = 3 + m + i
        OBVIOUS
    <2>2. at = Len(a) + i /\ i \in 1 .. Len(claims)
        BY <1>1, <1>5, <1>8, <1>11, <1>12, <2>1
    <2>3. at \in 1 .. Len(b) /\ b[at] = claims[i]
        <3>1. a \in Seq(AnyTask) /\ claims \in Seq(AnyTask)
            BY <1>1, <1>12, <1>11
        <3>2. Len(a) + i \in 1 .. Len(b) /\ b[Len(a) + i] = claims[i]
            BY ONLY <1>13, <2>2, <3>1, SecondFollows
        <3>3. QED
            BY <2>2, <3>2
    <2>4. at \in 1 .. Len(c) /\ c[at] = b[at]
        BY <1>1, <1>13, <1>14, <1>5, <2>3, FirstStays
    <2>5. at \in 1 .. Len(d) /\ d[at] = c[at]
        BY <1>1, <1>14, <1>15, <1>11, <2>4, FirstStays
    <2>6. at \in 1 .. Len(e) /\ e[at] = d[at]
        BY <1>1, <1>15, <1>16, <1>11, <2>5, FirstStays
    <2>7. at \in 1 .. Len(f) /\ f[at] = e[at]
        BY <1>1, <1>16, <1>17, <1>8, <2>6, FirstStays
    <2>8. QED
        BY <2>1, <2>2, <2>3, <2>4, <2>5, <2>6, <2>7
<1>21. f[4 + m + n] = current[1]
    <2>1. PICK at : at = 4 + m + n
        OBVIOUS
    <2>2. at = Len(b) + 1 /\ 1 \in 1 .. Len(current)
        BY <1>1, <1>5, <1>8, <1>11, <1>13, <2>1
    <2>3. at \in 1 .. Len(c) /\ c[at] = current[1]
        BY <1>1, <1>13, <1>14, <1>5, <2>2, SecondFollows
    <2>4. at \in 1 .. Len(d) /\ d[at] = c[at]
        BY <1>1, <1>14, <1>15, <1>11, <2>3, FirstStays
    <2>5. at \in 1 .. Len(e) /\ e[at] = d[at]
        BY <1>1, <1>15, <1>16, <1>11, <2>4, FirstStays
    <2>6. at \in 1 .. Len(f) /\ f[at] = e[at]
        BY <1>1, <1>16, <1>17, <1>8, <2>5, FirstStays
    <2>7. QED
        BY <2>1, <2>2, <2>3, <2>4, <2>5, <2>6
<1>22. \A i \in 1 .. k : f[4 + m + n + i] = pages[i]
    <2> SUFFICES ASSUME NEW i \in 1 .. k PROVE f[4 + m + n + i] = pages[i]
        OBVIOUS
    <2>1. PICK at : at = 4 + m + n + i
        OBVIOUS
    <2>2. at = Len(c) + i /\ i \in 1 .. Len(pages)
        BY <1>1, <1>5, <1>8, <1>11, <1>14, <2>1
    <2>3. at \in 1 .. Len(d) /\ d[at] = pages[i]
        <3>1. c \in Seq(AnyTask) /\ pages \in Seq(AnyTask)
            BY <1>1, <1>14, <1>11
        <3>2. Len(c) + i \in 1 .. Len(d) /\ d[Len(c) + i] = pages[i]
            BY ONLY <1>15, <2>2, <3>1, SecondFollows
        <3>3. QED
            BY <2>2, <3>2
    <2>4. at \in 1 .. Len(e) /\ e[at] = d[at]
        BY <1>1, <1>15, <1>16, <1>11, <2>3, FirstStays
    <2>5. at \in 1 .. Len(f) /\ f[at] = e[at]
        BY <1>1, <1>16, <1>17, <1>8, <2>4, FirstStays
    <2>6. QED
        BY <2>1, <2>2, <2>3, <2>4, <2>5
<1>23. \A i \in 1 .. l : f[4 + m + n + k + i] = content[i]
    <2> SUFFICES ASSUME NEW i \in 1 .. l PROVE f[4 + m + n + k + i] = content[i]
        OBVIOUS
    <2>1. PICK at : at = 4 + m + n + k + i
        OBVIOUS
    <2>2. at = Len(d) + i /\ i \in 1 .. Len(content)
        BY <1>1, <1>5, <1>8, <1>11, <1>15, <2>1
    <2>3. at \in 1 .. Len(e) /\ e[at] = content[i]
        BY <1>1, <1>15, <1>16, <1>11, <2>2, SecondFollows
    <2>4. at \in 1 .. Len(f) /\ f[at] = e[at]
        BY <1>1, <1>16, <1>17, <1>8, <2>3, FirstStays
    <2>5. QED
        BY <2>1, <2>2, <2>3, <2>4
<1>24. f[5 + m + n + k + l] = end[1]
    <2>1. PICK at : at = 5 + m + n + k + l
        OBVIOUS
    <2>2. at = Len(e) + 1 /\ 1 \in 1 .. Len(end)
        BY <1>1, <1>5, <1>8, <1>11, <1>16, <2>1
    <2>3. at \in 1 .. Len(f) /\ f[at] = end[1]
        BY <1>1, <1>16, <1>17, <1>8, <2>2, SecondFollows
    <2>4. QED
        BY <2>1, <2>2, <2>3
<1>25. \A i \in 1 .. Len(f) :
          \/ i \in 1 .. 3
          \/ \E j \in 1 .. m : i = 3 + j
          \/ \E j \in 1 .. n : i = 3 + m + j
          \/ i = 4 + m + n
          \/ \E j \in 1 .. k : i = 4 + m + n + j
          \/ \E j \in 1 .. l : i = 4 + m + n + k + j
          \/ i = 5 + m + n + k + l
    <2> SUFFICES ASSUME NEW i \in 1 .. Len(f), i > 3
                 PROVE  \/ \E j \in 1 .. m : i = 3 + j
                        \/ \E j \in 1 .. n : i = 3 + m + j
                        \/ i = 4 + m + n
                        \/ \E j \in 1 .. k : i = 4 + m + n + j
                        \/ \E j \in 1 .. l : i = 4 + m + n + k + j
                        \/ i = 5 + m + n + k + l
        BY <1>11, <1>17
    <2>1. CASE i <= 3 + m
        <3>1. i - 3 \in 1 .. m /\ i = 3 + (i - 3)
            BY <1>11, <2>1
        <3>2. QED
            BY <3>1
    <2>2. CASE 3 + m < i /\ i <= 3 + m + n
        <3>1. i - 3 - m \in 1 .. n /\ i = 3 + m + (i - 3 - m)
            BY <1>11, <2>2
        <3>2. QED
            BY <3>1
    <2>3. CASE 4 + m + n < i /\ i <= 4 + m + n + k
        <3>1. i - 4 - m - n \in 1 .. k /\ i = 4 + m + n + (i - 4 - m - n)
            BY <1>11, <2>3
        <3>2. QED
            BY <3>1
    <2>4. CASE 4 + m + n + k < i /\ i <= 4 + m + n + k + l
        <3>1. i - 4 - m - n - k \in 1 .. l /\ i = 4 + m + n + k + (i - 4 - m - n - k)
            BY <1>11, <2>4
        <3>2. QED
            BY <3>1
    <2>5. i <= 3 + m \/ (3 + m < i /\ i <= 3 + m + n) \/ i = 4 + m + n
          \/ (4 + m + n < i /\ i <= 4 + m + n + k)
          \/ (4 + m + n + k < i /\ i <= 4 + m + n + k + l) \/ i = 5 + m + n + k + l
        BY <1>11, <1>17
    <2>6. QED
        BY <2>1, <2>2, <2>3, <2>4, <2>5
\* What is at each place.
<1>26. \A i \in 1 .. m : sources[i].kind = "source" /\ sources[i].about \in Titles
    BY <1>3 DEF Lists
<1>27. \A i \in 1 .. n : claims[i].kind = "claim" /\ claims[i].about \in Scopes
    BY <1>4 DEF Lists
<1>28. \A i \in 1 .. k : \/ pages[i].kind = "page" /\ pages[i].about \in Slugs
                         \/ pages[i].kind = "text" /\ pages[i].about \in Texts
    <2>1. SeedSlugs \subseteq Slugs /\ (SeedSlugs \X Locales) \subseteq Texts
        BY DEF Slugs, Texts
    <2>2. QED
        BY <1>6, <2>1 DEF PagesListed
<1>29. \A i \in 1 .. l : \/ content[i].kind = "page" /\ content[i].about \in Slugs
                         \/ content[i].kind = "text" /\ content[i].about \in Texts
    <2>1. ContentSlugs \subseteq Slugs /\ (ContentSlugs \X Locales) \subseteq Texts
        BY DEF Slugs, Texts
    <2>2. QED
        BY <1>7, <2>1 DEF PagesListed
<1>30. InOrder(f)
    <2>1. ASSUME NEW i \in 1 .. Len(f)
          PROVE  /\ Rightly(f[i])
                 /\ f[i].kind = "site" => i = 1
                 /\ f[i].kind = "mechanic" => i = 2
                 /\ f[i].kind = "ruleset" => i = 3
                 /\ f[i].kind = "commit" => i = Len(f)
        <3>1. CASE i \in 1 .. 3
            <4>1. \/ i = 1 /\ f[i].kind = "site"
                  \/ i = 2 /\ f[i].kind = "mechanic"
                  \/ i = 3 /\ f[i].kind = "ruleset"
                BY <1>2, <1>18, <3>1
            <4>2. QED
                BY <4>1 DEF Rightly, Kinds
        <3>2. CASE \E j \in 1 .. m : i = 3 + j
            <4>1. f[i].kind = "source" /\ f[i].about \in Titles
                BY <1>19, <1>26, <3>2
            <4>2. QED
                BY <4>1 DEF Rightly, Kinds
        <3>3. CASE \E j \in 1 .. n : i = 3 + m + j
            <4>1. f[i].kind = "claim" /\ f[i].about \in Scopes
                BY <1>20, <1>27, <3>3
            <4>2. QED
                BY <4>1 DEF Rightly, Kinds
        <3>4. CASE i = 4 + m + n
            <4>1. f[i].kind = "current"
                BY <1>5, <1>21, <3>4
            <4>2. QED
                BY <4>1 DEF Rightly, Kinds
        <3>5. CASE \E j \in 1 .. k : i = 4 + m + n + j
            <4>1. \/ f[i].kind = "page" /\ f[i].about \in Slugs
                  \/ f[i].kind = "text" /\ f[i].about \in Texts
                BY <1>22, <1>28, <3>5
            <4>2. QED
                BY <4>1 DEF Rightly, Kinds
        <3>6. CASE \E j \in 1 .. l : i = 4 + m + n + k + j
            <4>1. \/ f[i].kind = "page" /\ f[i].about \in Slugs
                  \/ f[i].kind = "text" /\ f[i].about \in Texts
                BY <1>23, <1>29, <3>6
            <4>2. QED
                BY <4>1 DEF Rightly, Kinds
        <3>7. CASE i = 5 + m + n + k + l
            <4>1. f[i].kind = "commit" /\ i = Len(f)
                BY <1>8, <1>17, <1>24, <3>7
            <4>2. QED
                BY <4>1 DEF Rightly, Kinds
        <3>8. QED
            BY <1>25, <3>1, <3>2, <3>3, <3>4, <3>5, <3>6, <3>7
    <2>2. f[1].kind = "site" /\ f[2].kind = "mechanic" /\ f[3].kind = "ruleset"
        BY <1>2, <1>18
    <2>3. f[Len(f)].kind = "commit" /\ Len(f) \in Nat /\ f \in Seq(AnyTask)
        BY <1>8, <1>11, <1>17, <1>24
    <2>4. Len(f) > 4
        BY <1>11, <1>17
    <2>5. QED
        BY <2>1, <2>2, <2>3, <2>4 DEF InOrder
<1>31. NothingIsLeftOut(f)
    <2>1. ASSUME NEW t \in Titles PROVE IsIn(f, "source", t)
        <3>1. PICK i \in 1 .. m : sources[i].kind = "source" /\ sources[i].about = t
            BY <1>3 DEF Lists
        <3>2. 3 + i \in 1 .. Len(f) /\ f[3 + i] = sources[i]
            BY <1>11, <1>17, <1>19
        <3>3. QED
            BY <3>1, <3>2 DEF IsIn
    <2>2. ASSUME NEW x \in Scopes PROVE IsIn(f, "claim", x)
        <3>1. PICK i \in 1 .. n : claims[i].kind = "claim" /\ claims[i].about = x
            BY <1>4 DEF Lists
        <3>2. 3 + m + i \in 1 .. Len(f) /\ f[3 + m + i] = claims[i]
            BY <1>11, <1>17, <1>20
        <3>3. QED
            BY <3>1, <3>2 DEF IsIn
    <2>3. IsIn(f, "current", Mechanic)
        <3>1. 4 + m + n \in 1 .. Len(f)
            BY <1>11, <1>17
        <3>2. QED
            BY <1>5, <1>21, <3>1 DEF IsIn
    <2>4. ASSUME NEW kind, NEW about, NEW i \in 1 .. k, pages[i].kind = kind, pages[i].about = about
          PROVE  IsIn(f, kind, about)
        <3>1. 4 + m + n + i \in 1 .. Len(f) /\ f[4 + m + n + i] = pages[i]
            BY <1>11, <1>17, <1>22
        <3>2. QED
            BY <2>4, <3>1 DEF IsIn
    <2>5. ASSUME NEW kind, NEW about, NEW i \in 1 .. l,
                 content[i].kind = kind, content[i].about = about
          PROVE  IsIn(f, kind, about)
        <3>1. 4 + m + n + k + i \in 1 .. Len(f) /\ f[4 + m + n + k + i] = content[i]
            BY <1>11, <1>17, <1>23
        <3>2. QED
            BY <2>5, <3>1 DEF IsIn
    <2>6. ASSUME NEW slug \in Slugs PROVE IsIn(f, "page", slug)
        <3>1. CASE slug \in SeedSlugs
            <4>1. PICK i \in 1 .. k : pages[i].kind = "page" /\ pages[i].about = slug
                BY <1>6, <3>1 DEF PagesListed
            <4>2. QED
                BY <2>4, <4>1
        <3>2. CASE slug \in ContentSlugs
            <4>1. PICK i \in 1 .. l : content[i].kind = "page" /\ content[i].about = slug
                BY <1>7, <3>2 DEF PagesListed
            <4>2. QED
                BY <2>5, <4>1
        <3>3. QED
            BY <3>1, <3>2 DEF Slugs
    <2>7. ASSUME NEW text \in Texts PROVE IsIn(f, "text", text)
        <3>1. text \in SeedSlugs \X Locales \/ text \in ContentSlugs \X Locales
            BY DEF Texts, Slugs
        <3>2. CASE text \in SeedSlugs \X Locales
            <4>1. PICK i \in 1 .. k : pages[i].kind = "text" /\ pages[i].about = text
                BY <1>6, <3>2 DEF PagesListed
            <4>2. QED
                BY <2>4, <4>1
        <3>3. CASE text \in ContentSlugs \X Locales
            <4>1. PICK i \in 1 .. l : content[i].kind = "text" /\ content[i].about = text
                BY <1>7, <3>3 DEF PagesListed
            <4>2. QED
                BY <2>5, <4>1
        <3>4. QED
            BY <3>1, <3>2, <3>3
    <2>8. QED
        BY <2>1, <2>2, <2>3, <2>6, <2>7 DEF NothingIsLeftOut
<1>32. SourcesFirst(f)
    <2> SUFFICES ASSUME NEW i \in 1 .. Len(f), f[i].kind = "claim", NEW t \in Titles
                 PROVE  \E j \in 1 .. i - 1 : f[j].kind = "source" /\ f[j].about = t
        BY DEF SourcesFirst
    <2>1. i > 3 + m
        <3>1. i \notin 1 .. 3
            BY <1>2, <1>18
        <3>2. \A j \in 1 .. m : i # 3 + j
            BY <1>19, <1>26
        <3>3. QED
            BY <1>11, <1>17, <1>25, <3>1, <3>2
    <2>2. PICK j \in 1 .. m : sources[j].kind = "source" /\ sources[j].about = t
        BY <1>3 DEF Lists
    <2>3. 3 + j \in 1 .. i - 1 /\ f[3 + j] = sources[j]
        BY <1>11, <1>17, <1>19, <2>1
    <2>4. QED
        BY <2>2, <2>3
<1>33. QED
    BY <1>10, <1>30, <1>31, <1>32

\* What seed_content does by itself: pages and their translations, and at least one.
LEMMA ContentTasksAre ==
    /\ Len(ContentTasks) \in Nat /\ Len(ContentTasks) > 0
    /\ \A i \in 1 .. Len(ContentTasks) :
          \/ ContentTasks[i].kind = "page" /\ ContentTasks[i].about \in Slugs
          \/ ContentTasks[i].kind = "text" /\ ContentTasks[i].about \in Texts
<1>1. IsFiniteSet(ContentSlugs) /\ ContentSlugs \in SUBSET Slugs /\ ContentSlugs # {}
    BY SeedAssumption DEF Slugs
<1>2. PICK list, n : list = ContentTasks /\ PagesListed(list, n, ContentSlugs) /\ Len(list) > 0
    BY <1>1, PagesAreListed DEF ContentTasks
<1>3. ContentSlugs \X Locales \subseteq Texts
    BY DEF Slugs, Texts
<1>4. QED
    BY <1>1, <1>2, <1>3 DEF PagesListed

-----------------------------------------------------------------------------
(* Tables *)

\* A key is of one table only.
LEMMA TablesApart ==
    /\ \A S \in {{Mechanic}, RulesetKeys, SourceKeys, ClaimKeys, Slugs, Texts} : Site \notin S
    /\ \A S \in {RulesetKeys, SourceKeys, ClaimKeys, Slugs, Texts} : Mechanic \notin S
    /\ \A S \in {SourceKeys, ClaimKeys, Slugs, Texts} : RulesetKeys \cap S = {}
    /\ \A S \in {ClaimKeys, Slugs, Texts} : SourceKeys \cap S = {}
    /\ \A S \in {Slugs, Texts} : ClaimKeys \cap S = {}
    /\ Slugs \cap Texts = {}
<1>1. PICK tables : tables = <<{Site}, {Mechanic}, RulesetKeys, SourceKeys, ClaimKeys, Slugs, Texts>>
    OBVIOUS
<1>2. \A i, j \in 1 .. 7 : i # j => tables[i] \cap tables[j] = {}
    BY <1>1, KeysApart DEF Slugs, Texts
<1>3. /\ tables[1] = {Site} /\ tables[2] = {Mechanic} /\ tables[3] = RulesetKeys
      /\ tables[4] = SourceKeys /\ tables[5] = ClaimKeys /\ tables[6] = Slugs /\ tables[7] = Texts
    BY <1>1
<1>4. \A i \in 2 .. 7 : Site \notin tables[i]
    BY <1>2, <1>3
<1>5. \A i \in 3 .. 7 : Mechanic \notin tables[i]
    BY <1>2, <1>3
<1>6. \A i \in 4 .. 7 : RulesetKeys \cap tables[i] = {}
    BY <1>2, <1>3
<1>7. \A i \in 5 .. 7 : SourceKeys \cap tables[i] = {}
    BY <1>2, <1>3
<1>8. \A i \in 6 .. 7 : ClaimKeys \cap tables[i] = {}
    BY <1>2, <1>3
<1>9. Slugs \cap Texts = {}
    BY <1>2, <1>3
<1>10. QED
    BY <1>3, <1>4, <1>5, <1>6, <1>7, <1>8, <1>9

-----------------------------------------------------------------------------
(* What a transaction has done so far *)

\* What a transaction sees: what it has written, or else what is committed.
See(rows, s, k) == IF k \in DOMAIN s.wrote THEN s.wrote[k] ELSE rows[k]

\* A claim as the seed makes it.
ClaimOf(k, r, x) == [source |-> k, ruleset |-> r, scope |-> x]
IsClaim(c) == \E k \in SourceKeys, r \in RulesetKeys \cup {None}, x \in Scopes : c = ClaimOf(k, r, x)

\* The mechanic is there, and its ruleset is the only one.
RulesetReady(rows, s) ==
    /\ s.ruleset \in RulesetKeys
    /\ \A r \in RulesetKeys : See(rows, s, r) # None <=> r = s.ruleset

\* The source is written; if the staff has not given one the title, it is the only one.
SourceReady(rows, s, T, t) ==
    \E k \in SourceKeys \cap DOMAIN s.wrote :
        /\ s.wrote[k] = t
        /\ t \notin T => \A j \in SourceKeys : See(rows, s, j) = t => j = k

\* The claim is written, cites the source of its title and is the only one like it.
ClaimReady(rows, s, x) ==
    \E k \in SourceKeys \cap DOMAIN s.wrote, c \in ClaimKeys \cap DOMAIN s.wrote :
        /\ s.wrote[k] = TitleOf[x] /\ s.wrote[c] = ClaimOf(k, s.ruleset, x)
        /\ \A d \in ClaimKeys : See(rows, s, d) = ClaimOf(k, s.ruleset, x) => d = c

\* What it means that a task is done.
Ready(rows, s, T, task) ==
    /\ task.kind = "site" => Site \in DOMAIN s.wrote /\ s.wrote[Site] = "published"
    /\ task.kind = "mechanic" => Mechanic \in DOMAIN s.wrote
    /\ task.kind = "ruleset" => RulesetReady(rows, s)
    /\ task.kind = "source" => SourceReady(rows, s, T, task.about)
    /\ task.kind = "claim" => ClaimReady(rows, s, task.about)
    /\ task.kind = "current" => Mechanic \in DOMAIN s.wrote /\ s.wrote[Mechanic] = s.ruleset
    /\ task.kind \in {"page", "text"} =>
           task.about \in DOMAIN s.wrote /\ s.wrote[task.about] = "published"

\* All the tasks before the next are done.
ReadySoFar(rows, s, T) == \A i \in 1 .. s.at - 1 : Ready(rows, s, T, SeedTasks[i])

\* What a seed has written is as its tasks write it.
Written(s) ==
    /\ s = [at |-> s.at, ruleset |-> s.ruleset, wrote |-> s.wrote]
    /\ s.at \in 0 .. Len(SeedTasks)
    /\ DOMAIN s.wrote \subseteq Keys
    /\ s.at <= 1 => DOMAIN s.wrote = {}
    /\ s.at <= 3 => DOMAIN s.wrote \subseteq {Site, Mechanic}
    /\ \A c \in ClaimKeys \cap DOMAIN s.wrote : IsClaim(s.wrote[c])

\* A seed that is at one of its tasks has done those before.
Going(rows, s, T) == Written(s) /\ ReadySoFar(rows, s, T)

\* What is committed: claims of a source, and the one ruleset the current one.
Sound(rows) ==
    /\ rows = [k \in Keys |-> rows[k]]
    /\ \A c \in ClaimKeys : rows[c] # None => IsClaim(rows[c])
    /\ \A r \in RulesetKeys : rows[r] # None => rows[Mechanic] = r

-----------------------------------------------------------------------------
(* What happens around a transaction *)

\* What the committed data may do around a seed: the rows that it has written stay, sources
\* change only to titles that are on record, claims go or lose their ruleset.
Around(old, new, s, T, T2) ==
    /\ T \subseteq T2
    /\ \A k \in SourceKeys \ DOMAIN s.wrote : new[k] \in {old[k], None} \cup T2
    /\ \A c \in ClaimKeys \ DOMAIN s.wrote :
          new[c] = old[c] \/ new[c] = None \/ new[c].ruleset = None
    /\ Mechanic \in DOMAIN s.wrote => \A r \in RulesetKeys : new[r] = old[r]

\* Then its ruleset stays the only one,
LEMMA RulesetStaysReady ==
    ASSUME NEW old, NEW new, NEW s, RulesetReady(old, s), \A r \in RulesetKeys : new[r] = old[r]
    PROVE  RulesetReady(new, s)
BY DEF RulesetReady, See

\* its sources stay,
LEMMA SourceStaysReady ==
    ASSUME NEW old, NEW new, NEW s, NEW T, NEW T2, NEW t \in Titles,
           Around(old, new, s, T, T2), SourceReady(old, s, T, t)
    PROVE  SourceReady(new, s, T2, t)
<1>1. PICK k \in SourceKeys \cap DOMAIN s.wrote :
          s.wrote[k] = t /\ (t \notin T => \A j \in SourceKeys : See(old, s, j) = t => j = k)
    BY DEF SourceReady
<1>2. ASSUME t \notin T2, NEW j \in SourceKeys, See(new, s, j) = t PROVE j = k
    <2>1. t \notin T /\ t # None
        BY <1>2, SeedAssumption DEF Around
    <2>2. See(old, s, j) = t
        BY <1>2, <2>1 DEF See, Around
    <2>3. QED
        BY <1>1, <2>1, <2>2
<1>3. QED
    BY <1>1, <1>2 DEF SourceReady

\* and its claims stay.
LEMMA ClaimStaysReady ==
    ASSUME NEW old, NEW new, NEW s, NEW T, NEW T2, NEW x \in Scopes, s.ruleset \in RulesetKeys,
           Around(old, new, s, T, T2), ClaimReady(old, s, x)
    PROVE  ClaimReady(new, s, x)
<1>1. PICK k \in SourceKeys \cap DOMAIN s.wrote, c \in ClaimKeys \cap DOMAIN s.wrote :
          /\ s.wrote[k] = TitleOf[x] /\ s.wrote[c] = ClaimOf(k, s.ruleset, x)
          /\ \A d \in ClaimKeys : See(old, s, d) = ClaimOf(k, s.ruleset, x) => d = c
    BY DEF ClaimReady
<1>2. ASSUME NEW d \in ClaimKeys, See(new, s, d) = ClaimOf(k, s.ruleset, x) PROVE d = c
    <2>1. ClaimOf(k, s.ruleset, x) # None /\ ClaimOf(k, s.ruleset, x).ruleset # None
        BY SeedAssumption DEF ClaimOf
    <2>2. See(old, s, d) = ClaimOf(k, s.ruleset, x)
        BY <1>2, <2>1 DEF See, Around
    <2>3. QED
        BY <1>1, <2>2
<1>3. QED
    BY <1>1, <1>2 DEF ClaimReady

\* A seed that has gone past its third task has the lock of the mechanic, and a ruleset.
LEMMA PastRuleset ==
    ASSUME NEW rows, NEW s, NEW T, Going(rows, s, T), s.at > 3
    PROVE  /\ Mechanic \in DOMAIN s.wrote /\ RulesetReady(rows, s) /\ s.ruleset \in RulesetKeys
<1>1. s.at \in Nat
    BY SeedTasksAre DEF Going, Written, InOrder
<1>2. Ready(rows, s, T, SeedTasks[2]) /\ Ready(rows, s, T, SeedTasks[3])
    BY <1>1 DEF Going, ReadySoFar
<1>3. SeedTasks[2].kind = "mechanic" /\ SeedTasks[3].kind = "ruleset"
    BY SeedTasksAre DEF InOrder
<1>4. QED
    BY <1>2, <1>3 DEF Ready, RulesetReady

\* A seed past its first task has the lock of the Site.
LEMMA PastSite ==
    ASSUME NEW rows, NEW s, NEW T, Going(rows, s, T), s.at > 1
    PROVE  Site \in DOMAIN s.wrote /\ s.wrote[Site] = "published"
<1>1. s.at \in Nat
    BY SeedTasksAre DEF Going, Written, InOrder
<1>2. Ready(rows, s, T, SeedTasks[1])
    BY <1>1 DEF Going, ReadySoFar
<1>3. SeedTasks[1].kind = "site"
    BY SeedTasksAre DEF InOrder
<1>4. QED
    BY <1>2, <1>3 DEF Ready

\* A task that is done is known, and the first two are those of the Site and the mechanic.
LEMMA KnownTask ==
    ASSUME NEW s, Written(s), NEW i \in 1 .. s.at - 1
    PROVE  /\ i \in 1 .. Len(SeedTasks) /\ Rightly(SeedTasks[i]) /\ s.at \in Nat
           /\ SeedTasks[i].kind \in {"site", "mechanic"} \/ s.at > 3
<1>1. i \in 1 .. Len(SeedTasks) /\ s.at \in Nat
    BY SeedTasksAre DEF Written, InOrder
<1>2. i = 1 \/ i = 2 \/ s.at > 3
    BY <1>1
<1>3. QED
    BY <1>1, <1>2, SeedTasksAre DEF InOrder

\* Whatever happens around a seed, it goes on with its tasks done so far.
LEMMA AroundKeeps ==
    ASSUME NEW old, NEW new, NEW s, NEW T, NEW T2, Going(old, s, T), Around(old, new, s, T, T2)
    PROVE  Going(new, s, T2)
<1>1. ASSUME NEW i \in 1 .. s.at - 1 PROVE Ready(new, s, T2, SeedTasks[i])
    <2>1. PICK task : task = SeedTasks[i]
        OBVIOUS
    <2>2. Ready(old, s, T, task) /\ Rightly(task) /\ (task.kind \in {"site", "mechanic"} \/ s.at > 3)
        BY <2>1, KnownTask DEF Going, ReadySoFar
    <2>3. CASE task.kind \in {"site", "mechanic"}
        BY <2>1, <2>2, <2>3 DEF Ready
    <2>4. CASE s.at > 3
        <3>1. s.ruleset \in RulesetKeys /\ RulesetReady(new, s)
            BY <2>4, PastRuleset, RulesetStaysReady DEF Around
        <3>2. task.kind = "source" => SourceReady(new, s, T2, task.about)
            BY <2>2, SourceStaysReady DEF Ready, Rightly
        <3>3. task.kind = "claim" => ClaimReady(new, s, task.about)
            BY <2>2, <3>1, ClaimStaysReady DEF Ready, Rightly
        <3>4. QED
            BY <2>1, <2>2, <3>1, <3>2, <3>3 DEF Ready
    <2>5. QED
        BY <2>2, <2>3, <2>4
<1>2. QED
    BY <1>1 DEF Going, ReadySoFar

-----------------------------------------------------------------------------
(* What a transaction writes *)

\* The next task, with one more row written.
Further(s, k, v, r) == [at |-> s.at + 1, ruleset |-> r, wrote |-> With(s.wrote, k, v)]

\* update_or_create: the one row that matches, or a new one.
Unmatched(rows, s, ks, k, v) ==
    /\ k \in ks
    /\ \A j \in ks : See(rows, s, j) = v => j = k
    /\ k \in DOMAIN s.wrote => s.wrote[k] = v

\* What may be written without undoing a task that is done.
Safe(rows, s, k, v, r) ==
    /\ k \in Keys
    /\ k = Site \/ k \in Slugs \cup Texts => v = "published"
    /\ k \in SourceKeys => Unmatched(rows, s, SourceKeys, k, v)
    /\ k \in ClaimKeys => IsClaim(v) /\ Unmatched(rows, s, ClaimKeys, k, v)
    /\ s.at > 3 => k \notin RulesetKeys /\ r = s.ruleset /\ (k = Mechanic => v = r)
    /\ s.at = 1 => k = Site
    /\ s.at = 2 => k = Mechanic

\* A safe write leaves the ruleset ready,
LEMMA RulesetIsKept ==
    ASSUME NEW rows, NEW s, NEW k, NEW v, NEW s2, s2 = Further(s, k, v, s.ruleset),
           k \notin RulesetKeys, RulesetReady(rows, s)
    PROVE  RulesetReady(rows, s2)
<1>1. \A r \in RulesetKeys : See(rows, s2, r) = See(rows, s, r)
    BY DEF Further, With, See
<1>2. s2.ruleset = s.ruleset
    BY DEF Further, With, See
<1>3. QED
    BY <1>1, <1>2 DEF RulesetReady

\* the sources ready,
LEMMA SourceIsKept ==
    ASSUME NEW rows, NEW s, NEW T, NEW t, NEW k, NEW v, NEW s2, s2 = Further(s, k, v, s.ruleset),
           k \in SourceKeys => Unmatched(rows, s, SourceKeys, k, v),
           SourceReady(rows, s, T, t)
    PROVE  SourceReady(rows, s2, T, t)
<1>1. PICK i \in SourceKeys \cap DOMAIN s.wrote :
          s.wrote[i] = t /\ (t \notin T => \A j \in SourceKeys : See(rows, s, j) = t => j = i)
    BY DEF SourceReady
<1>2. /\ DOMAIN s2.wrote = DOMAIN s.wrote \cup {k} /\ s2.wrote[k] = v
      /\ \A j \in DOMAIN s.wrote : j # k => s2.wrote[j] = s.wrote[j]
      /\ See(rows, s2, k) = v
      /\ \A j \in SourceKeys : j # k => See(rows, s2, j) = See(rows, s, j)
    BY DEF Further, With, See
<1>3. i \in DOMAIN s2.wrote /\ s2.wrote[i] = t
    BY <1>1, <1>2 DEF Unmatched
<1>4. ASSUME t \notin T, NEW j \in SourceKeys, See(rows, s2, j) = t PROVE j = i
    <2>1. CASE j # k
        BY <1>1, <1>2, <1>4, <2>1
    <2>2. CASE j = k
        <3>1. v = t /\ Unmatched(rows, s, SourceKeys, k, v)
            BY <1>2, <1>4, <2>2
        <3>2. See(rows, s, i) = v
            BY <1>1, <3>1 DEF See
        <3>3. QED
            BY <1>1, <2>2, <3>1, <3>2 DEF Unmatched
    <2>3. QED
        BY <2>1, <2>2
<1>5. QED
    BY <1>1, <1>3, <1>4 DEF SourceReady

\* and the claims ready.
LEMMA ClaimIsKept ==
    ASSUME NEW rows, NEW s, NEW x, NEW k, NEW v, NEW s2, s2 = Further(s, k, v, s.ruleset),
           k \in SourceKeys => Unmatched(rows, s, SourceKeys, k, v),
           k \in ClaimKeys => Unmatched(rows, s, ClaimKeys, k, v),
           ClaimReady(rows, s, x)
    PROVE  ClaimReady(rows, s2, x)
<1>1. PICK i \in SourceKeys \cap DOMAIN s.wrote, c \in ClaimKeys \cap DOMAIN s.wrote :
          /\ s.wrote[i] = TitleOf[x] /\ s.wrote[c] = ClaimOf(i, s.ruleset, x)
          /\ \A d \in ClaimKeys : See(rows, s, d) = ClaimOf(i, s.ruleset, x) => d = c
    BY DEF ClaimReady
<1>2. /\ DOMAIN s2.wrote = DOMAIN s.wrote \cup {k} /\ s2.wrote[k] = v
      /\ \A j \in DOMAIN s.wrote : j # k => s2.wrote[j] = s.wrote[j]
      /\ See(rows, s2, k) = v
      /\ \A j \in ClaimKeys : j # k => See(rows, s2, j) = See(rows, s, j)
      /\ s2.ruleset = s.ruleset
    BY DEF Further, With, See
<1>3. i \in DOMAIN s2.wrote /\ s2.wrote[i] = TitleOf[x]
    BY <1>1, <1>2 DEF Unmatched
<1>4. c \in DOMAIN s2.wrote /\ s2.wrote[c] = ClaimOf(i, s.ruleset, x)
    BY <1>1, <1>2 DEF Unmatched
<1>5. ASSUME NEW d \in ClaimKeys, See(rows, s2, d) = ClaimOf(i, s.ruleset, x) PROVE d = c
    <2>1. CASE d # k
        BY <1>1, <1>2, <1>5, <2>1
    <2>2. CASE d = k
        <3>1. v = ClaimOf(i, s.ruleset, x) /\ Unmatched(rows, s, ClaimKeys, k, v)
            BY <1>2, <1>5, <2>2
        <3>2. See(rows, s, c) = v
            BY <1>1, <3>1 DEF See
        <3>3. QED
            BY <1>1, <2>2, <3>1, <3>2 DEF Unmatched
    <2>3. QED
        BY <2>1, <2>2
<1>6. QED
    BY <1>1, <1>2, <1>3, <1>4, <1>5 DEF ClaimReady

\* The tasks that are done stay done.
LEMMA DoneStaysDone ==
    ASSUME NEW rows, NEW s, NEW T, NEW k, NEW v, NEW r, NEW s2, s2 = Further(s, k, v, r),
           Going(rows, s, T), Safe(rows, s, k, v, r), NEW i \in 1 .. s.at - 1
    PROVE  Ready(rows, s2, T, SeedTasks[i])
<1>1. PICK task : task = SeedTasks[i]
    OBVIOUS
<1>2. Ready(rows, s, T, task) /\ Rightly(task) /\ (task.kind \in {"site", "mechanic"} \/ s.at > 3)
    BY <1>1, KnownTask DEF Going, ReadySoFar
<1>3. /\ DOMAIN s2.wrote = DOMAIN s.wrote \cup {k} /\ s2.wrote[k] = v
      /\ \A j \in DOMAIN s.wrote : j # k => s2.wrote[j] = s.wrote[j]
      /\ s2.ruleset = r
    BY DEF Further, With, See
<1>4. task.kind = "site" => Site \in DOMAIN s2.wrote /\ s2.wrote[Site] = "published"
    BY <1>2, <1>3 DEF Ready, Safe
<1>5. task.kind = "mechanic" => Mechanic \in DOMAIN s2.wrote
    BY <1>2, <1>3 DEF Ready
<1>6. CASE task.kind \in {"site", "mechanic"}
    BY <1>1, <1>4, <1>5, <1>6 DEF Ready
<1>7. CASE s.at > 3
    <2>1. r = s.ruleset /\ k \notin RulesetKeys /\ (k = Mechanic => v = r)
          /\ (k \in SourceKeys => Unmatched(rows, s, SourceKeys, k, v))
          /\ (k \in ClaimKeys => Unmatched(rows, s, ClaimKeys, k, v))
          /\ (k \in Slugs \cup Texts => v = "published")
        BY <1>7 DEF Safe
    <2>2. RulesetReady(rows, s2)
        BY <1>7, <2>1, PastRuleset, RulesetIsKept
    <2>3. task.kind = "source" => SourceReady(rows, s2, T, task.about)
        BY <1>2, <2>1, SourceIsKept DEF Ready
    <2>4. task.kind = "claim" => ClaimReady(rows, s2, task.about)
        BY <1>2, <2>1, ClaimIsKept DEF Ready
    <2>5. task.kind = "current" => Mechanic \in DOMAIN s2.wrote /\ s2.wrote[Mechanic] = s2.ruleset
        BY <1>2, <1>3, <2>1 DEF Ready
    <2>6. task.kind \in {"page", "text"} =>
              task.about \in DOMAIN s2.wrote /\ s2.wrote[task.about] = "published"
        BY <1>2, <1>3, <2>1 DEF Ready, Rightly
    <2>7. QED
        BY <1>1, <1>4, <1>5, <2>2, <2>3, <2>4, <2>5, <2>6 DEF Ready
<1>8. QED
    BY <1>2, <1>6, <1>7

\* A seed that writes safely and has done its task goes on.
LEMMA GoesOn ==
    ASSUME NEW rows, NEW s, NEW T, NEW k, NEW v, NEW r, NEW s2, s2 = Further(s, k, v, r),
           Going(rows, s, T), Safe(rows, s, k, v, r), s.at \in 1 .. Len(SeedTasks) - 1,
           Ready(rows, s2, T, SeedTasks[s.at])
    PROVE  Going(rows, s2, T)
<1>1. /\ DOMAIN s2.wrote = DOMAIN s.wrote \cup {k} /\ s2.wrote[k] = v
      /\ \A j \in DOMAIN s.wrote : j # k => s2.wrote[j] = s.wrote[j]
      /\ s2.ruleset = r /\ s2.at = s.at + 1
    BY DEF Further, With, See
<1>2. Len(SeedTasks) \in Nat /\ s.at \in Nat
    BY SeedTasksAre DEF InOrder
<1>3. ReadySoFar(rows, s2, T)
    <2> SUFFICES ASSUME NEW i \in 1 .. s2.at - 1 PROVE Ready(rows, s2, T, SeedTasks[i])
        BY DEF ReadySoFar
    <2>1. i \in 1 .. s.at - 1 \/ i = s.at
        BY <1>1, <1>2
    <2>2. QED
        BY <2>1, DoneStaysDone
<1>4. Written(s2)
    <2>1. s2 = [at |-> s2.at, ruleset |-> s2.ruleset, wrote |-> s2.wrote]
        BY DEF Further
    <2>2. s2.at \in 0 .. Len(SeedTasks) /\ ~(s2.at <= 1)
        BY <1>1, <1>2
    <2>3. DOMAIN s2.wrote \subseteq Keys
        BY <1>1 DEF Safe, Going, Written
    <2>4. s2.at <= 3 => DOMAIN s2.wrote \subseteq {Site, Mechanic}
        <3>1. s2.at <= 3 => s.at <= 3 /\ (s.at = 1 \/ s.at = 2)
            BY <1>1, <1>2
        <3>2. QED
            BY <1>1, <3>1 DEF Safe, Going, Written
    <2>5. \A c \in ClaimKeys \cap DOMAIN s2.wrote : IsClaim(s2.wrote[c])
        BY <1>1 DEF Safe, Going, Written
    <2>6. QED
        BY <2>1, <2>2, <2>3, <2>4, <2>5 DEF Written
<1>5. QED
    BY <1>3, <1>4 DEF Going

-----------------------------------------------------------------------------
(* Each of the tasks, done *)

\* The first task locks the Site.
LEMMA SiteDone ==
    ASSUME NEW rows, NEW s, NEW T, Going(rows, s, T), s.at \in 1 .. Len(SeedTasks) - 1,
           SeedTasks[s.at].kind = "site", NEW s2, s2 = Further(s, Site, "published", s.ruleset)
    PROVE  Going(rows, s2, T)
<1>1. s.at = 1
    BY SeedTasksAre DEF InOrder
<1>2. Safe(rows, s, Site, "published", s.ruleset)
    BY <1>1, TablesApart DEF Safe, Keys
<1>3. Ready(rows, s2, T, SeedTasks[s.at])
    BY DEF Further, With, Ready
<1>4. QED
    BY <1>2, <1>3, GoesOn

\* The second task locks the mechanic.
LEMMA MechanicDone ==
    ASSUME NEW rows, NEW s, NEW T, Going(rows, s, T), s.at \in 1 .. Len(SeedTasks) - 1,
           SeedTasks[s.at].kind = "mechanic", NEW v, NEW s2,
           s2 = Further(s, Mechanic, v, s.ruleset)
    PROVE  Going(rows, s2, T)
<1>1. s.at = 2
    BY SeedTasksAre DEF InOrder
<1>2. Safe(rows, s, Mechanic, v, s.ruleset)
    BY <1>1, TablesApart DEF Safe, Keys
<1>3. Ready(rows, s2, T, SeedTasks[s.at])
    BY DEF Further, With, Ready
<1>4. QED
    BY <1>2, <1>3, GoesOn

\* A ruleset that is created when there is none is the only one.
LEMMA RulesetCreated ==
    ASSUME NEW rows, NEW s, NEW T, Going(rows, s, T), s.at \in 1 .. Len(SeedTasks) - 1,
           SeedTasks[s.at].kind = "ruleset", NEW r \in RulesetKeys,
           \A q \in RulesetKeys : See(rows, s, q) = None,
           NEW s2, s2 = Further(s, r, "published", r)
    PROVE  Going(rows, s2, T)
<1>1. s.at = 3
    BY SeedTasksAre DEF InOrder
<1>2. Safe(rows, s, r, "published", r)
    BY <1>1, TablesApart DEF Safe, Keys
<1>3. RulesetReady(rows, s2)
    <2>1. s2.ruleset = r /\ See(rows, s2, r) = "published"
          /\ \A q \in RulesetKeys : q # r => See(rows, s2, q) = See(rows, s, q)
        BY DEF Further, With, See
    <2>2. QED
        BY <2>1, SeedAssumption DEF RulesetReady
<1>4. Ready(rows, s2, T, SeedTasks[s.at])
    BY <1>3 DEF Ready
<1>5. QED
    BY <1>2, <1>4, GoesOn

\* One that is found is the only one there is: it is the mechanic's current one.
LEMMA RulesetFound ==
    ASSUME NEW rows, NEW s, NEW T, Going(rows, s, T), s.at \in 1 .. Len(SeedTasks) - 1,
           SeedTasks[s.at].kind = "ruleset", NEW r \in RulesetKeys, See(rows, s, r) # None,
           Sound(rows), NEW s2, s2 = [at |-> s.at + 1, ruleset |-> r, wrote |-> s.wrote]
    PROVE  Going(rows, s2, T)
<1>1. s.at = 3 /\ Len(SeedTasks) \in Nat
    BY SeedTasksAre DEF InOrder
<1>2. \A q \in RulesetKeys : See(rows, s, q) = rows[q]
    BY <1>1, TablesApart DEF See, Going, Written
<1>3. \A q \in RulesetKeys : See(rows, s2, q) = See(rows, s, q)
    BY DEF See
<1>4. \A q \in RulesetKeys : See(rows, s2, q) # None <=> q = r
    BY <1>2, <1>3 DEF Sound
<1>5. RulesetReady(rows, s2)
    BY <1>4 DEF RulesetReady
<1>6. Ready(rows, s, T, SeedTasks[1]) /\ Ready(rows, s, T, SeedTasks[2])
    BY <1>1 DEF Going, ReadySoFar
<1>7. Ready(rows, s2, T, SeedTasks[1]) /\ Ready(rows, s2, T, SeedTasks[2])
      /\ Ready(rows, s2, T, SeedTasks[3])
    BY <1>1, <1>5, <1>6, SeedTasksAre DEF Ready, InOrder
<1>8. ReadySoFar(rows, s2, T)
    BY <1>1, <1>7 DEF ReadySoFar
<1>9. Written(s2)
    <2>1. s2.at = 4 /\ s2.wrote = s.wrote
        BY <1>1
    <2>2. s2.at \in 0 .. Len(SeedTasks)
        BY <1>1
    <2>3. QED
        BY <2>1, <2>2 DEF Written, Going
<1>10. QED
    BY <1>8, <1>9 DEF Going

\* The source is saved under its title, the only one if the staff has none of it.
LEMMA SourceDone ==
    ASSUME NEW rows, NEW s, NEW T, Going(rows, s, T), s.at \in 1 .. Len(SeedTasks) - 1,
           SeedTasks[s.at].kind = "source", NEW k, NEW v, v = SeedTasks[s.at].about,
           Unmatched(rows, s, SourceKeys, k, v), NEW s2, s2 = Further(s, k, v, s.ruleset)
    PROVE  Going(rows, s2, T)
<1>1. s.at > 3
    BY SeedTasksAre DEF InOrder
<1>2. k \in SourceKeys
    BY DEF Unmatched
<1>3. Safe(rows, s, k, v, s.ruleset)
    BY <1>1, <1>2, TablesApart DEF Safe, Keys
<1>4. SourceReady(rows, s2, T, v)
    <2>1. /\ k \in DOMAIN s2.wrote /\ s2.wrote[k] = v
          /\ \A j \in SourceKeys : j # k => See(rows, s2, j) = See(rows, s, j)
        BY DEF Further, With, See
    <2>2. \A j \in SourceKeys : See(rows, s2, j) = v => j = k
        BY <2>1 DEF Unmatched
    <2>3. QED
        BY <1>2, <2>1, <2>2 DEF SourceReady
<1>5. Ready(rows, s2, T, SeedTasks[s.at])
    BY <1>4 DEF Ready
<1>6. QED
    BY <1>3, <1>5, GoesOn

\* By then the sources are there.
LEMMA SourcesBefore ==
    ASSUME NEW rows, NEW s, NEW T, Going(rows, s, T), s.at \in 1 .. Len(SeedTasks) - 1,
           SeedTasks[s.at].kind = "claim", NEW t \in Titles
    PROVE  \E k \in SourceKeys \cap DOMAIN s.wrote : s.wrote[k] = t
<1>1. s.at \in 1 .. Len(SeedTasks)
    BY SeedTasksAre DEF InOrder
<1>2. PICK i \in 1 .. s.at - 1 : SeedTasks[i].kind = "source" /\ SeedTasks[i].about = t
    BY <1>1, SeedTasksAre DEF SourcesFirst
<1>3. SourceReady(rows, s, T, t)
    BY <1>2 DEF Going, ReadySoFar, Ready
<1>4. QED
    BY <1>3 DEF SourceReady

\* The claim is saved for the source that this run has saved.
LEMMA ClaimDone ==
    ASSUME NEW rows, NEW s, NEW T, Going(rows, s, T), s.at \in 1 .. Len(SeedTasks) - 1,
           SeedTasks[s.at].kind = "claim", NEW x, x = SeedTasks[s.at].about,
           NEW i \in SourceKeys \cap DOMAIN s.wrote, s.wrote[i] = TitleOf[x],
           NEW k, NEW v, v = ClaimOf(i, s.ruleset, x),
           Unmatched(rows, s, ClaimKeys, k, v), NEW s2, s2 = Further(s, k, v, s.ruleset)
    PROVE  Going(rows, s2, T)
<1>1. s.at > 3 /\ x \in Scopes
    BY SeedTasksAre DEF InOrder, Rightly
<1>2. k \in ClaimKeys
    BY DEF Unmatched
<1>3. IsClaim(v)
    BY <1>1, PastRuleset DEF IsClaim
<1>4. Safe(rows, s, k, v, s.ruleset)
    BY <1>1, <1>2, <1>3, TablesApart DEF Safe, Keys
<1>5. ClaimReady(rows, s2, x)
    <2>1. /\ DOMAIN s2.wrote = DOMAIN s.wrote \cup {k} /\ s2.wrote[k] = v
          /\ \A j \in DOMAIN s.wrote : j # k => s2.wrote[j] = s.wrote[j]
          /\ \A j \in ClaimKeys : j # k => See(rows, s2, j) = See(rows, s, j)
          /\ s2.ruleset = s.ruleset
        BY DEF Further, With, See
    <2>2. i # k
        BY <1>2, TablesApart
    <2>3. i \in DOMAIN s2.wrote /\ s2.wrote[i] = TitleOf[x]
        BY <2>1, <2>2
    <2>4. \A d \in ClaimKeys : See(rows, s2, d) = v => d = k
        BY <2>1 DEF Unmatched
    <2>5. QED
        BY <1>2, <2>1, <2>3, <2>4 DEF ClaimReady
<1>6. Ready(rows, s2, T, SeedTasks[s.at])
    BY <1>5 DEF Ready
<1>7. QED
    BY <1>4, <1>6, GoesOn

\* The mechanic's current ruleset is set to the one the seed has found or created.
LEMMA CurrentDone ==
    ASSUME NEW rows, NEW s, NEW T, Going(rows, s, T), s.at \in 1 .. Len(SeedTasks) - 1,
           SeedTasks[s.at].kind = "current", NEW s2, s2 = Further(s, Mechanic, s.ruleset, s.ruleset)
    PROVE  Going(rows, s2, T)
<1>1. s.at > 3
    BY SeedTasksAre DEF InOrder
<1>2. Safe(rows, s, Mechanic, s.ruleset, s.ruleset)
    BY <1>1, TablesApart DEF Safe, Keys
<1>3. Ready(rows, s2, T, SeedTasks[s.at])
    BY DEF Further, With, Ready
<1>4. QED
    BY <1>2, <1>3, GoesOn

\* A page, or a translation, is published.
LEMMA PageDone ==
    ASSUME NEW rows, NEW s, NEW T, Going(rows, s, T), s.at \in 1 .. Len(SeedTasks) - 1,
           SeedTasks[s.at].kind \in {"page", "text"}, NEW k, k = SeedTasks[s.at].about,
           NEW s2, s2 = Further(s, k, "published", s.ruleset)
    PROVE  Going(rows, s2, T)
<1>1. s.at > 3 /\ k \in Slugs \cup Texts
    BY SeedTasksAre DEF InOrder, Rightly
<1>2. Safe(rows, s, k, "published", s.ruleset)
    BY <1>1, TablesApart DEF Safe, Keys
<1>3. Ready(rows, s2, T, SeedTasks[s.at])
    BY DEF Further, With, Ready
<1>4. QED
    BY <1>2, <1>3, GoesOn

-----------------------------------------------------------------------------
(* What is committed *)

\* A task that nothing is left out of is done when the commit's turn has come.
LEMMA AllDone ==
    ASSUME NEW rows, NEW s, NEW T, Going(rows, s, T), s.at = Len(SeedTasks),
           NEW kind, kind # "commit", NEW about, IsIn(SeedTasks, kind, about)
    PROVE  \E task : task.kind = kind /\ task.about = about /\ Ready(rows, s, T, task)
<1>1. PICK i \in 1 .. Len(SeedTasks) : SeedTasks[i].kind = kind /\ SeedTasks[i].about = about
    BY DEF IsIn
<1>2. Len(SeedTasks) \in Nat /\ SeedTasks[Len(SeedTasks)].kind = "commit"
    BY SeedTasksAre DEF InOrder
<1>3. i \in 1 .. s.at - 1
    BY <1>1, <1>2
<1>4. Ready(rows, s, T, SeedTasks[i])
    BY <1>3 DEF Going, ReadySoFar
<1>5. QED
    BY <1>1, <1>4

\* The database when the seed has committed.
View(rows, s) == [k \in Keys |-> See(rows, s, k)]

\* A seed that has done all its tasks commits a whole database,
LEMMA CommitIsWhole ==
    ASSUME NEW rows, NEW s, Going(rows, s, titled), s.at = Len(SeedTasks), Sound(rows),
           NEW new, new = View(rows, s)
    PROVE  Whole(new)
<1>1. \A k \in Keys : new[k] = See(rows, s, k)
    BY DEF View
<1>2. Mechanic \in Keys /\ RulesetKeys \subseteq Keys /\ SourceKeys \subseteq Keys
      /\ ClaimKeys \subseteq Keys /\ Slugs \subseteq Keys /\ Texts \subseteq Keys
    BY DEF Keys
<1>3. s.at > 3
    BY SeedTasksAre DEF InOrder
<1>4. PICK r \in RulesetKeys : r = s.ruleset /\ RulesetReady(rows, s)
    BY <1>3, PastRuleset
<1>5. new[Mechanic] = r
    <2>1. IsIn(SeedTasks, "current", Mechanic)
        BY SeedTasksAre DEF NothingIsLeftOut
    <2>2. Mechanic \in DOMAIN s.wrote /\ s.wrote[Mechanic] = s.ruleset
        BY <2>1, AllDone DEF Ready
    <2>3. QED
        BY <1>1, <1>2, <1>4, <2>2 DEF See
<1>6. \A q \in RulesetKeys : new[q] # None <=> q = r
    BY <1>1, <1>2, <1>4 DEF RulesetReady
<1>7. Cardinality({q \in RulesetKeys : new[q] # None}) = 1
    <2>1. {q \in RulesetKeys : new[q] # None} = {r}
        BY <1>6
    <2>2. QED
        BY <2>1, FS_Singleton
<1>8. ASSUME NEW t \in Titles
      PROVE  \E k \in SourceKeys \cap DOMAIN s.wrote :
                 /\ new[k] = t
                 /\ t \notin titled => \A j \in SourceKeys : new[j] = t => j = k
    <2>1. IsIn(SeedTasks, "source", t)
        BY SeedTasksAre DEF NothingIsLeftOut
    <2>2. SourceReady(rows, s, titled, t)
        BY <2>1, AllDone DEF Ready
    <2>3. PICK k \in SourceKeys \cap DOMAIN s.wrote :
              s.wrote[k] = t /\ (t \notin titled => \A j \in SourceKeys : See(rows, s, j) = t => j = k)
        BY <2>2 DEF SourceReady
    <2>4. new[k] = t
        BY <1>1, <1>2, <2>3 DEF See
    <2>5. QED
        BY <1>1, <1>2, <2>3, <2>4
<1>9. ASSUME NEW t \in Titles
      PROVE  LET same == {k \in SourceKeys : new[k] = t} IN
             same # {} /\ (t \notin titled => Cardinality(same) = 1)
    <2>1. PICK same : same = {k \in SourceKeys : new[k] = t}
        OBVIOUS
    <2>2. PICK k \in SourceKeys :
              new[k] = t /\ (t \notin titled => \A j \in SourceKeys : new[j] = t => j = k)
        BY <1>8
    <2>3. t \notin titled => same = {k}
        BY <2>1, <2>2
    <2>4. same # {} /\ (t \notin titled => Cardinality(same) = 1)
        BY <2>1, <2>2, <2>3, FS_Singleton
    <2>5. QED
        BY <2>1, <2>4
<1>10. ASSUME NEW x \in Scopes
       PROVE  LET same == {c \in ClaimKeys : /\ new[c] # None
                                            /\ new[c].scope = x /\ new[c].ruleset = new[Mechanic]
                                            /\ new[new[c].source] = TitleOf[x]}
              IN  same # {} /\ (TitleOf[x] \notin titled => Cardinality(same) = 1)
    <2>1. PICK same : same = {c \in ClaimKeys : /\ new[c] # None
                                                /\ new[c].scope = x /\ new[c].ruleset = new[Mechanic]
                                                /\ new[new[c].source] = TitleOf[x]}
        OBVIOUS
    <2>2. IsIn(SeedTasks, "claim", x)
        BY SeedTasksAre DEF NothingIsLeftOut
    <2>3. ClaimReady(rows, s, x)
        BY <2>2, AllDone DEF Ready
    <2>4. PICK k \in SourceKeys \cap DOMAIN s.wrote, c \in ClaimKeys \cap DOMAIN s.wrote :
              /\ s.wrote[k] = TitleOf[x] /\ s.wrote[c] = ClaimOf(k, r, x)
              /\ \A d \in ClaimKeys : See(rows, s, d) = ClaimOf(k, r, x) => d = c
        BY <1>4, <2>3 DEF ClaimReady
    <2>5. new[k] = TitleOf[x] /\ new[c] = ClaimOf(k, r, x)
          /\ \A d \in ClaimKeys : new[d] = ClaimOf(k, r, x) => d = c
        BY <1>1, <1>2, <2>4 DEF See
    <2>6. ClaimOf(k, r, x) # None
        BY SeedAssumption DEF ClaimOf
    <2>7. c \in same
        BY <1>5, <2>1, <2>5, <2>6 DEF ClaimOf
    <2>8. ASSUME TitleOf[x] \notin titled, NEW d \in same PROVE d = c
        <3>1. d \in ClaimKeys /\ new[d] # None /\ new[d].scope = x /\ new[d].ruleset = r
              /\ new[new[d].source] = TitleOf[x]
            BY <1>5, <2>1
        <3>2. IsClaim(new[d])
            BY <1>1, <1>2, <3>1 DEF See, Sound, Going, Written
        <3>3. PICK i \in SourceKeys : new[d] = ClaimOf(i, r, x)
            BY <3>1, <3>2 DEF IsClaim, ClaimOf
        <3>4. new[i] = TitleOf[x]
            BY <3>1, <3>3 DEF ClaimOf
        <3>5. TitleOf[x] \in Titles
            BY SeedAssumption
        <3>6. i = k
            BY <1>8, <2>4, <2>5, <2>8, <3>4, <3>5
        <3>7. QED
            BY <2>5, <3>1, <3>3, <3>6
    <2>9. TitleOf[x] \notin titled => same = {c}
        BY <2>7, <2>8
    <2>10. same # {} /\ (TitleOf[x] \notin titled => Cardinality(same) = 1)
        BY <2>7, <2>9, FS_Singleton
    <2>11. QED
        BY <2>1, <2>10
<1>11. ASSUME NEW slug \in Slugs, NEW locale \in Locales PROVE Shown(new, slug, locale)
    <2>1. <<slug, locale>> \in Texts
        BY DEF Texts
    <2>2. IsIn(SeedTasks, "page", slug) /\ IsIn(SeedTasks, "text", <<slug, locale>>)
        BY <2>1, SeedTasksAre DEF NothingIsLeftOut
    <2>3. slug \in DOMAIN s.wrote /\ s.wrote[slug] = "published"
        BY <2>2, AllDone DEF Ready
    <2>4. <<slug, locale>> \in DOMAIN s.wrote /\ s.wrote[<<slug, locale>>] = "published"
        BY <2>2, AllDone DEF Ready
    <2>5. QED
        BY <1>1, <1>2, <2>1, <2>3, <2>4 DEF See, Shown
<1>12. \E q \in RulesetKeys : new[q] # None /\ new[Mechanic] = q
    BY <1>5, <1>6
<1>13. QED
    BY <1>7, <1>9, <1>10, <1>11, <1>12 DEF Whole

\* and a sound one.
LEMMA CommitIsSound ==
    ASSUME NEW rows, NEW s, NEW T, Going(rows, s, T), s.at = Len(SeedTasks), Sound(rows),
           NEW new, new = View(rows, s)
    PROVE  Sound(new) /\ new[Site] = "published"
<1>1. \A k \in Keys : new[k] = See(rows, s, k)
    BY DEF View
<1>2. Mechanic \in Keys /\ RulesetKeys \subseteq Keys /\ ClaimKeys \subseteq Keys /\ Site \in Keys
    BY DEF Keys
<1>3. s.at > 3
    BY SeedTasksAre DEF InOrder
<1>4. RulesetReady(rows, s)
    BY <1>3, PastRuleset
<1>5. new[Mechanic] = s.ruleset
    <2>1. IsIn(SeedTasks, "current", Mechanic)
        BY SeedTasksAre DEF NothingIsLeftOut
    <2>2. Mechanic \in DOMAIN s.wrote /\ s.wrote[Mechanic] = s.ruleset
        BY <2>1, AllDone DEF Ready
    <2>3. QED
        BY <1>1, <1>2, <2>2 DEF See
<1>6. \A r \in RulesetKeys : new[r] # None => new[Mechanic] = r
    BY <1>1, <1>2, <1>4, <1>5 DEF RulesetReady
<1>7. \A c \in ClaimKeys : new[c] # None => IsClaim(new[c])
    BY <1>1, <1>2 DEF See, Sound, Going, Written
<1>8. new[Site] = "published"
    BY <1>1, <1>2, <1>3, PastSite DEF See
<1>9. new = [k \in Keys |-> new[k]]
    BY DEF View
<1>10. QED
    BY <1>6, <1>7, <1>8, <1>9 DEF Sound

-----------------------------------------------------------------------------
(* The invariant of the database *)

\* Whoever can run one of the two commands.
Everyone == Seeders \cup ContentSeeders

\* Who runs seed_content by itself holds nothing.
SeedersTyped ==
    /\ seeder = [p \in Everyone |-> seeder[p]]
    /\ \A p \in ContentSeeders :
          /\ seeder[p] = [at |-> seeder[p].at, ruleset |-> seeder[p].ruleset,
                          wrote |-> seeder[p].wrote]
          /\ seeder[p].at \in 0 .. Len(ContentTasks) /\ DOMAIN seeder[p].wrote = {}

\* What a dump holds was committed.
DataSound ==
    /\ Sound(row)
    /\ \A f \in file : Sound(f.data)
    /\ \A b \in Backups : backup[b].step = "dumping" => Sound(backup[b].data)
    /\ backup = [b \in Backups |-> backup[b]]

\* Nobody is at work while the database is lost.
AtWork == \A p \in Everyone : seeder[p].at # 0 => row[Site] # None

\* A row that one seed has written, no other has.
LocksApart ==
    \A p, q \in Seeders : p # q => DOMAIN seeder[p].wrote \cap DOMAIN seeder[q].wrote = {}

\* Every seed has done the tasks that it is past.
SeedsGo == \A p \in Seeders : Going(row, seeder[p], titled)

\* The invariant.
DatabaseInv == SeedersTyped /\ DataSound /\ AtWork /\ LocksApart /\ SeedsGo

\* Before its first task, and at it, a seed has written nothing.
LEMMA EarlyGoes ==
    ASSUME NEW rows, NEW s, NEW T, Going(rows, s, T), s.at <= 1, NEW new, NEW T2
    PROVE  Going(new, s, T2)
<1>1. s.at \in Nat
    BY SeedTasksAre DEF Going, Written, InOrder
<1>2. 1 .. s.at - 1 = {}
    BY <1>1
<1>3. QED
    BY <1>2 DEF Going, ReadySoFar

\* A seed that is not running has nothing to show.
LEMMA IdleGoes ==
    ASSUME NEW rows, NEW T PROVE Going(rows, Idle, T) /\ DOMAIN Idle.wrote = {} /\ Idle.at = 0
<1>1. Idle.at = 0 /\ Idle = [at |-> Idle.at, ruleset |-> Idle.ruleset, wrote |-> Idle.wrote]
    BY DEF Idle
<1>2. DOMAIN Idle.wrote = {}
    BY DEF Idle
<1>3. Len(SeedTasks) \in Nat
    BY SeedTasksAre DEF InOrder
<1>4. QED
    BY <1>1, <1>2, <1>3 DEF Going, ReadySoFar, Written

\* It holds at first: nobody is at work and nothing has been dumped.
LEMMA DatabaseInit == Init => DatabaseInv
<1> SUFFICES ASSUME Init PROVE DatabaseInv
    OBVIOUS
<1>1. /\ row = [k \in Keys |-> IF k = Site THEN "published" ELSE None]
      /\ seeder = [p \in Everyone |-> Idle]
      /\ file = {} /\ backup = [b \in Backups |-> Resting]
    BY DEF Init, SeedInit, Everyone
<1>2. Site \in Keys /\ row[Site] = "published" /\ \A k \in Keys : k # Site => row[k] = None
    BY <1>1 DEF Keys
<1>3. \A p \in Everyone : seeder[p] = Idle
    BY <1>1
<1>4. Sound(row)
    <2>1. row = [k \in Keys |-> row[k]]
        BY <1>1
    <2>2. \A k \in RulesetKeys \cup ClaimKeys : row[k] = None
        BY <1>2, TablesApart DEF Keys
    <2>3. QED
        BY <2>1, <2>2 DEF Sound
<1>5. \A b \in Backups : backup[b].step # "dumping"
    BY <1>1 DEF Resting
<1>6. SeedersTyped
    <2>1. Len(ContentTasks) \in Nat
        BY ContentTasksAre
    <2>2. Idle = [at |-> Idle.at, ruleset |-> Idle.ruleset, wrote |-> Idle.wrote]
        BY DEF Idle
    <2>3. \A p \in ContentSeeders : seeder[p] = Idle
        BY <1>3 DEF Everyone
    <2>4. seeder = [p \in Everyone |-> seeder[p]]
        BY <1>1
    <2>5. Idle.at \in 0 .. Len(ContentTasks) /\ DOMAIN Idle.wrote = {}
        BY <2>1, IdleGoes
    <2>6. QED
        BY <2>2, <2>3, <2>4, <2>5 DEF SeedersTyped
<1>7. SeedsGo /\ LocksApart /\ AtWork
    BY <1>2, <1>3, IdleGoes DEF SeedsGo, LocksApart, AtWork, Everyone
<1>8. QED
    BY <1>1, <1>4, <1>5, <1>6, <1>7 DEF DatabaseInv, DataSound

-----------------------------------------------------------------------------
(* Steps of one seed *)

\* What one seed does that writes no committed row.
LEMMA SeedChanges ==
    ASSUME DatabaseInv, NEW p \in Seeders, NEW new,
           seeder' = [seeder EXCEPT ![p] = new], Going(row, new, titled),
           \A q \in Seeders : q # p => DOMAIN new.wrote \cap DOMAIN seeder[q].wrote = {},
           new.at # 0 => row[Site] # None, UNCHANGED <<row, titled, file, backup>>
    PROVE  DatabaseInv'
<1>1. p \in Everyone /\ p \notin ContentSeeders /\ Seeders \subseteq Everyone
      /\ ContentSeeders \subseteq Everyone
    BY SeedAssumption DEF Everyone
<1>2. /\ seeder' = [q \in Everyone |-> seeder'[q]] /\ seeder'[p] = new
      /\ \A q \in Everyone : q # p => seeder'[q] = seeder[q]
    BY <1>1 DEF DatabaseInv, SeedersTyped
<1>3. SeedersTyped'
    BY <1>1, <1>2 DEF DatabaseInv, SeedersTyped, Everyone
<1>4. DataSound'
    BY DEF DatabaseInv, DataSound
<1>5. AtWork'
    BY <1>2 DEF DatabaseInv, AtWork
<1>6. LocksApart'
    BY <1>1, <1>2 DEF DatabaseInv, LocksApart
<1>7. SeedsGo'
    BY <1>1, <1>2 DEF DatabaseInv, SeedsGo
<1>8. QED
    BY <1>3, <1>4, <1>5, <1>6, <1>7 DEF DatabaseInv

\* What seed_content and the staff do, the rows that a seed has written being locked.
LEMMA RowsChange ==
    ASSUME DatabaseInv, SeedersTyped', Sound(row'), row'[Site] # None,
           UNCHANGED <<file, backup>>,
           \A p \in Seeders : /\ seeder'[p] = seeder[p]
                              /\ Around(row, row', seeder[p], titled, titled')
    PROVE  DatabaseInv'
<1>1. DataSound'
    BY DEF DatabaseInv, DataSound
<1>2. AtWork'
    BY DEF AtWork
<1>3. LocksApart'
    BY DEF DatabaseInv, LocksApart
<1>4. SeedsGo'
    BY AroundKeeps DEF DatabaseInv, SeedsGo
<1>5. QED
    BY <1>1, <1>2, <1>3, <1>4 DEF DatabaseInv

\* A run that ends, or stops at an error: what it had written is gone, and nothing else changes.
LEMMA DoneKeeps ==
    ASSUME DatabaseInv, NEW p \in Everyone, Done(p), UNCHANGED <<row, titled, file, backup>>
    PROVE  DatabaseInv'
<1>1. CASE p \in Seeders
    BY <1>1, IdleGoes, SeedChanges DEF Done
<1>2. CASE p \in ContentSeeders
    <2>1. p \notin Seeders
        BY <1>2, SeedAssumption
    <2>2. /\ seeder' = [q \in Everyone |-> seeder'[q]] /\ seeder'[p] = Idle
          /\ \A q \in Everyone : q # p => seeder'[q] = seeder[q]
        BY DEF Done, DatabaseInv, SeedersTyped
    <2>3. Idle.at \in 0 .. Len(ContentTasks) /\ DOMAIN Idle.wrote = {}
          /\ Idle = [at |-> Idle.at, ruleset |-> Idle.ruleset, wrote |-> Idle.wrote]
        BY IdleGoes, ContentTasksAre DEF Idle
    <2>4. SeedersTyped'
        BY <2>2, <2>3 DEF DatabaseInv, SeedersTyped, Everyone
    <2>5. \A q \in Seeders : seeder'[q] = seeder[q]
        BY <2>1, <2>2 DEF Everyone
    <2>6. AtWork' /\ DataSound'
        BY <2>2, IdleGoes DEF DatabaseInv, AtWork, DataSound
    <2>7. LocksApart' /\ SeedsGo'
        BY <2>5 DEF DatabaseInv, LocksApart, SeedsGo
    <2>8. QED
        BY <2>4, <2>6, <2>7 DEF DatabaseInv
<1>3. QED
    BY <1>1, <1>2 DEF Everyone

\* What a seed does at a task that is not its last.
LEMMA AtATask ==
    ASSUME DatabaseInv, NEW p \in Seeders, NEW kind, Doing(p, kind), kind # "commit"
    PROVE  /\ seeder[p].at \in 1 .. Len(SeedTasks) - 1 /\ Going(row, seeder[p], titled)
           /\ SeedTasks[seeder[p].at].kind = kind /\ About(p) = SeedTasks[seeder[p].at].about
<1>1. seeder[p].at # 0 /\ SeedTasks[seeder[p].at].kind = kind
    BY DEF Doing, TasksOf
<1>2. Going(row, seeder[p], titled)
    BY DEF DatabaseInv, SeedsGo
<1>3. seeder[p].at \in 0 .. Len(SeedTasks) /\ Len(SeedTasks) \in Nat
    BY <1>2, SeedTasksAre DEF Going, Written, InOrder
<1>4. seeder[p].at # Len(SeedTasks)
    BY <1>1, SeedTasksAre DEF InOrder
<1>5. QED
    BY <1>1, <1>2, <1>3, <1>4 DEF About, TasksOf

\* A write goes on with the next task, and nobody else has written the row.
LEMMA SeedWrites ==
    ASSUME DatabaseInv, NEW p \in Seeders, NEW k, NEW v, NEW r, Keeps(p, k, v, r),
           seeder[p].at \in 1 .. Len(SeedTasks) - 1,
           Going(row, Further(seeder[p], k, v, r), titled), UNCHANGED <<titled, file, backup>>
    PROVE  DatabaseInv'
<1>1. PICK s : s = seeder[p]
    OBVIOUS
<1>2. s = [at |-> s.at, ruleset |-> s.ruleset, wrote |-> s.wrote]
    BY <1>1 DEF DatabaseInv, SeedsGo, Going, Written
<1>3. Len(SeedTasks) \in Nat
    BY SeedTasksAre DEF InOrder
<1>4. Atomic(p) /\ TasksOf(p) = SeedTasks /\ seeder[p].at # Len(SeedTasks)
    BY <1>3 DEF Atomic, TasksOf
<1>5. row' = row /\ ~Locked(k, p)
    BY <1>4 DEF Keeps
<1>6. seeder' = [seeder EXCEPT ![p] = Further(s, k, v, r)]
    <2>1. PICK next : /\ next = [seeder[p] EXCEPT !.at = @ + 1, !.ruleset = r]
                      /\ seeder' = [seeder EXCEPT ![p] = [next EXCEPT !.wrote = With(@, k, v)]]
        BY <1>4 DEF Keeps
    <2>2. next = [at |-> s.at + 1, ruleset |-> r, wrote |-> s.wrote]
        BY <1>1, <1>2, <2>1
    <2>3. PICK new : new = With(s.wrote, k, v) /\ With(next.wrote, k, v) = new
        BY <2>2
    <2>4. [next EXCEPT !.wrote = new] = [at |-> s.at + 1, ruleset |-> r, wrote |-> new]
        BY <2>2
    <2>5. QED
        BY <2>1, <2>3, <2>4 DEF Further
<1>7. \A q \in Seeders : q # p =>
          DOMAIN Further(s, k, v, r).wrote \cap DOMAIN seeder[q].wrote = {}
    <2>1. \A q \in Seeders : q # p => k \notin DOMAIN seeder[q].wrote
        BY <1>5 DEF Locked, DatabaseInv, SeedersTyped, Everyone
    <2>2. DOMAIN Further(s, k, v, r).wrote = DOMAIN s.wrote \cup {k}
        BY DEF Further, With
    <2>3. QED
        BY <1>1, <2>1, <2>2 DEF DatabaseInv, LocksApart
<1>8. row[Site] # None
    BY DEF DatabaseInv, AtWork, Everyone
<1>9. QED
    BY <1>1, <1>5, <1>6, <1>7, <1>8, SeedChanges DEF Further

\* get(): more than one, one, or none.
LEMMA MatchesAre ==
    ASSUME NEW ks, IsFiniteSet(ks), NEW S \in SUBSET ks
    PROVE  \/ Cardinality(S) > 1
           \/ Cardinality(S) = 1 /\ \E k \in ks : S = {k}
           \/ ~(Cardinality(S) > 1) /\ Cardinality(S) # 1 /\ S = {}
<1>1. IsFiniteSet(S)
    BY FS_Subset
<1>2. PICK n \in Nat : n = Cardinality(S)
    BY <1>1, FS_CardinalityType
<1>3. n = 0 => S = {}
    BY <1>1, <1>2, FS_EmptySet
<1>4. n = 1 => \E k : S = {k}
    BY <1>1, <1>2, FS_Singleton
<1>5. n > 1 \/ n = 1 \/ n = 0
    BY <1>2
<1>6. QED
    BY <1>2, <1>3, <1>4, <1>5

\* The one row that matches, or a new one that nobody has written.
LEMMA UpdateOrCreateIs ==
    ASSUME DatabaseInv, NEW p \in Seeders, NEW ks, IsFiniteSet(ks), NEW v,
           NEW matching, matching = {k \in ks : Sees(p, k) = v},
           UpdateOrCreate(p, ks, matching, v)
    PROVE  \/ Done(p) /\ UNCHANGED row
           \/ \E k : Unmatched(row, seeder[p], ks, k, v) /\ Writes(p, k, v)
<1>1. \A k \in ks : k \in matching <=> See(row, seeder[p], k) = v
    BY DEF Sees, See
<1>2. \/ Cardinality(matching) > 1
      \/ Cardinality(matching) = 1 /\ \E k \in ks : matching = {k}
      \/ ~(Cardinality(matching) > 1) /\ Cardinality(matching) # 1 /\ matching = {}
    BY MatchesAre
<1>3. CASE Cardinality(matching) > 1
    BY <1>3 DEF UpdateOrCreate
<1>4. CASE Cardinality(matching) = 1 /\ \E k \in ks : matching = {k}
    <2>1. ~(Cardinality(matching) > 1)
        BY <1>4
    <2>2. PICK k \in matching : Writes(p, k, v)
        BY <1>4, <2>1 DEF UpdateOrCreate
    <2>3. Unmatched(row, seeder[p], ks, k, v)
        BY <1>1, <1>4, <2>2 DEF Unmatched, See
    <2>4. QED
        BY <2>2, <2>3
<1>5. CASE ~(Cardinality(matching) > 1) /\ Cardinality(matching) # 1 /\ matching = {}
    <2>1. PICK k : k \in Unused(ks) /\ Writes(p, k, v)
        BY <1>5 DEF UpdateOrCreate
    <2>2. k \in ks /\ k \notin DOMAIN seeder[p].wrote
        BY <2>1 DEF Unused, Free, DatabaseInv, SeedersTyped, Everyone
    <2>3. Unmatched(row, seeder[p], ks, k, v)
        BY <1>1, <1>5, <2>2 DEF Unmatched
    <2>4. QED
        BY <2>1, <2>3
<1>6. QED
    BY <1>2, <1>3, <1>4, <1>5

\* A command that starts.
LEMMA RunKeeps ==
    ASSUME DatabaseInv, NEW p \in Everyone, Run(p), UNCHANGED <<titled, file, backup>>
    PROVE  DatabaseInv'
<1>1. PICK new : new = [Idle EXCEPT !.at = 1]
    OBVIOUS
<1>2. new.at = 1 /\ new.wrote = Idle.wrote /\ DOMAIN new.wrote = {}
      /\ new = [at |-> new.at, ruleset |-> new.ruleset, wrote |-> new.wrote]
    BY <1>1, IdleGoes DEF Idle
<1>3. seeder' = [seeder EXCEPT ![p] = new] /\ row' = row /\ row[Site] # None
    BY <1>1 DEF Run
<1>4. CASE p \in Seeders
    <2>1. Len(SeedTasks) \in Nat /\ Len(SeedTasks) > 4
        BY SeedTasksAre DEF InOrder
    <2>2. Written(new)
        BY <1>2, <2>1 DEF Written
    <2>3. ReadySoFar(row, new, titled)
        <3>1. 1 .. new.at - 1 = {}
            BY <1>2
        <3>2. QED
            BY <3>1 DEF ReadySoFar
    <2>4. Going(row, new, titled)
        BY <2>2, <2>3 DEF Going
    <2>5. QED
        BY <1>2, <1>3, <1>4, <2>4, SeedChanges
<1>5. CASE p \in ContentSeeders
    <2>1. p \notin Seeders
        BY <1>5, SeedAssumption
    <2>2. /\ seeder' = [q \in Everyone |-> seeder'[q]] /\ seeder'[p] = new
          /\ \A q \in Everyone : q # p => seeder'[q] = seeder[q]
        BY <1>3 DEF DatabaseInv, SeedersTyped
    <2>3. new.at \in 0 .. Len(ContentTasks)
        BY <1>2, ContentTasksAre
    <2>4. SeedersTyped'
        BY <1>2, <2>2, <2>3 DEF DatabaseInv, SeedersTyped, Everyone
    <2>5. \A q \in Seeders : seeder'[q] = seeder[q]
        BY <2>1, <2>2 DEF Everyone
    <2>6. AtWork' /\ DataSound'
        BY <1>3, <2>2 DEF DatabaseInv, AtWork, DataSound
    <2>7. LocksApart' /\ SeedsGo'
        BY <1>3, <2>5 DEF DatabaseInv, LocksApart, SeedsGo
    <2>8. QED
        BY <2>4, <2>6, <2>7 DEF DatabaseInv
<1>6. QED
    BY <1>4, <1>5 DEF Everyone

\* seed.py looks for the ruleset, and creates one if there is none.
LEMMA FindRulesetKeeps ==
    ASSUME DatabaseInv, NEW p \in Seeders, FindRuleset(p), UNCHANGED <<titled, file, backup>>
    PROVE  DatabaseInv'
<1>1. PICK s : s = seeder[p]
    OBVIOUS
<1>2. s.at \in 1 .. Len(SeedTasks) - 1 /\ Going(row, s, titled) /\ SeedTasks[s.at].kind = "ruleset"
    BY <1>1, AtATask DEF FindRuleset
<1>3. \A r \in RulesetKeys : Sees(p, r) = See(row, s, r)
    BY <1>1 DEF Sees, See
<1>4. CASE \E r \in RulesetKeys : See(row, s, r) # None
    <2>1. PICK r \in RulesetKeys :
              /\ See(row, s, r) # None /\ row' = row
              /\ seeder' = [seeder EXCEPT ![p].at = @ + 1, ![p].ruleset = r]
        BY <1>3, <1>4 DEF FindRuleset
    <2>2. PICK new : new = [at |-> s.at + 1, ruleset |-> r, wrote |-> s.wrote]
        OBVIOUS
    <2>3. seeder' = [seeder EXCEPT ![p] = new]
        <3>1. s = [at |-> s.at, ruleset |-> s.ruleset, wrote |-> s.wrote]
            BY <1>2 DEF Going, Written
        <3>2. PICK next : next = [s EXCEPT !.at = @ + 1, !.ruleset = r]
            OBVIOUS
        <3>3. PICK a, o, w : s = [at |-> a, ruleset |-> o, wrote |-> w]
            BY <3>1
        <3>4. next = [at |-> a + 1, ruleset |-> r, wrote |-> w]
            BY <3>2, <3>3
        <3>5. new = [at |-> a + 1, ruleset |-> r, wrote |-> w]
            BY <2>2, <3>3
        <3>6. seeder' = [seeder EXCEPT ![p] = next]
            BY <1>1, <2>1, <3>2
        <3>7. QED
            BY <3>4, <3>5, <3>6
    <2>4. Going(row, new, titled)
        BY <1>2, <2>1, <2>2, RulesetFound DEF DatabaseInv, DataSound
    <2>5. \A q \in Seeders : q # p => DOMAIN new.wrote \cap DOMAIN seeder[q].wrote = {}
        BY <1>1, <2>2 DEF DatabaseInv, LocksApart
    <2>6. row[Site] # None
        BY <1>1, <1>2 DEF DatabaseInv, AtWork, Everyone
    <2>7. QED
        BY <2>1, <2>3, <2>4, <2>5, <2>6, SeedChanges
<1>5. CASE \A r \in RulesetKeys : See(row, s, r) = None
    <2>1. PICK r : r \in Unused(RulesetKeys) /\ Keeps(p, r, "published", r)
        BY <1>3, <1>5 DEF FindRuleset
    <2>2. r \in RulesetKeys
        BY <2>1 DEF Unused
    <2>3. Going(row, Further(s, r, "published", r), titled)
        BY <1>2, <1>5, <2>2, RulesetCreated
    <2>4. QED
        BY <1>1, <1>2, <2>1, <2>3, SeedWrites
<1>6. QED
    BY <1>4, <1>5

\* update_or_create of a source.
LEMMA UpsertSourceKeeps ==
    ASSUME DatabaseInv, NEW p \in Seeders, UpsertSource(p), UNCHANGED <<titled, file, backup>>
    PROVE  DatabaseInv'
<1>1. PICK s, v : s = seeder[p] /\ v = About(p)
    OBVIOUS
<1>2. s.at \in 1 .. Len(SeedTasks) - 1 /\ Going(row, s, titled) /\ SeedTasks[s.at].kind = "source"
      /\ v = SeedTasks[s.at].about
    BY <1>1, AtATask DEF UpsertSource
<1>3. IsFiniteSet(SourceKeys)
    BY SeedAssumption
<1>4. PICK matching : /\ matching = {k \in SourceKeys : Sees(p, k) = v}
                      /\ UpdateOrCreate(p, SourceKeys, matching, v)
    BY <1>1 DEF UpsertSource
<1>5. \/ Done(p) /\ UNCHANGED row
      \/ \E k : Unmatched(row, s, SourceKeys, k, v) /\ Writes(p, k, v)
    BY <1>1, <1>3, <1>4, UpdateOrCreateIs
<1>6. CASE Done(p) /\ UNCHANGED row
    BY <1>6, DoneKeeps DEF Everyone
<1>7. ASSUME NEW k, Unmatched(row, s, SourceKeys, k, v), Writes(p, k, v) PROVE DatabaseInv'
    <2>1. Keeps(p, k, v, s.ruleset)
        BY <1>1, <1>7 DEF Writes
    <2>2. Going(row, Further(s, k, v, s.ruleset), titled)
        BY <1>2, <1>7, SourceDone
    <2>3. QED
        BY <1>1, <1>2, <2>1, <2>2, SeedWrites
<1>8. QED
    BY <1>5, <1>6, <1>7

\* update_or_create of a claim, of the source that this run has saved.
LEMMA UpsertClaimKeeps ==
    ASSUME DatabaseInv, NEW p \in Seeders, UpsertClaim(p), UNCHANGED <<titled, file, backup>>
    PROVE  DatabaseInv'
<1>1. PICK s, x, t : s = seeder[p] /\ x = About(p) /\ t = TitleOf[x]
    OBVIOUS
<1>2. s.at \in 1 .. Len(SeedTasks) - 1 /\ Going(row, s, titled) /\ SeedTasks[s.at].kind = "claim"
      /\ x = SeedTasks[s.at].about
    BY <1>1, AtATask DEF UpsertClaim
<1>3. t \in Titles
    <2>1. s.at \in 1 .. Len(SeedTasks)
        BY <1>2, SeedTasksAre DEF InOrder
    <2>2. x \in Scopes
        BY <1>2, <2>1, SeedTasksAre DEF InOrder, Rightly
    <2>3. QED
        BY <1>1, <2>2, SeedAssumption
<1>4. PICK i : i \in SourceKeys \cap DOMAIN s.wrote /\ s.wrote[i] = t /\ i = SourceOf(p, t)
    <2>1. \E k \in SourceKeys \cap DOMAIN s.wrote : s.wrote[k] = t
        BY <1>2, <1>3, SourcesBefore
    <2>2. SourceOf(p, t) = CHOOSE k \in SourceKeys \cap DOMAIN s.wrote : s.wrote[k] = t
        BY <1>1 DEF SourceOf
    <2>3. QED
        BY <2>1, <2>2
<1>5. PICK v : v = ClaimOf(i, s.ruleset, x)
    OBVIOUS
<1>6. IsFiniteSet(ClaimKeys)
    BY SeedAssumption
<1>7. PICK matching : /\ matching = {k \in ClaimKeys : Sees(p, k) = v}
                      /\ UpdateOrCreate(p, ClaimKeys, matching, v)
    BY <1>1, <1>4, <1>5 DEF UpsertClaim, ClaimOf
<1>8. \/ Done(p) /\ UNCHANGED row
      \/ \E k : Unmatched(row, s, ClaimKeys, k, v) /\ Writes(p, k, v)
    BY <1>1, <1>6, <1>7, UpdateOrCreateIs
<1>9. CASE Done(p) /\ UNCHANGED row
    BY <1>9, DoneKeeps DEF Everyone
<1>10. ASSUME NEW k, Unmatched(row, s, ClaimKeys, k, v), Writes(p, k, v) PROVE DatabaseInv'
    <2>1. Keeps(p, k, v, s.ruleset)
        BY <1>1, <1>10 DEF Writes
    <2>2. Going(row, Further(s, k, v, s.ruleset), titled)
        BY <1>1, <1>2, <1>4, <1>5, <1>10, ClaimDone
    <2>3. QED
        BY <1>1, <1>2, <2>1, <2>2, SeedWrites
<1>11. QED
    BY <1>8, <1>9, <1>10

\* The tasks that write a row of their own: the Site, the mechanic, and each page.
LEMMA SingleRowsKeep ==
    ASSUME DatabaseInv, NEW p \in Seeders, UNCHANGED <<titled, file, backup>>,
           UpsertSite(p) \/ UpsertMechanic(p) \/ SetCurrent(p) \/ UpsertPage(p)
    PROVE  DatabaseInv'
<1>1. PICK s : s = seeder[p]
    OBVIOUS
<1>2. CASE UpsertSite(p)
    <2>1. s.at \in 1 .. Len(SeedTasks) - 1 /\ Going(row, s, titled) /\ SeedTasks[s.at].kind = "site"
        BY <1>1, <1>2, AtATask DEF UpsertSite
    <2>2. Keeps(p, Site, "published", s.ruleset)
        BY <1>1, <1>2 DEF UpsertSite, Writes
    <2>3. QED
        BY <1>1, <2>1, <2>2, SiteDone, SeedWrites
<1>3. CASE UpsertMechanic(p)
    <2>1. s.at \in 1 .. Len(SeedTasks) - 1 /\ Going(row, s, titled)
          /\ SeedTasks[s.at].kind = "mechanic"
        BY <1>1, <1>3, AtATask DEF UpsertMechanic
    <2>2. PICK v : Keeps(p, Mechanic, v, s.ruleset)
        BY <1>1, <1>3 DEF UpsertMechanic, Writes
    <2>3. QED
        BY <1>1, <2>1, <2>2, MechanicDone, SeedWrites
<1>4. CASE SetCurrent(p)
    <2>1. s.at \in 1 .. Len(SeedTasks) - 1 /\ Going(row, s, titled)
          /\ SeedTasks[s.at].kind = "current"
        BY <1>1, <1>4, AtATask DEF SetCurrent
    <2>2. Keeps(p, Mechanic, s.ruleset, s.ruleset)
        BY <1>1, <1>4 DEF SetCurrent, Writes
    <2>3. QED
        BY <1>1, <2>1, <2>2, CurrentDone, SeedWrites
<1>5. CASE UpsertPage(p)
    <2>1. s.at \in 1 .. Len(SeedTasks) - 1 /\ Going(row, s, titled) /\ SeedTasks[s.at].kind = "page"
          /\ About(p) = SeedTasks[s.at].about
        BY <1>1, <1>5, AtATask DEF UpsertPage
    <2>2. Keeps(p, About(p), "published", s.ruleset)
        BY <1>1, <1>5 DEF UpsertPage, Writes
    <2>3. QED
        BY <1>1, <2>1, <2>2, PageDone, SeedWrites
<1>6. QED
    BY <1>2, <1>3, <1>4, <1>5

\* A translation: written, or left as it is when it has been withdrawn.
LEMMA UpsertTextKeeps ==
    ASSUME DatabaseInv, NEW p \in Seeders, UpsertText(p), UNCHANGED <<titled, file, backup>>
    PROVE  DatabaseInv'
<1>1. PICK s : s = seeder[p]
    OBVIOUS
<1>2. s.at \in 1 .. Len(SeedTasks) - 1 /\ Going(row, s, titled) /\ SeedTasks[s.at].kind = "text"
      /\ About(p) = SeedTasks[s.at].about
    BY <1>1, AtATask DEF UpsertText
<1>3. CASE Done(p) /\ UNCHANGED row
    BY <1>3, DoneKeeps DEF Everyone
<1>4. CASE Writes(p, About(p), "published")
    <2>1. Keeps(p, About(p), "published", s.ruleset)
        BY <1>1, <1>4 DEF Writes
    <2>2. QED
        BY <1>1, <1>2, <2>1, PageDone, SeedWrites
<1>5. QED
    BY <1>3, <1>4 DEF UpsertText

\* A commit is a seed's, whose turn is its last; the others have not got past their first task.
LEMMA CommitKeeps ==
    ASSUME DatabaseInv, NEW p \in Seeders, Commit(p), UNCHANGED <<titled, file, backup>>
    PROVE  DatabaseInv' /\ Whole(row')
<1>1. PICK s : s = seeder[p]
    OBVIOUS
<1>2. s.at # 0 /\ SeedTasks[s.at].kind = "commit" /\ Going(row, s, titled) /\ Sound(row)
    BY <1>1 DEF Commit, Doing, TasksOf, DatabaseInv, SeedsGo, DataSound
<1>3. s.at = Len(SeedTasks) /\ s.at > 4 /\ s.at \in Nat
    BY <1>2, SeedTasksAre DEF Going, Written, InOrder
<1>4. row' = View(row, s) /\ seeder' = [seeder EXCEPT ![p] = Idle]
    BY <1>1 DEF Commit, Done, View, See, Sees
<1>5. Whole(row') /\ Sound(row') /\ row'[Site] = "published"
    BY <1>2, <1>3, <1>4, CommitIsWhole, CommitIsSound
<1>6. /\ seeder' = [q \in Everyone |-> seeder'[q]] /\ seeder'[p] = Idle
      /\ \A q \in Everyone : q # p => seeder'[q] = seeder[q]
    BY <1>4 DEF DatabaseInv, SeedersTyped, Everyone
<1>7. p \notin ContentSeeders /\ Seeders \subseteq Everyone /\ ContentSeeders \subseteq Everyone
    BY SeedAssumption DEF Everyone
<1>8. SeedersTyped'
    BY <1>6, <1>7 DEF DatabaseInv, SeedersTyped, Everyone
<1>9. DataSound'
    BY <1>5 DEF DatabaseInv, DataSound
<1>10. AtWork'
    BY <1>5, SeedAssumption DEF AtWork
<1>11. LocksApart'
    BY <1>6, <1>7, IdleGoes DEF DatabaseInv, LocksApart
<1>12. ASSUME NEW q \in Seeders PROVE Going(row', seeder'[q], titled')
    <2>1. CASE q = p
        BY <1>6, <2>1, IdleGoes
    <2>2. CASE q # p
        <3>1. Going(row, seeder[q], titled) /\ seeder'[q] = seeder[q]
            BY <1>6, <1>7, <2>2 DEF DatabaseInv, SeedsGo
        <3>2. seeder[q].at \in Nat
            BY <3>1, SeedTasksAre DEF Going, Written, InOrder
        <3>3. ~(seeder[q].at > 1)
            BY <1>1, <1>2, <1>3, <2>2, <3>1, PastSite DEF DatabaseInv, LocksApart
        <3>4. QED
            BY <3>1, <3>2, <3>3, EarlyGoes
    <2>3. QED
        BY <2>1, <2>2
<1>13. QED
    BY <1>5, <1>8, <1>9, <1>10, <1>11, <1>12 DEF DatabaseInv, SeedsGo

-----------------------------------------------------------------------------
(* seed_content by itself, and the staff *)

\* Rows of pages, of no concern to the transactions that have not written them.
LEMMA PagesAround ==
    ASSUME DatabaseInv, NEW new, NEW S \in SUBSET (Slugs \cup Texts), titled' = titled,
           new = [k \in Keys |-> new[k]], \A k \in Keys \ S : new[k] = row[k]
    PROVE  /\ Sound(new) /\ new[Site] = row[Site]
           /\ \A p \in Seeders : Around(row, new, seeder[p], titled, titled')
<1>1. /\ \A k \in RulesetKeys \cup SourceKeys \cup ClaimKeys : new[k] = row[k]
      /\ new[Mechanic] = row[Mechanic] /\ new[Site] = row[Site]
    BY TablesApart DEF Keys
<1>2. Sound(new)
    BY <1>1 DEF DatabaseInv, DataSound, Sound
<1>3. \A p \in Seeders : Around(row, new, seeder[p], titled, titled')
    BY <1>1 DEF Around
<1>4. QED
    BY <1>1, <1>2, <1>3

\* One page, or one translation, committed by itself.
LEMMA ContentKeeps ==
    ASSUME DatabaseInv, NEW p \in ContentSeeders, NEW k \in Slugs \cup Texts, NEW r,
           Keeps(p, k, "published", r), seeder[p].at \in 1 .. Len(ContentTasks),
           UNCHANGED <<titled, file, backup>>
    PROVE  DatabaseInv'
<1>1. p \notin Seeders /\ p \in Everyone /\ k \in Keys
    BY SeedAssumption DEF Everyone, Keys
<1>2. ~Atomic(p) /\ TasksOf(p) = ContentTasks /\ Len(ContentTasks) \in Nat
    BY <1>1, ContentTasksAre DEF Atomic, TasksOf
<1>3. row' = [row EXCEPT ![k] = "published"]
    BY <1>2 DEF Keeps
<1>4. PICK a, o, w : seeder[p] = [at |-> a, ruleset |-> o, wrote |-> w]
    BY DEF DatabaseInv, SeedersTyped
<1>5. PICK new : /\ seeder' = [seeder EXCEPT ![p] = new]
                 /\ new = IF a = Len(ContentTasks) THEN Idle
                          ELSE [seeder[p] EXCEPT !.at = @ + 1, !.ruleset = r]
    BY <1>2, <1>4 DEF Keeps
<1>6. /\ new = [at |-> new.at, ruleset |-> new.ruleset, wrote |-> new.wrote]
      /\ new.at \in 0 .. Len(ContentTasks) /\ DOMAIN new.wrote = {}
    <2>1. CASE a = Len(ContentTasks)
        <3>1. new = Idle
            BY <1>5, <2>1
        <3>2. Idle = [at |-> Idle.at, ruleset |-> Idle.ruleset, wrote |-> Idle.wrote]
            BY DEF Idle
        <3>3. QED
            BY <1>2, <3>1, <3>2, IdleGoes
    <2>2. CASE a # Len(ContentTasks)
        <3>1. PICK next : next = [[at |-> a, ruleset |-> o, wrote |-> w] EXCEPT !.at = @ + 1,
                                                                               !.ruleset = r]
            OBVIOUS
        <3>2. new = next
            BY <1>4, <1>5, <2>2, <3>1
        <3>3. next = [at |-> a + 1, ruleset |-> r, wrote |-> w]
            BY <3>1
        <3>4. seeder[p].at = a /\ seeder[p].wrote = w
            BY <1>4
        <3>5. DOMAIN seeder[p].wrote = {}
            BY DEF DatabaseInv, SeedersTyped
        <3>6. a \in 1 .. Len(ContentTasks) /\ DOMAIN w = {}
            BY <3>4, <3>5
        <3>7. new.at = a + 1 /\ new.ruleset = r /\ new.wrote = w
            BY <3>2, <3>3
        <3>8. a + 1 \in 0 .. Len(ContentTasks)
            BY <1>2, <2>2, <3>6
        <3>9. QED
            BY <3>2, <3>3, <3>6, <3>7, <3>8
    <2>3. QED
        BY <2>1, <2>2
<1>7. /\ seeder' = [q \in Everyone |-> seeder'[q]] /\ seeder'[p] = new
      /\ \A q \in Everyone : q # p => seeder'[q] = seeder[q]
    BY <1>1, <1>5 DEF DatabaseInv, SeedersTyped
<1>8. SeedersTyped'
    BY <1>6, <1>7 DEF DatabaseInv, SeedersTyped, Everyone
<1>9. row' = [j \in Keys |-> row'[j]] /\ \A j \in Keys \ {k} : row'[j] = row[j]
    BY <1>3 DEF DatabaseInv, DataSound, Sound
<1>10. {k} \in SUBSET (Slugs \cup Texts)
    OBVIOUS
<1>11. Sound(row') /\ row'[Site] = row[Site]
       /\ \A q \in Seeders : Around(row, row', seeder[q], titled, titled')
    BY <1>9, <1>10, PagesAround
<1>12. row[Site] # None
    BY <1>1 DEF DatabaseInv, AtWork
<1>13. \A q \in Seeders : seeder'[q] = seeder[q]
    BY <1>1, <1>7 DEF Everyone
<1>14. QED
    BY <1>8, <1>11, <1>12, <1>13, RowsChange

\* It only writes pages and their translations.
LEMMA ContentStepKeeps ==
    ASSUME DatabaseInv, NEW p \in ContentSeeders, SeederStep(p), UNCHANGED <<file, backup>>
    PROVE  DatabaseInv'
<1>1. p \notin Seeders /\ p \in Everyone /\ TasksOf(p) = ContentTasks
    BY SeedAssumption DEF Everyone, TasksOf
<1>2. titled' = titled
    BY DEF SeederStep
<1>3. ASSUME seeder[p].at # 0
      PROVE  /\ seeder[p].at \in 1 .. Len(ContentTasks)
             /\ \/ ContentTasks[seeder[p].at].kind = "page" /\ About(p) \in Slugs
                \/ ContentTasks[seeder[p].at].kind = "text" /\ About(p) \in Texts
    <2>1. seeder[p].at \in 1 .. Len(ContentTasks)
        <3>1. seeder[p].at \in 0 .. Len(ContentTasks) /\ Len(ContentTasks) \in Nat
            BY ContentTasksAre DEF DatabaseInv, SeedersTyped
        <3>2. QED
            BY <1>3, <3>1
    <2>2. QED
        BY <1>1, <2>1, ContentTasksAre DEF About
<1>4. \A kind \in Kinds \ {"page", "text"} : ~Doing(p, kind)
    BY <1>1, <1>3 DEF Doing
<1>5. ~UpsertSite(p) /\ ~UpsertMechanic(p) /\ ~FindRuleset(p) /\ ~UpsertSource(p)
      /\ ~UpsertClaim(p) /\ ~SetCurrent(p) /\ ~Commit(p)
    BY <1>4 DEF UpsertSite, UpsertMechanic, FindRuleset, UpsertSource, UpsertClaim, SetCurrent,
                Commit, Kinds
<1>6. CASE Run(p)
    BY <1>1, <1>2, <1>6, RunKeeps
<1>7. CASE Abort(p)
    BY <1>1, <1>2, <1>7, DoneKeeps DEF Abort
<1>8. CASE UpsertPage(p)
    <2>1. seeder[p].at # 0 /\ ContentTasks[seeder[p].at].kind = "page"
          /\ Keeps(p, About(p), "published", seeder[p].ruleset)
        BY <1>1, <1>8 DEF UpsertPage, Doing, Writes
    <2>2. QED
        BY <1>2, <1>3, <2>1, ContentKeeps
<1>9. CASE UpsertText(p)
    <2>1. seeder[p].at # 0 /\ ContentTasks[seeder[p].at].kind = "text"
        BY <1>1, <1>9 DEF UpsertText, Doing
    <2>2. CASE Done(p) /\ UNCHANGED row
        BY <1>1, <1>2, <2>2, DoneKeeps
    <2>3. CASE Keeps(p, About(p), "published", seeder[p].ruleset)
        BY <1>2, <1>3, <2>1, <2>3, ContentKeeps
    <2>4. QED
        BY <1>9, <2>2, <2>3 DEF UpsertText, Writes
<1>10. QED
    BY <1>5, <1>6, <1>7, <1>8, <1>9 DEF SeederStep

\* Whoever takes a step, it changes only what it does itself.
LEMMA ContentChanges ==
    ASSUME NEW p \in ContentSeeders, SeederStep(p), DatabaseInv
    PROVE  \E new : seeder' = [seeder EXCEPT ![p] = new]
<1>1. \A k, v, r : Keeps(p, k, v, r) => \E new : seeder' = [seeder EXCEPT ![p] = new]
    BY SeedAssumption DEF Keeps, Atomic
<1>2. Done(p) => \E new : seeder' = [seeder EXCEPT ![p] = new]
    BY DEF Done
<1>3. \A ks, matching, v : UpdateOrCreate(p, ks, matching, v) =>
          \E new : seeder' = [seeder EXCEPT ![p] = new]
    BY <1>1, <1>2 DEF UpdateOrCreate, Writes
<1>4. Run(p) => \E new : seeder' = [seeder EXCEPT ![p] = new]
    BY DEF Run
<1>5. FindRuleset(p) => \E new : seeder' = [seeder EXCEPT ![p] = new]
    BY <1>1 DEF FindRuleset
<1>6. QED
    BY <1>1, <1>2, <1>3, <1>4, <1>5 DEF SeederStep, UpsertSite, UpsertMechanic, UpsertSource,
        UpsertClaim, SetCurrent, UpsertPage, UpsertText, Commit, Abort, Writes

\* What the staff does in the admin, to rows that no transaction has locked.
LEMMA StaffKeeps ==
    ASSUME DatabaseInv, StaffStep, UNCHANGED <<file, backup>>
    PROVE  DatabaseInv'
<1>1. seeder' = seeder
    BY DEF StaffStep
<1>2. SeedersTyped'
    BY <1>1 DEF DatabaseInv, SeedersTyped
<1>3. Sound(row) /\ row = [k \in Keys |-> row[k]]
    BY DEF DatabaseInv, DataSound, Sound
<1>4. ASSUME NEW ks, Free(ks), NEW p \in Seeders PROVE DOMAIN seeder[p].wrote \cap ks = {}
    BY <1>4 DEF Free, DatabaseInv, SeedersTyped, Everyone
\* It is enough to look at the rows.
<1>5. ASSUME Sound(row'), row'[Site] = row[Site],
             \A p \in Seeders : Around(row, row', seeder[p], titled, titled')
      PROVE  DatabaseInv'
    <2>1. CASE row[Site] # None
        BY <1>1, <1>2, <1>5, <2>1, RowsChange
    <2>2. CASE row[Site] = None
        <3>1. \A p \in Everyone : seeder[p].at = 0
            BY <2>2 DEF DatabaseInv, AtWork
        <3>2. AtWork' /\ LocksApart'
            BY <1>1, <3>1 DEF DatabaseInv, AtWork, LocksApart
        <3>3. SeedsGo'
            BY <1>1, <1>5, AroundKeeps DEF DatabaseInv, SeedsGo
        <3>4. DataSound'
            BY <1>5 DEF DatabaseInv, DataSound
        <3>5. QED
            BY <1>2, <3>2, <3>3, <3>4 DEF DatabaseInv
    <2>3. QED
        BY <2>1, <2>2
<1>6. ASSUME NEW s \in SourceKeys, NEW t \in Titles \cup {OtherTitle}, SaveSource(s, t)
      PROVE  DatabaseInv'
    <2>1. row' = [row EXCEPT ![s] = t] /\ titled' = titled \cup {t} /\ Free({s})
        BY <1>6 DEF SaveSource
    <2>2. row' = [k \in Keys |-> row'[k]] /\ row'[s] = t /\ \A k \in Keys : k # s => row'[k] = row[k]
        BY <1>3, <2>1 DEF Keys
    <2>3. /\ \A k \in RulesetKeys \cup ClaimKeys : row'[k] = row[k]
          /\ row'[Mechanic] = row[Mechanic] /\ row'[Site] = row[Site]
        BY <2>2, TablesApart DEF Keys
    <2>4. Sound(row')
        BY <1>3, <2>2, <2>3 DEF Sound
    <2>5. \A k \in SourceKeys : row'[k] \in {row[k], None} \cup titled'
        BY <2>1, <2>2 DEF Keys
    <2>6. \A p \in Seeders : Around(row, row', seeder[p], titled, titled')
        BY <2>1, <2>3, <2>5 DEF Around
    <2>7. QED
        BY <1>5, <2>3, <2>4, <2>6
<1>7. ASSUME NEW s \in SourceKeys, DeleteSource(s) PROVE DatabaseInv'
    <2>1. PICK gone \in SUBSET (ClaimKeys \cup SourceKeys) :
              row' = [k \in Keys |-> IF k \in gone THEN None ELSE row[k]] /\ titled' = titled
        BY <1>7 DEF DeleteSource
    <2>2. row' = [k \in Keys |-> row'[k]]
          /\ \A k \in Keys : (row'[k] = None /\ k \in gone) \/ row'[k] = row[k]
        BY <2>1
    <2>3. /\ \A k \in RulesetKeys : row'[k] = row[k]
          /\ row'[Mechanic] = row[Mechanic] /\ row'[Site] = row[Site]
          /\ \A k \in ClaimKeys \cup SourceKeys : row'[k] = None \/ row'[k] = row[k]
        BY <2>2, TablesApart DEF Keys
    <2>4. Sound(row')
        BY <1>3, <2>2, <2>3 DEF Sound
    <2>5. \A p \in Seeders : Around(row, row', seeder[p], titled, titled')
        BY <2>1, <2>3 DEF Around
    <2>6. QED
        BY <1>5, <2>3, <2>4, <2>5
<1>8. ASSUME NEW r \in RulesetKeys, DeleteRuleset(r) PROVE DatabaseInv'
    <2>1. PICK claims, mechanics :
              /\ claims = {c \in ClaimKeys : row[c] # None /\ row[c].ruleset = r}
              /\ mechanics = {k \in {Mechanic} : row[k] = r}
        OBVIOUS
    <2>2. /\ row[r] # None /\ Free(claims \cup mechanics \cup {r}) /\ titled' = titled
          /\ row' = [k \in Keys |-> CASE k = r            -> None
                                      [] k \in mechanics  -> "unset"
                                      [] k \in claims     -> [row[k] EXCEPT !.ruleset = None]
                                      [] OTHER            -> row[k]]
        BY <1>8, <2>1 DEF DeleteRuleset
    <2>3. row[Mechanic] = r /\ mechanics = {Mechanic} /\ r # Mechanic /\ r # Site
          /\ r \notin ClaimKeys \cup SourceKeys
        BY <1>3, <2>1, <2>2, TablesApart DEF Sound
    <2>4. row'[r] = None /\ \A k \in Keys : k \notin claims \cup {r, Mechanic} => row'[k] = row[k]
        <3>1. r \in Keys
            BY DEF Keys
        <3>2. row'[r] = None
            <4>1. r \notin mechanics
                BY <2>3
            <4>2. PICK stripped : stripped = [row[r] EXCEPT !.ruleset = None]
                OBVIOUS
            <4>3. r \notin claims
                BY <2>1, <2>3
            <4>4. QED
                BY <2>2, <3>1, <4>1, <4>2, <4>3
        <3>3. ASSUME NEW k \in Keys, k \notin claims \cup {r, Mechanic} PROVE row'[k] = row[k]
            <4>1. k # r /\ k \notin mechanics /\ k \notin claims
                BY <2>3, <3>3
            <4>2. QED
                BY <2>2, <4>1
        <3>4. QED
            BY <3>2, <3>3
    <2>5. \A c \in claims : row'[c] = [row[c] EXCEPT !.ruleset = None]
        <3>1. \A c \in claims : c \in Keys /\ c # r /\ c \notin mechanics
            BY <2>1, <2>3, TablesApart DEF Keys
        <3>2. QED
            BY <2>2, <3>1
    <2>6. /\ \A k \in SourceKeys : row'[k] = row[k]
          /\ row'[Site] = row[Site] /\ \A k \in ClaimKeys \ claims : row'[k] = row[k]
          /\ \A q \in RulesetKeys : q # r => row'[q] = row[q]
        BY <2>1, <2>3, <2>4, TablesApart DEF Keys
    <2>7. \A c \in claims : IsClaim(row'[c]) /\ row'[c].ruleset = None
        <3> SUFFICES ASSUME NEW c \in claims PROVE IsClaim(row'[c]) /\ row'[c].ruleset = None
            OBVIOUS
        <3>1. c \in ClaimKeys /\ IsClaim(row[c])
            BY <1>3, <2>1 DEF Sound
        <3>2. PICK k \in SourceKeys, q \in RulesetKeys \cup {None}, x \in Scopes :
                  row[c] = ClaimOf(k, q, x)
            BY <3>1 DEF IsClaim
        <3>3. row'[c] = ClaimOf(k, None, x)
            BY <2>5, <3>2 DEF ClaimOf
        <3>4. row'[c].ruleset = None
            BY <3>3 DEF ClaimOf
        <3>5. None \in RulesetKeys \cup {None}
            OBVIOUS
        <3>6. IsClaim(row'[c])
            BY <3>3, <3>5 DEF IsClaim
        <3>7. QED
            BY <3>4, <3>6
    <2>8. \A q \in RulesetKeys : row'[q] = None
        BY <1>3, <2>3, <2>4, <2>6 DEF Sound
    <2>9. Sound(row')
        <3>1. row' = [k \in Keys |-> row'[k]]
            BY <2>2
        <3>2. \A c \in ClaimKeys : row'[c] # None => IsClaim(row'[c])
            BY <1>3, <2>6, <2>7 DEF Sound
        <3>3. QED
            BY <2>8, <3>1, <3>2 DEF Sound
    <2>10. \A p \in Seeders : Mechanic \notin DOMAIN seeder[p].wrote
        BY <1>4, <2>2, <2>3
    <2>11. \A p \in Seeders : Around(row, row', seeder[p], titled, titled')
        BY <2>2, <2>6, <2>7, <2>10 DEF Around
    <2>12. QED
        BY <1>5, <2>6, <2>9, <2>11
<1>9. ASSUME NEW k \in Slugs \cup Texts, Withdraw(k) PROVE DatabaseInv'
    <2>1. row' = [row EXCEPT ![k] = "withdrawn"] /\ titled' = titled
        BY <1>9 DEF Withdraw
    <2>2. row' = [j \in Keys |-> row'[j]] /\ \A j \in Keys \ {k} : row'[j] = row[j]
        BY <1>3, <2>1
    <2>3. {k} \in SUBSET (Slugs \cup Texts)
        OBVIOUS
    <2>4. QED
        BY <1>5, <2>1, <2>2, <2>3, PagesAround
<1>10. ASSUME NEW slug \in Slugs, DeletePage(slug) PROVE DatabaseInv'
    <2>1. PICK all : all = {slug} \cup ({slug} \X Locales)
        OBVIOUS
    <2>2. row' = [k \in Keys |-> IF k \in all THEN None ELSE row[k]] /\ titled' = titled
        BY <1>10, <2>1 DEF DeletePage
    <2>3. row' = [j \in Keys |-> row'[j]] /\ \A j \in Keys \ all : row'[j] = row[j]
        BY <2>2
    <2>4. all \in SUBSET (Slugs \cup Texts)
        BY <2>1 DEF Texts
    <2>5. QED
        BY <1>5, <2>2, <2>3, <2>4, PagesAround
<1>11. QED
    BY <1>6, <1>7, <1>8, <1>9, <1>10 DEF StaffStep

-----------------------------------------------------------------------------
(* All the steps *)

\* A seed's step, and what it does to the committed data: nothing, or all at once.
LEMMA SeedStepKeeps ==
    ASSUME DatabaseInv, NEW p \in Seeders, SeederStep(p), UNCHANGED <<file, backup>>
    PROVE  DatabaseInv' /\ (row' = row \/ Whole(row'))
<1>1. titled' = titled /\ p \in Everyone
    BY DEF SeederStep, Everyone
<1>2. CASE Run(p)
    BY <1>1, <1>2, RunKeeps DEF Run
<1>3. CASE Abort(p)
    BY <1>1, <1>3, DoneKeeps DEF Abort
<1>4. CASE Commit(p)
    BY <1>1, <1>4, CommitKeeps
<1>5. \A k, v, r : Keeps(p, k, v, r) => row' = row
    BY DEF Keeps, Atomic
<1>6. CASE UpsertSite(p) \/ UpsertMechanic(p) \/ SetCurrent(p) \/ UpsertPage(p)
    <2>1. row' = row
        BY <1>5, <1>6 DEF UpsertSite, UpsertMechanic, SetCurrent, UpsertPage, Writes
    <2>2. QED
        BY <1>1, <1>6, <2>1, SingleRowsKeep
<1>7. CASE FindRuleset(p)
    <2>1. row' = row
        BY <1>5, <1>7 DEF FindRuleset
    <2>2. QED
        BY <1>1, <1>7, <2>1, FindRulesetKeeps
<1>8. CASE UpsertText(p)
    <2>1. row' = row
        BY <1>5, <1>8 DEF UpsertText, Writes
    <2>2. QED
        BY <1>1, <1>8, <2>1, UpsertTextKeeps
<1>9. \A ks, matching, v : UpdateOrCreate(p, ks, matching, v) => row' = row
    BY <1>5 DEF UpdateOrCreate, Writes
<1>10. CASE UpsertSource(p)
    <2>1. row' = row
        BY <1>9, <1>10 DEF UpsertSource
    <2>2. QED
        BY <1>1, <1>10, <2>1, UpsertSourceKeeps
<1>11. CASE UpsertClaim(p)
    <2>1. row' = row
        BY <1>9, <1>11 DEF UpsertClaim
    <2>2. QED
        BY <1>1, <1>11, <2>1, UpsertClaimKeeps
<1>12. QED
    BY <1>2, <1>3, <1>4, <1>6, <1>7, <1>8, <1>10, <1>11 DEF SeederStep

\* Dumps: of what is committed when they begin.
LEMMA BackupStepKeeps ==
    ASSUME DatabaseInv, BackupStep PROVE DatabaseInv'
<1>1. UNCHANGED <<row, seeder, titled>>
    BY DEF BackupStep, seedVars
<1>2. SeedersTyped' /\ AtWork' /\ LocksApart' /\ SeedsGo'
    BY <1>1 DEF DatabaseInv, SeedersTyped, AtWork, LocksApart, SeedsGo
<1>3. ASSUME NEW b \in Backups, NEW new, backup' = [backup EXCEPT ![b] = new],
             new.step = "dumping" => Sound(new.data), \A f \in file' : Sound(f.data)
      PROVE  DataSound'
    <2>1. /\ backup' = [c \in Backups |-> backup'[c]] /\ backup'[b] = new
          /\ \A c \in Backups : c # b => backup'[c] = backup[c]
        BY <1>3 DEF DatabaseInv, DataSound
    <2>2. QED
        BY <1>1, <1>3, <2>1 DEF DatabaseInv, DataSound
<1>4. Resting.step # "dumping" /\ [Resting EXCEPT !.step = "prune"].step # "dumping"
    BY DEF Resting
<1>5. ASSUME NEW b \in Backups, NEW n \in Names, Dump(b, n) PROVE DataSound'
    <2>1. PICK new : /\ new = [step |-> "dumping", name |-> n, data |-> row]
                     /\ backup' = [backup EXCEPT ![b] = new] /\ file' = file
        BY <1>5 DEF Dump, Begins
    <2>2. Sound(new.data) /\ \A f \in file' : Sound(f.data)
        BY <2>1 DEF DatabaseInv, DataSound
    <2>3. QED
        BY <1>3, <2>1, <2>2
<1>6. ASSUME NEW b \in Backups, Publish(b) PROVE DataSound'
    <2>1. PICK new, f : /\ new = [Resting EXCEPT !.step = "prune"]
                        /\ f = DumpAs(backup[b].name, backup[b].data, TRUE)
                        /\ backup' = [backup EXCEPT ![b] = new]
                        /\ file' = {g \in file : g.name # backup[b].name} \cup {f}
                        /\ backup[b].step = "dumping"
        BY <1>6 DEF Publish
    <2>2. f.data = backup[b].data
        BY <2>1 DEF DumpAs
    <2>3. \A g \in file' : Sound(g.data)
        BY <2>1, <2>2 DEF DatabaseInv, DataSound
    <2>4. QED
        BY <1>3, <1>4, <2>1, <2>3
<1>7. ASSUME NEW b \in Backups, Prune(b) \/ Fail(b) PROVE DataSound'
    <2>1. backup' = [backup EXCEPT ![b] = Resting] /\ file' \subseteq file
        BY <1>7 DEF Prune, Fail, Rests
    <2>2. \A f \in file' : Sound(f.data)
        BY <2>1 DEF DatabaseInv, DataSound
    <2>3. QED
        BY <1>3, <1>4, <2>1, <2>2
<1>8. DataSound'
    BY <1>5, <1>6, <1>7 DEF BackupStep
<1>9. QED
    BY <1>2, <1>8 DEF DatabaseInv

\* The database is lost, comes back empty, or as it was dumped; nobody is at work then.
LEMMA LossKeeps ==
    ASSUME DatabaseInv, Lose PROVE DatabaseInv' /\ row'[Site] = None
<1>1. row' = [k \in Keys |-> None] /\ seeder' = [p \in Everyone |-> Idle]
      /\ UNCHANGED <<titled, file, backup>>
    BY DEF Lose, DatabaseInv, SeedersTyped
<1>2. \A k \in Keys : row'[k] = None
    BY <1>1
<1>3. row'[Site] = None
    BY <1>2 DEF Keys
<1>4. Sound(row')
    <2>1. row' = [k \in Keys |-> row'[k]]
        BY <1>1
    <2>2. QED
        BY <1>2, <2>1 DEF Sound, Keys
<1>5. \A p \in Everyone : seeder'[p] = Idle
    BY <1>1
<1>6. SeedersTyped'
    <2>1. Idle.at \in 0 .. Len(ContentTasks) /\ DOMAIN Idle.wrote = {}
          /\ Idle = [at |-> Idle.at, ruleset |-> Idle.ruleset, wrote |-> Idle.wrote]
        BY IdleGoes, ContentTasksAre DEF Idle
    <2>2. seeder' = [p \in Everyone |-> seeder'[p]]
        BY <1>1
    <2>3. \A p \in ContentSeeders : seeder'[p] = Idle
        BY <1>5 DEF Everyone
    <2>4. QED
        BY <2>1, <2>2, <2>3 DEF SeedersTyped
<1>7. AtWork' /\ LocksApart' /\ SeedsGo'
    BY <1>5, IdleGoes DEF AtWork, LocksApart, SeedsGo, Everyone
<1>8. DataSound'
    BY <1>1, <1>4 DEF DatabaseInv, DataSound
<1>9. QED
    BY <1>3, <1>6, <1>7, <1>8 DEF DatabaseInv

\* migrate on an empty database, or pg_restore of a file.
LEMMA ReturnKeeps ==
    ASSUME DatabaseInv, Migrate \/ \E f \in file : Restore(f) PROVE DatabaseInv'
<1>1. row[Site] = None /\ UNCHANGED <<seeder, titled, file, backup>>
    BY DEF Migrate, Restore, backupVars
<1>2. \A p \in Everyone : seeder[p].at = 0
    BY <1>1 DEF DatabaseInv, AtWork
<1>3. Sound(row')
    <2>1. CASE Migrate
        <3>1. row' = [row EXCEPT ![Site] = "published"] /\ Sound(row)
            BY <2>1 DEF Migrate, DatabaseInv, DataSound
        <3>2. row' = [k \in Keys |-> row'[k]] /\ \A k \in Keys : k # Site => row'[k] = row[k]
            BY <3>1 DEF Sound
        <3>3. \A k \in RulesetKeys \cup ClaimKeys \cup {Mechanic} : row'[k] = row[k]
            BY <3>2, TablesApart DEF Keys
        <3>4. QED
            BY <3>1, <3>2, <3>3 DEF Sound
    <2>2. CASE \E f \in file : Restore(f)
        BY <2>2 DEF Restore, DatabaseInv, DataSound
    <2>3. QED
        BY <2>1, <2>2
<1>4. SeedersTyped' /\ LocksApart' /\ AtWork'
    BY <1>1, <1>2 DEF DatabaseInv, SeedersTyped, LocksApart, AtWork
<1>5. SeedsGo'
    <2>1. \A p \in Seeders : Going(row, seeder[p], titled) /\ seeder[p].at <= 1
        BY <1>2 DEF DatabaseInv, SeedsGo, Everyone
    <2>2. QED
        BY <1>1, <2>1, EarlyGoes DEF SeedsGo
<1>6. DataSound'
    BY <1>1, <1>3 DEF DatabaseInv, DataSound
<1>7. QED
    BY <1>4, <1>5, <1>6 DEF DatabaseInv

\* A step that leaves the database, the files and the runs.
LEMMA SameDatabase ==
    ASSUME DatabaseInv, UNCHANGED <<row, seeder, titled, file, backup>> PROVE DatabaseInv'
BY DEF DatabaseInv, SeedersTyped, DataSound, AtWork, LocksApart, SeedsGo

\* What a step of a seed does to the committed data.
SeedsOnce ==
    \A p \in Seeders : seeder'[p] # seeder[p] => row' = row \/ Whole(row') \/ row'[Site] = None

\* Every step keeps the invariant.
LEMMA DatabaseStep == DatabaseInv /\ [Next]_vars => DatabaseInv' /\ SeedsOnce
<1> SUFFICES ASSUME DatabaseInv, [Next]_vars PROVE DatabaseInv' /\ SeedsOnce
    OBVIOUS
<1>1. CASE StaffStep /\ UNCHANGED backupVars
    <2>1. seeder' = seeder /\ UNCHANGED <<file, backup>>
        BY <1>1 DEF StaffStep, backupVars
    <2>2. QED
        BY <1>1, <2>1, StaffKeeps DEF SeedsOnce
<1>2. ASSUME NEW p \in Seeders, SeederStep(p), UNCHANGED backupVars PROVE DatabaseInv' /\ SeedsOnce
    <2>1. UNCHANGED <<file, backup>>
        BY <1>2 DEF backupVars
    <2>2. QED
        BY <1>2, <2>1, SeedStepKeeps DEF SeedsOnce
<1>3. ASSUME NEW p \in ContentSeeders, SeederStep(p), UNCHANGED backupVars
      PROVE  DatabaseInv' /\ SeedsOnce
    <2>1. UNCHANGED <<file, backup>>
        BY <1>3 DEF backupVars
    <2>2. DatabaseInv'
        BY <1>3, <2>1, ContentStepKeeps
    <2>3. \E new : seeder' = [seeder EXCEPT ![p] = new]
        BY <1>3, ContentChanges
    <2>4. \A q \in Seeders : q # p /\ seeder'[q] = seeder[q]
        BY <2>3, SeedAssumption DEF DatabaseInv, SeedersTyped, Everyone
    <2>5. QED
        BY <2>2, <2>4 DEF SeedsOnce
<1>4. CASE BackupStep
    <2>1. row' = row
        BY <1>4 DEF BackupStep, seedVars
    <2>2. QED
        BY <1>4, <2>1, BackupStepKeeps DEF SeedsOnce
<1>5. CASE Lose
    BY <1>5, LossKeeps DEF SeedsOnce
<1>6. CASE Migrate \/ \E f \in file : Restore(f)
    <2>1. seeder' = seeder
        BY <1>6 DEF Migrate, Restore
    <2>2. QED
        BY <1>6, <2>1, ReturnKeeps DEF SeedsOnce
<1>7. CASE NextDay \/ UNCHANGED vars
    <2>1. UNCHANGED <<row, seeder, titled, file, backup>>
        BY <1>7 DEF NextDay, vars, seedVars, backupVars
    <2>2. QED
        BY <2>1, SameDatabase DEF SeedsOnce
<1>8. QED
    BY <1>1, <1>2, <1>3, <1>4, <1>5, <1>6, <1>7 DEF Next, SeedNext

\* SeedsAreWhole, for any number of rulesets, sources, claims, pages and locales, any number of
\* runs of seed and of seed_content at once, whatever the staff edits or deletes meanwhile,
\* wherever a run fails, and whenever the database is lost or restored: the transaction of
\* seed.py:37 makes nothing visible but a whole seed.
THEOREM SeedsCommitWhole == Spec => SeedsAreWhole
<1>1. DatabaseInv /\ [Next]_vars => [SeedsOnce]_seedVars
    BY DatabaseStep
<1>2. DatabaseInv /\ [Next]_vars => DatabaseInv'
    BY DatabaseStep
<1>3. Spec => [][SeedsOnce]_seedVars
    BY <1>1, <1>2, DatabaseInit, PTL DEF Spec
<1>4. QED
    BY <1>3 DEF SeedsOnce, SeedsAreWhole
=============================================================================
