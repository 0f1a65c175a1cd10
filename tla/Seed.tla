--------------------------------- MODULE Seed ---------------------------------
(***************************************************************************)
(* The database that `manage.py seed` fills (apps/mechanics/management/    *)
(* commands/seed.py, with seed_content of apps/content), query by query:   *)
(* seeds in a transaction of their own, seed_content run by itself, which  *)
(* commits row by row, and the staff that edits and deletes meanwhile.     *)
(*                                                                         *)
(* The rows are one function from their keys, so that an open transaction  *)
(* is the part of it that it has written, and holds the locks of.  A title *)
(* and a claim's scope stand for the data that goes with them, ruleset     *)
(* version 1 for itself and its parameters (see Rulesets).                 *)
(***************************************************************************)
EXTENDS Naturals, FiniteSets, SequencesExt

CONSTANTS
    Site, Mechanic,             \* the keys of the Site and of trade_iv
    RulesetKeys,                \* primary keys for version 1 of trade_iv, created and deleted
    SourceKeys, ClaimKeys,      \* primary keys of SourceReference and SourceClaim
    Titles,                     \* of the sources that are seeded
    OtherTitle,                 \* what the staff may call a source
    Scopes,                     \* of the claims that are seeded
    TitleOf,                    \* the source of each
    SeedSlugs, ContentSlugs,    \* the pages of seed and those of seed_content
    Locales,
    Seeders, ContentSeeders,    \* who runs seed, and who runs seed_content
    MaxEdits,                   \* bound on what the staff does
    None

ASSUME SeedAssumption ==
    /\ TitleOf \in [Scopes -> Titles]
    /\ ContentSlugs # {} /\ SeedSlugs \cap ContentSlugs = {}
    /\ Seeders \cap ContentSeeders = {}
    /\ \A S \in {RulesetKeys, SourceKeys, ClaimKeys, Titles, Scopes, SeedSlugs, ContentSlugs, Locales} :
           IsFiniteSet(S)
    /\ None \notin RulesetKeys \cup Titles /\ None # "published"
    /\ \A s \in SourceKeys, r \in RulesetKeys, x \in Scopes :
           None # [source |-> s, ruleset |-> r, scope |-> x]

\* No key is that of two tables.
ASSUME KeysApart ==
    LET tables == <<{Site}, {Mechanic}, RulesetKeys, SourceKeys, ClaimKeys,
                    SeedSlugs \cup ContentSlugs, (SeedSlugs \cup ContentSlugs) \X Locales>>
    IN  \A i, j \in DOMAIN tables : i # j => tables[i] \cap tables[j] = {}

VARIABLES
    row,        \* the committed row of each key, or None
    seeder,     \* what each run of a command is doing
    edits,      \* how often the staff has done something (a bound)
    \* History, read by the property only.
    titled      \* the titles the staff has given a source

seedVars == <<row, seeder, edits, titled>>

Slugs == SeedSlugs \cup ContentSlugs
Texts == Slugs \X Locales
Keys == {Site, Mechanic} \cup RulesetKeys \cup SourceKeys \cup ClaimKeys \cup Slugs \cup Texts

\* Where in its tasks a command is (nowhere: 0), and what its transaction has written.
Idle == [at |-> 0, ruleset |-> None, wrote |-> <<>>]

-----------------------------------------------------------------------------
(* What the commands have to do, in the order of their lists *)

Task(kind, about) == [kind |-> kind, about |-> about]
Tasks(kind, abouts) == LET order == SetToSeq(abouts) IN [i \in DOMAIN order |-> Task(kind, order[i])]

SourceTasks == Tasks("source", Titles)
ClaimTasks == Tasks("claim", Scopes)

\* Each page, followed by its translations.
PageTasks(slugs) ==
    LET pages == SetToSeq(slugs)
        locales == SetToSeq(Locales)
        width == 1 + Len(locales)
        page(i) == pages[1 + (i - 1) \div width]
    IN  [i \in 1 .. Len(pages) * width |->
            IF (i - 1) % width = 0 THEN Task("page", page(i))
            ELSE Task("text", <<page(i), locales[(i - 1) % width]>>)]

ContentTasks == PageTasks(ContentSlugs)

SeedTasks ==
    <<Task("site", Site), Task("mechanic", Mechanic), Task("ruleset", Mechanic)>>
    \o SourceTasks \o ClaimTasks \o <<Task("current", Mechanic)>>
    \o PageTasks(SeedSlugs) \o ContentTasks \o <<Task("commit", Site)>>

-----------------------------------------------------------------------------
(* Transactions *)

\* Variant: the decorator of handle is forgotten.
AtomicNever(p) == FALSE

\* seed runs in one transaction; seed_content by itself commits every row it writes.
Atomic(p) == p \in Seeders

Sees(p, k) == IF k \in DOMAIN seeder[p].wrote THEN seeder[p].wrote[k] ELSE row[k]

\* A row another transaction has written waits for its end.
Locked(k, p) == \E q \in DOMAIN seeder \ {p} : k \in DOMAIN seeder[q].wrote
Free(ks) == \A q \in DOMAIN seeder : DOMAIN seeder[q].wrote \cap ks = {}

Unused(ks) == {k \in ks : row[k] = None /\ Free({k})}

TasksOf(p) == IF p \in Seeders THEN SeedTasks ELSE ContentTasks

Doing(p, kind) == seeder[p].at # 0 /\ TasksOf(p)[seeder[p].at].kind = kind
About(p) == TasksOf(p)[seeder[p].at].about

Done(p) == seeder' = [seeder EXCEPT ![p] = Idle]

\* A row saved in a transaction, again or for the first time.
With(written, k, value) ==
    [j \in DOMAIN written \cup {k} |-> IF j = k THEN value ELSE written[j]]

\* The row is written, in the transaction if there is one, and the task done.
Keeps(p, k, value, ruleset) ==
    LET next == IF seeder[p].at = Len(TasksOf(p)) THEN Idle
                ELSE [seeder[p] EXCEPT !.at = @ + 1, !.ruleset = ruleset]
    IN
    /\ ~Locked(k, p)
    /\ IF Atomic(p)
       THEN /\ seeder' = [seeder EXCEPT ![p] = [next EXCEPT !.wrote = With(@, k, value)]]
            /\ UNCHANGED row
       ELSE /\ seeder' = [seeder EXCEPT ![p] = next]
            /\ row' = [row EXCEPT ![k] = value]

Writes(p, k, value) == Keeps(p, k, value, seeder[p].ruleset)

\* update_or_create: the row that matches, a new one if none does; several are an error.
UpdateOrCreate(p, ks, matching, value) ==
    CASE Cardinality(matching) > 1 -> Done(p) /\ UNCHANGED row
      [] Cardinality(matching) = 1 -> \E k \in matching : Writes(p, k, value)
      [] OTHER -> Unused(ks) # {} /\ Writes(p, CHOOSE k \in Unused(ks) : TRUE, value)

-----------------------------------------------------------------------------
SeedInit ==
    /\ row = [k \in Keys |-> IF k = Site THEN "published" ELSE None]
    /\ seeder = [p \in Seeders \cup ContentSeeders |-> Idle]
    /\ edits = 0
    /\ titled = {}

\* The tables are there (the Site is inserted with them).
Run(p) ==
    /\ seeder[p] = Idle
    /\ row[Site] # None
    /\ seeder' = [seeder EXCEPT ![p].at = 1]
    /\ UNCHANGED row

\* _create_site; _create_trade_iv updates all of the mechanic but its current ruleset.
UpsertSite(p) ==
    /\ Doing(p, "site")
    /\ Writes(p, Site, "published")

UpsertMechanic(p) ==
    /\ Doing(p, "mechanic")
    /\ Writes(p, Mechanic, IF Sees(p, Mechanic) = None THEN "unset" ELSE Sees(p, Mechanic))

\* _create_rulesets: version 1 is created if it is missing, and never saved again.
FindRuleset(p) ==
    /\ Doing(p, "ruleset")
    /\ LET found == {r \in RulesetKeys : Sees(p, r) # None}
           unused == Unused(RulesetKeys)
       IN  IF found # {}
           THEN /\ \E r \in found :
                       seeder' = [seeder EXCEPT ![p].at = @ + 1, ![p].ruleset = r]
                /\ UNCHANGED row
           ELSE /\ unused # {}
                /\ LET r == CHOOSE r \in unused : TRUE IN Keeps(p, r, "published", r)

\* source_objects: the source that this run has saved under the title.
SourceOf(p, title) ==
    CHOOSE s \in SourceKeys \cap DOMAIN seeder[p].wrote : seeder[p].wrote[s] = title

\* The sources are found by their title, and the claims by all that identifies them.
UpsertSource(p) ==
    /\ Doing(p, "source")
    /\ UpdateOrCreate(p, SourceKeys, {s \in SourceKeys : Sees(p, s) = About(p)}, About(p))

UpsertClaim(p) ==
    /\ Doing(p, "claim")
    /\ LET claim == [source |-> SourceOf(p, TitleOf[About(p)]), ruleset |-> seeder[p].ruleset,
                     scope |-> About(p)]
       IN  UpdateOrCreate(p, ClaimKeys, {c \in ClaimKeys : Sees(p, c) = claim}, claim)

SetCurrent(p) ==
    /\ Doing(p, "current")
    /\ Writes(p, Mechanic, seeder[p].ruleset)

\* A page, or one of its translations, which fails on its foreign key if the page is gone.
UpsertPage(p) ==
    /\ Doing(p, "page")
    /\ Writes(p, About(p), "published")

UpsertText(p) ==
    /\ Doing(p, "text")
    /\ IF Sees(p, About(p)[1]) = None THEN Done(p) /\ UNCHANGED row
       ELSE Writes(p, About(p), "published")

\* Nothing it refers to can have gone: it holds the locks of the sources, and of the mechanic,
\* which the deletion of its current ruleset would update.
Commit(p) ==
    /\ Doing(p, "commit")
    /\ Done(p)
    /\ row' = [k \in Keys |-> Sees(p, k)]

\* An error or the end of the process: what was not committed is rolled back.
Abort(p) ==
    /\ seeder[p] # Idle
    /\ Done(p)
    /\ UNCHANGED row

-----------------------------------------------------------------------------
(* The staff meanwhile: an edit waits for the rows a transaction has written *)

SaveSource(s, title) ==
    /\ Free({s})
    /\ row[s] # title
    /\ row' = [row EXCEPT ![s] = title]
    /\ titled' = titled \cup {title}

\* The claims of a source go with it; those of a ruleset stay without one.
DeleteSource(s) ==
    LET claims == {c \in ClaimKeys : row[c] # None /\ row[c].source = s} IN
    /\ row[s] # None /\ Free(claims \cup {s})
    /\ row' = [k \in Keys |-> IF k \in claims \cup {s} THEN None ELSE row[k]]
    /\ UNCHANGED titled

DeleteRuleset(r) ==
    LET claims == {c \in ClaimKeys : row[c] # None /\ row[c].ruleset = r}
        mechanics == {k \in {Mechanic} : row[k] = r}
    IN
    /\ row[r] # None /\ Free(claims \cup mechanics \cup {r})
    /\ row' = [k \in Keys |->
           CASE k = r            -> None
             [] k \in mechanics  -> "unset"
             [] k \in claims     -> [row[k] EXCEPT !.ruleset = None]
             [] OTHER            -> row[k]]
    /\ UNCHANGED titled

\* A page or a translation is no longer published, or a page is deleted with its translations.
Withdraw(k) ==
    /\ row[k] = "published" /\ Free({k})
    /\ row' = [row EXCEPT ![k] = "withdrawn"]
    /\ UNCHANGED titled

DeletePage(slug) ==
    LET all == {slug} \cup ({slug} \X Locales) IN
    /\ row[slug] # None /\ Free(all)
    /\ row' = [k \in Keys |-> IF k \in all THEN None ELSE row[k]]
    /\ UNCHANGED titled

-----------------------------------------------------------------------------
SeederStep(p) ==
    /\ \/ Run(p) \/ UpsertSite(p) \/ UpsertMechanic(p) \/ FindRuleset(p)
       \/ UpsertSource(p) \/ UpsertClaim(p) \/ SetCurrent(p)
       \/ UpsertPage(p) \/ UpsertText(p) \/ Commit(p) \/ Abort(p)
    /\ UNCHANGED <<edits, titled>>

StaffStep ==
    /\ \/ \E s \in SourceKeys : DeleteSource(s) \/ \E t \in Titles \cup {OtherTitle} : SaveSource(s, t)
       \/ \E r \in RulesetKeys : DeleteRuleset(r)
       \/ \E k \in Slugs \cup Texts : Withdraw(k)
       \/ \E slug \in Slugs : DeletePage(slug)
    /\ edits < MaxEdits /\ edits' = edits + 1
    /\ UNCHANGED seeder

SeedNext == StaffStep \/ \E p \in Seeders \cup ContentSeeders : SeederStep(p)

SeedSpec == SeedInit /\ [][SeedNext]_seedVars

-----------------------------------------------------------------------------
(* Properties *)

\* content_page answers with the page, not with 404.
Shown(rows, slug, locale) == rows[slug] = "published" /\ rows[<<slug, locale>>] = "published"

\* Everything that is seeded is there, and once: the one ruleset is the current one, each
\* source has its row (the staff may have added others), each claim is made of it and of the
\* ruleset, and every page is shown in every language.
Whole(rows) ==
    /\ \E r \in RulesetKeys : rows[r] # None /\ rows[Mechanic] = r
    /\ Cardinality({r \in RulesetKeys : rows[r] # None}) = 1
    /\ \A t \in Titles : LET same == {s \in SourceKeys : rows[s] = t} IN
           same # {} /\ (t \notin titled => Cardinality(same) = 1)
    /\ \A x \in Scopes :
           LET same == {c \in ClaimKeys : /\ rows[c] # None
                                         /\ rows[c].scope = x /\ rows[c].ruleset = rows[Mechanic]
                                         /\ rows[rows[c].source] = TitleOf[x]}
           IN  same # {} /\ (TitleOf[x] \notin titled => Cardinality(same) = 1)
    /\ \A slug \in Slugs, locale \in Locales : Shown(rows, slug, locale)

\* Whoever else seeds, edits or deletes meanwhile, and wherever a seed is cut short, what is
\* committed changes by a seed only to the whole of it: there is never half a seed to see, and
\* seeding again adds nothing twice, although neither titles nor claims are unique.  (Unless
\* the database itself is lost.)
\* (seed.py:37 "transaction.atomic", 86 "Idempotente")
SeedsAreWhole ==
    [][\A p \in Seeders : seeder'[p] # seeder[p] =>
           row' = row \/ Whole(row') \/ row'[Site] = None]_seedVars
=============================================================================
