# Pogo-lab: a verification project in TLA+

Pogo-lab is a Django site on PostgreSQL for players of Pokémon GO. Users record the IVs of
the Pokémon they trade; the site computes probabilities from published rule sets, analyses a
user's own observations, and builds an anonymised community dataset from those who consented.
This directory models what of it is hard to test: requests of several users, staff members
and management commands that interleave query by query on one database, and die between any
two queries. `PROJECT.json` lists the runs, the mutants that show each property can fail, the
source lines each definition stands for, the hazards and the theorems.

## 1. How the program runs, and what follows for the models

* gunicorn runs several workers; build and seed commands run beside them. A worker may be
  killed at any point (deploys, time limits, memory).
* PostgreSQL runs at its default READ COMMITTED: each *statement* sees what was committed when
  it started. Two statements of one transaction can see different data.
* `ATOMIC_REQUESTS` is off. Ordinary views and admin *actions* commit each statement by
  itself; only `transaction.atomic` blocks and the admin's add/change/delete *views* are
  transactions.

So an action here is one statement with the Python up to the next, a request is a program
counter with the values it still holds, and a killed worker (`Crash`, `Kill`, `KillBuild`) is
an action possible at every step. Several statements are one action only where nobody else
can tell: an `INSERT` on a unique index and the commit behind it, because a second inserter
waits for the first one's transaction.

## 2. Inventory

| Component | State it keeps | Operations | Meets | What is hard |
|---|---|---|---|---|
| Consent (`apps/contributions`) | one row per user and scope, audit events | grant, revoke | deletion, builds | stale full-row saves, a read before the write, crashes |
| Account deletion (`accounts/views.py`) | the account's rows in six tables | `delete_account` | everything a user owns | requests in flight across its commit |
| Community dataset (`apps/contributions`) | numbered, immutable versions | build, moderate, edit, delete | consents, observations, page | two snapshots in one build, numbering under a lock, moderation after publication |
| Trade observations (`apps/trades`) | observations with a dedup hash | register, bulk, CSV, mark | rulesets, builds, analysis | duplicates in concurrent transactions, deadlocks, all-or-nothing uploads |
| Rulesets (`apps/mechanics`, `engine/rulesets.py`) | rulesets, parameters | edit, publish, delete, seed | every calculation and registration | checks apart from their writes, guards the admin bypasses |
| Floor resolution (`mechanics/services.py`) | none | `resolve_trade_floor`, `floor_for_ruleset` | rulesets, trades, calculators | two queries, resolved twice |
| Calculators (`apps/calculators`) | a cache table, addresses that visitors keep | the scenario calculator, eight stateless ones, share and open an address | floors, the engine | the key is resolved before the value; cache and addresses outlive a release |
| Pages of attackers (`apps/dps`) | none | four pages with level, sort, filter, search | the engine | one level for rows, label and notice |
| Analysis (`apps/analysis`) | runs and results | run, reuse | observations, rulesets | reuse by a fingerprint, runs left pending |
| Invitations (`apps/accounts`) | invitations, session keys | send, open, sign up, expire | users | check-then-act on expiry and single use, mail sent before it is recorded |
| Audit (`apps/audit`) | append-only events | `AuditEvent.log` | consent, dataset, trades, deletion | events apart from what they record |
| Engine (`engine/`) | none | probabilities, statistics, ranking, costs, damage, recommendations | calculators, attackers, analysis | boundaries of numeric functions, absent values |
| Content and sources (`apps/content`, `apps/sources`, `seed`, `seed_content`) | pages, translations, sources, claims | seed, edit, delete, show | rulesets, backups | keys that are not unique, seeds cut short or overlapping |
| Backups (`bin/backup.sh`, `restore.sh`) | dump files | dump, age out, restore | the whole database | kills, files half written, old ones removed |
| Decision table, experiments, core, provisioning | reference tables | admin forms, rendering, commands | – | nothing a model would add |

What makes each correct: an answered revocation holds and excludes from later builds; a
deletion is final; versions are numbered without collision, immutable, and shown only above
the threshold; one trade counts once and an upload is all or nothing and truthful; a published
ruleset keeps its validated parameters; a stored floor can be computed again; an analysis is
reused only for the same data and judged only by enough of it; an invitation admits one
account; a calculator shows what its definition says and an address what was shared; a seed is
committed whole and once; a whole dump as recent as the last success is kept.

## 3. The modules

```
Consent ----.                          RulesetShelf <-- implemented by -- Rulesets
             >-- Contributions              ^
Datasets ---'                               | extends
   |  implements                        FloorReads
DatasetLedger                     Trades -- implements --> ObservationLog

Verdicts --> Analysis             Calculators --> DpsPages --> Battle --> Ranking, Costs
Backups  --> Seed                 (--> extends)
```

**Consent** models `grant_consent` and `revoke_consent` (`contributions/services.py` over
`models.py`) and the part of `delete_account` that removes the consent. A request goes
`get_or_create` → `save` → `audit`, or `was_active` → `get` → `save` → `audit`; its `copy` is
the Python object it will write back whole. `doomed` holds the rows an open deletion has
deleted: a save of one waits. `optedOut` and `quiet` are history: who has an answered
revocation that no grant overlapped, and who was erased with no request in flight.

**Datasets** models `build_dataset_version`, one transaction: select, query the highest
number (`QueryLatest`, which fixes the rows the statement can see), lock it (`LockLatest`),
insert and commit or collide; with moderation and the admin's forms. A change form is checked
(`AdminEdit`: the row as it will be written, in `form`) and written whole later (`AdminSave`),
over a moderation made meanwhile; of a version deleted meanwhile Django's `save()` finds no row to
update and inserts it again. **DatasetLedger** is what it promises: a set of numbered contents
that grows until the staff deletes one, and then by a number it does not hold.

**Contributions** joins the two with the observations: which rows a build selects depends on
two queries with anything in between. Its actions conjoin those of Consent and Datasets
(`EraseAccount` is `EraseCommit` with the observations), and `ReadObservations` is `Select`
with the set the query finds.

**Trades** models one user's uploads. `table` holds every observation with a `committed` flag;
`Sees` is what a statement may read, `Holds` what the partial unique index holds, `WaitsFor`
the transactions an insert waits for, `Deadlocked` a circle of them. **ObservationLog** is the
view from outside: committed rows, added at once, never two that count for one trade.

**Rulesets** models the admin's editing and publishing of rulesets and parameters; each request
is its check and, later, its writes. `trusted` is history: rulesets published with nobody
editing them meanwhile and from which nothing was then taken past the checks; `spoiled` those
that lost it. **RulesetShelf** is what readers get of it.

**FloorReads** extends RulesetShelf (not Rulesets: the refinement lets the readers be checked
against the small one) with registrations and calculations that resolve the floor in two
queries, and the calculator's cache.

**Invitations** models the closed beta: the middleware that puts a token into the session and
takes it out again (`ReadLink`, `Revalidate`), the form, the account, and the signal that
consumes the invitation (`FindInvitation`, then `Consume`, one query each). A request works on
its own copy of the session (`held`, `dirty`) and `Finish` saves it whole, over what another
request of the browser saved meanwhile. The admin's change form reads a row (`EditBegin`) and
writes every column of it later (`EditSave`), `consumed_by` too; of a deleted row it inserts a
new one. `opened`, `dead` and `open` are history: who opened which link in time, which tokens
a request never met alive, which invitations were open to an account ever since it existed.

**Analysis** models `get_or_run_personal_analysis` query by query: the fingerprint, the look-up
of a completed run with it, the run created, the groups of Lucky and of other trades, the three
counts of `_detect_mixing`, and of each group the ruleset (`GroupFloor`, or `ResolveFloor` for
the current one), its parameters (`ReadParameters`), the hundos, the count, the statistics and
the sums; then the results and the completion. Observations are written and rulesets changed in
between. The flags follow the code: rulesets are counted of the trades that are not Lucky
(`MixedRulesets`), while Lucky ones are grouped by theirs (`Groups`). A write takes its stamp (`updated_at`) before it commits, so a row may appear with a stamp older
than what was read since. `clean` is history: for each request the data its fingerprint was
taken of, until something changes that the fingerprint may not show; `thinned` the runs some
row of whose groups went away before their flags were read. **Verdicts** adds what the
dashboard says: `Applies` and `Evaluate` are `decisions.evaluate`, over the context built from
the first hundo rate of a run, whatever the binomial test returned.

**Costs**, **Ranking** and **Battle** are the engine as functions over integers: `PowerUpCost`,
the shadow comparison; CP, HP, `RankForLeague`; the type chart, the damage of a moveset,
`Breakpoints`. Levels are counted in quarters, multipliers of the level are fractions of one
unit, those of the chart are exponents of 8/5 (1.6, and 0.625 its inverse). Python's `round` and
`floor` are kept where the code has them. The tables are constants. `PokemonTypes` and the chart
stand for both copies, `types.py`'s and `dps_data.py`'s, the second being built from the first.
**DpsPages** are the pages of `apps/dps` as functions of their address. **Calculators** is the
site around them: the page last shown, an address someone kept (`link`, with what it showed then
and under which ranking algorithm), the rankings in the cache table, and the release that runs.
`Submit`, `Open` and `Browse` show a result, `Deploy` changes `PVP_RANK_VERSION` or
`GENERIC_SHARE_VERSION` and leaves cache and address behind. `EncodeCalcShare` makes an address
of any length, and `GetParams` refuses one over `MAX_SHARE_URL_LENGTH` (`ShortEnough`), as it does
one of another format or calculator; how long the address of a form is, is a constant
(`AddressLength`).

**Seed** models `seed` as the list of its `update_or_create` calls, one step each, in one
transaction whose rows others neither see nor overwrite (`wrote`, `Locked`), and `seed_content`
run by itself, which commits row by row. The staff edits, withdraws and deletes rows meanwhile.
`Whole` is a complete seed, `titled` remembers titles the staff gave a source: with two of one
title every later seed fails and rolls back, as `update_or_create` does. **Backups** adds the two
scripts over the same database: `file` is the set of dumps, each the committed rows of one moment
with its name, its day and whether it is whole; it gets its name by `mv` when it is complete, and
old ones go after a success; the database is lost, migrated empty or restored from a dump.

The `MC` modules give the constants values and define symmetry. The `*Proofs` modules hold the
theorems of the module they are named for; `ContributionsProofs` also those of Consent and
Datasets, `AnalysisProofs` those of Verdicts, `BackupsProofs` those of Seed,
`CalculatorsProofs` those about the engine. An operator introduced as a *Variant* is a
plausible bug of the definition below it, used only by the mutants.

## 4. The runs

Every bound is a constant of a configuration: requests, builds, uploads, rows and versions are
finite sets. What a guard has to bound is named so: `MaxStaff` (forms opened and accounts
deleted by the staff, Invitations), `MaxClock` (time stamps) and `MaxChanges` (changes of
rulesets, both Analysis), `MaxCached` and `MaxDeploys` (rankings in the cache at once, releases
after the first, Calculators), `MaxEdits` (acts of the staff, Seed), `MaxDay` and `MaxLosses`
(Backups). `TopN`, `MaxBreakpoints` and `MaxEncounters` are limits of the code itself, smaller.

| Run | Bounds | What it shows |
|---|---|---|
| `consent` | 1 user, 3 requests of any kind, 1 text | revocations stick, quiet deletions are final, audit tells the truth of a request that ran alone, requests end |
| `datasets` | 3 builds, 1 observation, threshold 1, staff may set "public" by hand, one change form at a time | numbering, page, ledger, builds that have begun end |
| `contributions` | 1 user, 2 requests, 1 observation, 1 build, staff as in `datasets` | revoked and erased users stay out; builds still refine Datasets |
| `trades` | 2 uploads of up to 2 rows, 2 keys and a bad row | answers, atomicity, re-import, log, uploads end |
| `rulesets` | 2 staff, 2 rulesets, 2 parameter rows, 1 key | publications stay put and valid; the shelf is implemented |
| `floors` | 1 reader that starts again and again, 2 rulesets, 1 key, 2 floors | floors reproduce, answers are current |
| `invitations` | 1 browser, 2 requests, 2 invitations, 2 addresses in 2 spellings, 1 act of the staff | only the invited get in, late links are closed, a signup closes its invitation, none is taken over |
| `analysis` | 2 observations, Lucky or of 1 friendship, 2 rulesets, 2 requests (as `Bounded` says, below), 3 time stamps, 1 change of rulesets, a test of 2 rows | a reused analysis is that of the same data, a failed run shows nothing, the dashboard judges the model only by enough rows and warns of a mixture |
| `calculators` | 6 levels, IVs 0 and 1, 3 species, 5 fighters, 5 moves, 8 calculators with valid, missing, unreadable and boundary fields, 1 release | the ranking is the best there is and of this release, costs add up, breakpoints are exact, an address shows what was shared, attackers are complete and in order |
| `database` | 2 seeds and 1 seed of content, 2 keys for each table, 1 source with 1 claim, 1 page, 1 act of the staff, 1 backup at a time, 2 files, 2 days, 1 loss | a seed shows whole and once or not at all, a complete recent dump is always left |

Why these are enough: a user's consent does not depend on others', and every conflict in the
code is between two requests plus a deletion, which three requests and the deletion exceed.
Three builds are needed for one to lock a row that a second has superseded while a third
inserts. Two uploads of two rows make the smallest deadlock. Two rulesets let one come into
force while the other is read, and a parameter move between them; two rows make a duplicate of
the one key. In `floors` one reader is enough because readers meet only in the cache, which
the reader's earlier calculation has filled; the cache can be filled under either version.
Two signups and two invitations are what a race for one invitation and a mistaken one take;
one act of the staff is one stale form or one deleted account, and a deletion while a form is
open is not counted. Two change forms of one dataset version differ from one only in which of
them is written last, and each writes what the check let through.
Two runs of an analysis let one reuse the other. `Bounded`, the state constraint of `analysis`,
leaves out what adds nothing to that. Two requests that compute at once have both looked up
already, so neither can answer with the other's run. What one run says of its own data does not
depend on another, so the second request starts only where all trades are Lucky, and mixtures of
Lucky and other trades are met by the first. The theorems need no such bound.
The forms of `calculators` are chosen by their boundaries: levels between the halves and beyond
the table, two caps of CP within the reach of the low levels, nothing or something that is no
number in each kind of field, an address as long as one may be and one longer; the constants keep products below 2^31. Each calculator's form is read in one step and
every property is of the last page shown, so one visitor, one address and one cached ranking
meet every combination. `database` needs two seeds to overlap and a second key for each table
to hold the duplicate an overlap could make; one act of the staff can rename, delete or
withdraw anything in between, and retention of 0 days with 2 days ages out a file as 14 with 16
does. Seed alone was checked with two acts of the staff and pages of both commands as well.

Two runs expect a violation (`erasure` and `bulk_duplicates`): each checks one sentence of the code's documentation that the code does not keep. They are
described in section 6. The type invariants of Trades,
Rulesets, FloorReads and Analysis are proved (section 5) and not repeated by a run.

**Fairness.** Only the server's own steps are fair: a request, an upload or a build that is
not killed runs on (`WF` of its steps). Nobody has to send a request, moderate or start a
build. `Consent` needs strong fairness, for a save that waits for a row lock is enabled and
disabled as deletions come and go; PostgreSQL queues it, so it gets the row in the end. The
deletion's transaction is weakly fair because the worker in it runs on or dies.
`CHECK_DEADLOCK FALSE` stands where the system may stop because nobody asks anything;
`calculators` and `database` check that theirs does not.

## 5. What is proved

TLAPS proves the following for every value of the constants. Each module proves one inductive
invariant, conjunct by conjunct and action by action; the theorems are read off it.

**Consent, datasets, contributions** (`ContributionsProofs`, in three parts).
`ConsentTyped`, `RevocationHolds`, `ErasureStays`, `AloneIsAudited`: the revocation is not
inductive by itself. The invariant adds that two requests of a user that run at once know each
other (`RivalsKnown`), that no grant runs for an opted-out user (`OptedOutRests`), that the row
an unopposed revocation is about to report on is inactive (`AnswerStands`), and that a request
about to save holds a row (`CopyHeld`). For the deletion: while a user is `quiet` no request of
theirs runs, and their row is gone or goes with the open deletion's commit (`QuietRests`). For
the audit: a request that knows no rival finds in the table what it last read or wrote there.
`DatasetsTyped`, `NumbersHold`, `PageHolds`, `LedgerImplemented`: a change form holds the number
and the contents of its version, or of one the staff has deleted (`FormFits`), so saving it changes
no contents and brings back only a number that is free. Uniqueness comes from the
index (`NumberTaken`), and gaplessness from the lock: a build numbers after a version that is
still there, so up to it all numbers exist. The lock alone does not prevent collisions: a row
inserted after the statement's snapshot is not seen, and the index fails that build.
`DatasetsImplemented`, `Typed`, `RevocationExcluded`, `ErasedExcluded`: each step of the whole
is a step or a stutter of Datasets; users who are opted out when the consents are read are
inactive then, so the owners a build holds exclude them, and its rows come from those owners.

**Trades** (`TradesProofs`): `TradesTyped`, `AnswersTrue`, `BulkAllOrNothing`, `ReimportIsEmpty`,
`LogImplemented`. `TradesInv` says how far a report has come at each step (`StepsFollow`), that
only reported rows are in the table (`RowsReported`), that each report names an observation its
own transaction can see and calls it new if it inserted it (`ReportsNamed`), that what is
uncommitted belongs to a running bulk upload and no two live rows share a key (`TableInv`), and
that an upload about to insert found nothing an earlier answer holds (`ReimportInv`). The unique
index is what closes the gap between the lookup and the `INSERT`. Every step is one `Add` of the
log or leaves the log alone; a bulk upload's commit is the one that adds several.

**Rulesets** (`RulesetsProofs`): `RulesetsTyped`, `PublishedRulesetsStay`,
`PublishedRulesetsValid`, `ShelfImplemented`. No edit under way is about a ruleset that is or was
guaranteed (`EditsInv`): what passed the check of a draft before the publication, the publication
counts as an edit, and after it nothing passes. A publication beside which nobody edits finds
what it validated (`AloneInv`), although the check and the `UPDATE` are two queries. For the shelf
it is enough that each query moves the status and the guaranteed floors of one ruleset at most.

**FloorReads** (`FloorReadsProofs`): `ReadsTyped`, `FloorsCanBeRead`, `AnswersCurrent`. `ReadsInv`:
an absent ruleset has no floors (`AbsentUnknown`); the floor a reader keeps was guaranteed by the
ruleset it names, which is not guaranteed a second time with another, and the rulesets a request
resolves come one after the other unless one lapses (`ReadersSound`); an entry of the cache
names the ruleset of its key or, without a lapse, a newer one (`CacheSound`).

**Invitations** (`InvitationsProofs`): `InvTyped`, `OnlyInvitedGetIn`, `LateLinksStayClosed`,
`SignupClosesItsInvitation`, `ConsumersStay`. What each needs is one conjunct of `InvInv`:
every copy of a session, stored or held, was opened by its browser (`SessionsOpened`); a
token that passed the revalidation was valid after the request began (`FormsAreFresh`); of
the invitations open to an account only the one the signal found is left when the UPDATE
runs (`OpenShrinks`, which needs the partial unique index); and an open change form has read
a consumer that is still there or gone, so a stale save restores it or is refused
(`EditorHolds`).

**Analysis** (`AnalysisProofs`): `AnalysisTyped`, `ReuseAnswersTheData`, `UnfinishedIsEmpty`,
`VerdictsHaveData`, `MixesAreSaid`. The point is `Snapshot`: while no write overtakes another,
every valid row not newer than a fingerprint's maximum was counted in it. So two fingerprints
with one count and one maximum were taken of the same rows (`SamePrint`), and a completed run
under that fingerprint holds what its finder's data give. Time stamps are distinct and not in
the future (`StampsInv`). For the mixtures: the groups are read before the flags, so while no
row of a group goes away the counts find it too (`FlagsInv`). The verdicts need that `Evaluate` loses no rule: the positions of a
ranking without ties are all of 0 .. n-1, so each rule that applies is at one of them.

**Backups** (`BackupsProofs`): `DumpsStay`. A backup prunes on the day it published
(`PrunesInTime`), so the dump of the last success is never the old one it removes, and a run that
died did not get that far.

**Seed** (also `BackupsProofs`, for the dumps bring back what seeds have committed):
`SeedsCommitWhole`. Being whole is not inductive: a seed's commit must follow from what the seed
wrote over many steps, while staff, `seed_content` and other seeds change the rows it does not hold.
`DatabaseInv` says: every task that a seed is past is done as that seed sees the data (`SeedsGo`,
`Ready`); no two seeds hold one row (`LocksApart`); what is committed, and what a dump
holds, has claims only of sources, and at most one ruleset, the mechanic's current one (`Sound`); and
nobody is at work without tables (`AtWork`). What others do around a seed is `Around`: rows it
wrote stay, a source changes only to a title on record, a claim goes or loses its ruleset; under
that, done stays done (`AroundKeeps`), as it does under the seed's own later writes (`DoneStaysDone`).
Two things carry it. The order of the calls (`SeedTasksAre`): the Site and the mechanic come first, so
their locks let one seed at a time past them, and every source comes before the claims. And the
one ruleset: a ruleset found is the current one of a mechanic that is locked, so nobody deletes it
until the commit. Of a title that the staff gave there may be two sources, and the property says so.

**Calculators** (`CalculatorsProofs`): `LinksShow`, `RankingHolds`, `BreakpointsHold`,
`AttackersHold`, `BillsHold`.
`CalculatorsInv` says that an entry of the cache holds what its key asks for, made by the
release the key names, that the page shows the answer to its form, that every form was one
that can be sent, and that an address has the parameters and the length of the form it was made
of. The rest is about the engine. CP, HP and the stat product do not fall with the level
(`CpGrows`, `StatProductGrows`), so trying levels upwards until one is over the cap finds every
level under it (`FittingIsReach`) and the last is the best. The sort key with the order of
`product()` behind it is a strict total order, the positions of n members in one are all of
0 .. n-1 (`PlacesAreAll`, by counting), so the list is the set in its order and its first
members are the best. A damage does not fall either (`DamageGrows`), so a level that does more
than the one before does more than all of them (`RisesAreRises`), and rises and damages above
the first correspond one to one.
For the attackers, a sort and a filter are rows named by positions in an order
(`SortWith` and `Select`, which are `SortBy` and `Picked` with their operator given), so a list that has each wanted species once still does after either (`SortedLists`,
`PickedLists`), and a filter leaves the order (`PickedRises`). For the bills, the sum over a finite
set is unfolded from its recursive definition: a smallest part of the set without a solution of
its equation, or for which the lemma fails, would have a smaller one (`SmallestIsThere`). So sums
over sets apart add up (`SumAdds`), and since every tier costs whole hundreds no rounding of a
discount loses anything (`DiscountsAreExact`).

The assumptions are those named in the modules, and TLC evaluates them in the runs. They say what
is a model value apart from others (`NoRow`, `NoObs`, `NoVersion`, `None`), that sets are
finite, and what tables of the code are: base stats and multipliers positive, multipliers
rising with the level, powers natural numbers (`RankingAssumption`, `BattleAssumption`), a
league or a defence a number where the form holds one (`CalculatorsAssumption`), percentages up
to 100 and a positive minimum of rows (`VerdictsAssumption`), species in one order without
repetition whose names differ, and level 40 among the levels (`PagesAssumption`), no key of two
tables and a page at least for `seed_content` (`KeysApart`, `SeedAssumption`).

Only model-checked:

* Liveness (`RequestsEnd`, `BuildsEnd`, `UploadsEnd`): fairness and `ENABLED` are beyond the prover.
  Every invariant and action property of the passing runs is proved.

No module here declares a `RECURSIVE` operator.

## 6. Where the code and its documentation part

* `erasure`: a consent request that was running when the account was deleted saves its row
  again, after the commit.
* `bulk_duplicates`: `import_csv` reports the rows skipped as duplicates
  (`trades/services.py:332`). A trade registered between a bulk upload's look-up and its `INSERT`
  makes the insert fail, the handler that should turn the error into an answer queries inside the
  transaction the error broke, and the whole upload is lost.

More are visible in the models and have no run of their own:

* ADR 0002 and `mechanics/models.py:144` say a published ruleset is immutable. Its parameters
  can be deleted with the admin's "delete selected" (a queryset's delete, which the guard in
  `delete()` does not see) or moved to a draft, and a change form opened before the publication
  writes `is_published=False` back. `PublishedStaysPut` says when it does stay.
* `_input_fingerprint` says a run is reused "solo si la entrada es idéntica". The fingerprint is
  taken before the data is read, so a run may be stored under that of other data; and a count
  and a maximum do not show every change. `ReuseIsSound` says when reuse is right. The docstring
  of `_build_groups` says different floors are never mixed: rows of deleted rulesets are.
* `_detect_mixing` says it detects mixtures of rulesets in the queryset
  (`analysis/services.py:280`); it counts those of the trades that are not Lucky. Lucky trades
  under two rulesets are analysed in two groups without the warning. `MixesAreFlagged` says which
  mixtures are flagged.
* `_group_floor` says its floor is read from the ruleset, never hardcoded (`analysis/services.py:93`).
  A ruleset deleted between the query that finds it and the one that reads its parameters has none,
  and the defaults of `_floor_from_params` are taken (`ReadParameters` of Analysis).
* `encode_calc_share` makes addresses that `decode_calc_share` refuses, when a field of the form is
  long enough; such an address opens as none (`LinkShowsWhatWasShared` says so).
* Granting again under a newer text audits the new text and keeps the old (`GrantSave`).
* A single registration takes the floor and the ruleset it stores from two resolutions
  (`ReadFloorAgain` of FloorReads).
* `restore.sh` warns that it overwrites the database; a dump has no `DROP`, so over tables that
  exist it fails and rolls back (`Restore`). A killed backup leaves a `.tmp` that neither the trap
  nor the retention removes.
* `rank_for_league` says a cap of 0 means no limit; it gives an empty ranking (`Fitting`).
  Six species the calculators offer are not in the table of `find_breakpoints` and are answered
  with an error (`BreakpointsResult`).
* `seed` publishes again what the staff withdrew, and two sources of one title make it fail from
  then on.
* The dashboard's recommendations are those of the hundo rate whose key comes first, also when
  the run has several groups (`Recommendations`).

## 7. What is not modelled

Real-valued mathematics (probabilities, intervals, tests): TLC has no reals, so the chance of a
catch, of a shiny and of a trade is named by what it is computed from. Rendering, colours and
messages. The anonymisation and checksum of a version are functions of its rows, which the models
keep instead. The admin form of a consent, trade sessions, and the rows deleted with an account
that no modelled part reads. Sending invitations (`accounts/admin.py:88`): the mail leaves before
it is recorded, so a failure between the two sends it again; nothing else reads that record. The
audit event of `mark_observation`, whose `previous_state` is read before the update. The
statistics an analysis computes from the rows it read, which are a function of them; and the
analyses deleted with their account. The statistics of pooled datasets. The scripts that
provision a machine: commands of other programs, run once. In Seed, the columns that stand with
their key, claims edited by the staff, and another current ruleset chosen by hand; in Backups, two
backups started in the same second, which the systemd unit rules out.
Fields other than those the properties tell apart; dates are kept as their order against the
clock (`window`) or as set and unset.

## 8. Plan

1. *Core*: Consent, Datasets, Contributions, Trades, Rulesets, FloorReads with their abstract
   specifications and runs, and proofs of the first three. Done.
2. *Analysis*: runs, fingerprint and reuse over observations and rulesets. Done; an abstract
   specification (results as a function of the data at one moment) is left.
3. *Invitations*: session token, revalidation, conditional consumption, expiry, the admin's
   form, with their proofs. Done.
4. *Audit*: the append-only guards, joined to the operations that log.
5. *Engine and calculators*: ranking of spreads, power-up costs, breakpoints, attackers, forms,
   addresses and cache. Done; `validate_parameters` is in Rulesets.
6. *Content and scripts*: seeds, backups and restores. Done; the provisioning scripts are left.
7. *Proofs*: the safety invariants of every run and the refinements of Datasets, Rulesets, Trades and
   Contributions. Done; liveness stays with TLC.
