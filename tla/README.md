# mplus-tracker in TLA+

mplus-tracker is a Rust web service that collects World of Warcraft Mythic+
runs. It pulls guild rosters and character profiles from Raider.IO, files the
runs in SQLite, and serves counts and leaderboards per character and per
player. This directory holds a TLA+ model of it, the TLC configurations that
check the model on small instances, and proofs about it for every size.

Source references are relative to `src/`: `db.rs` is `src/src/db.rs`.

## 1. Inventory

| Part | State it keeps | Operations | Interacts with |
|---|---|---|---|
| Database (`db.rs`, `migrations/`) | tables characters, players, player_characters, runs | one SQL statement per method; never a transaction around several | everything |
| Update service (`service.rs`) | the semaphore of `AppState`; the locals of each running request | `update_character`, `update_all_characters`, `update_guild` | Raider.IO client, Database, tokio tasks |
| Raider.IO client (`raiderio.rs`) | `attempt` and the pending sleep of each call | `get_with_retry`, `backoff_ms` | Raider.IO; called with a permit held |
| Boot and seeding (`main.rs`) | position in `config.toml` | connect, migrate, `seed_from_config`, serve | Database |
| Request handlers (`handlers.rs`) | none | start the above; delete; queries | all |
| Time windows (`time_window.rs`) | none (reads the clock) | `TimeWindow::resolve`, weekly resets | handlers |
| Leaderboard and totals (`db.rs`, `handlers.rs`) | locals of one read | `get_leaderboard_all`, `get_character_keys`, `get_player_keys` | Database, under concurrent writes |
| Debug and roster queries (`db.rs`, `handlers.rs`) | locals of one read | dashboard, pages of runs, rosters, lists | Database, under concurrent writes |
| Run hash (`hash.rs`) | none | `run_hash` | update_character, `insert_run` |
| Authentication (`auth.rs`) | the token | compare | in front of every route |
| Configuration (`config.rs`) | constant | parse, default | all |
| Casing migration (`0002_*.sql`) | tables | merge rows that differ in case | Database, once |
| Update script and timer (`scripts/mplus-update.*`) | `attempt`; systemd's clock | health check, POST `/update/all`, retries | handlers and authentication, over HTTP |
| Backup and restore (`scripts/db.sh`) | database files | online `.backup` and copy out; pause, copy in, resume | the SQLite file, and the server by signals |
| Setup, container, web pages | none | installation, presentation | |

What is hard here, and what makes each part correct:

* **Everything interleaves per statement.** No operation is a transaction, so an
  update that has upserted its character may find the row deleted and
  re-created under another id before it inserts a run. Correct means: runs are
  only ever filed under their own character, once, and are not rewritten.
* **Futures are dropped.** axum drops a handler when its client leaves. The
  permit must come back; tasks that `update_all` has spawned run on, detached.
* **Results are used late.** `update_all` joins its tasks in list order and
  prunes rows on what a task was told long before.
* **Names differ in case** between Raider.IO's endpoints, `config.toml` and URLs.
* **A shared semaphore** throttles everything, including the children of several
  overlapping `update_all` requests and the retries inside each call.
* **Crashes** can cut seeding or an update at any statement.
* **Multi-query reads** (totals, the leaderboard, the dashboard) see the tables
  change under them.
* **A one-off migration** rewrites and deletes rows under cascading foreign keys,
  with another notion of lowercase than the program's.
* **Timeouts are nested**: those of a Raider.IO call within curl's within
  systemd's, and work outlives whoever asked for it.
* **Clock changes** shift the weekly reset against UTC; u64 arithmetic saturates
  in one place of the backoff and wraps in another.

`PROJECT.json` lists each hazard at its line with the properties that cover it.

## 2. Modules

| Module | Models | How |
|---|---|---|
| `Database` | the tables and every statement of `db.rs` that writes them | one operator per statement |
| `Service` (extends Database) | `service.rs`, the semaphore, the spawned tasks | a `pc` per worker, batch and pull; one action per step between two awaits |
| `Tracker` (extends Service) | `main.rs`, the state-changing routes, crashes, Raider.IO's own changes | the whole server: `Init`, `Next`, `Spec`, `FairSpec` and its properties |
| `Archive` | what the server promises | abstract: characters become known, runs are recorded once, characters are forgotten |
| `DatabaseProofs`, `TrackerProofs`, `ServiceProofs` | what the statements keep; the theorems about Tracker: rows, ids, runs and the refinement; permits, joins and what tasks leave on file | section 5 |
| `RetryClient` | `raiderio.rs`, and how `update_all` reads its errors | one call, with u64 arithmetic scaled to `WordSize` |
| `TimeWindow` | `time_window.rs` and the region each handler passes | a clock in whole hours across both DST changes |
| `Leaderboard` (extends Database) | `get_leaderboard_all` and the two queries of a player's total | a reader, query by query, among writers |
| `Queries` (extends Leaderboard) | the totals of a character and of a player, the dashboard, rosters, pages of runs, of a guild's runs and of depletions | one read per behaviour, query by query, among writers |
| `Migration` (extends Database) | `0002_normalise_character_casing.sql`, its transaction, the upserts afterwards | one action per statement, over every legacy table |
| `MigrationProofs`, `RetryClientProofs`, `TimeWindowProofs`, `UpdateScriptProofs` | the theorems about those modules and their proofs | section 5 |
| `QueryProofs` | the theorems about Leaderboard and Queries and their proofs | section 5 |
| `UpdateScript` | `mplus-update.sh`, its systemd service and timer, the token check, the server as curl sees it | the script's position, two clocks, and the accepted `update_all` requests |
| `MCTracker`, `MCLeaderboard`, `MCQueries`, `MCMigration` | | the constants of the runs |

`Tracker` composes `Database`, `Service`, boot and environment: one state, one
next-state relation. `Leaderboard` composes the statements of `Database` with a
reader, `Queries` adds the other readers, and `Migration` puts the statements of
the SQL file before those of the server. `UpdateScript` composes the script with an
`update_all` of which only the number of unfinished tasks is kept: that the
tasks end is `UpdatesReturn` of `Tracker`. `RetryClient` is what `FetchProfile`, `FetchGone`, `FetchFails`,
`FetchRoster` and `FetchRosterFails` of `Service` abbreviate: a call that ends,
in one of the results `profile`, `gone` and `failed`, with a permit held.

### State and code

* `characters`, `players`, `links`, `runs` are the four tables; `lastId` is the
  AUTOINCREMENT counter of characters. `runs` is a function of the hash because
  of `UNIQUE (hash)`.
* `permits` are the free permits of `AppState.semaphore`. A `worker` is one run of
  `update_character`, by a handler (`Requests`) or as a task of a batch
  (`Children`, a task per listed row). A `batch` is an `update_all_characters`, a
  `pull` an `update_guild`. `worker[w].id` and `pull[g].id` are the row ids the
  code keeps in a local variable across awaits. `pull[g].done` are the rows of the
  members a pull has passed, but for those whose link statement failed.
* In `Leaderboard`, `Owners[n]` are the players that this or an earlier `config.toml`
  declares a name under. A boot links its character to all of them that the file
  has then (`Seeded`; `main.rs:150-168`), a pull to the last of them (`Linked`, `PlayerOf`),
  and no link is ever taken back, so a character may have several players.
* In `Queries`, `endpoint` is the request of the behaviour, `at` the query it makes
  next, `owners` and `figures` what it has read; `steady` and `ever` remember the timed
  runs that were in the tables throughout and at some time since the read began,
  `standing` and `filed` the same of the rows of characters, and `pulled` the guild, as
  it was typed, of each row's latest pull.
* In `Migration`, `pc` is the statement to run next and `legacy` the tables before
  the transaction, to which a crash rolls back.
* In `UpdateScript`, `attempt` is the script's variable, `wait` what is left of the
  `--max-time` or `sleep` under way, `elapsed` the time systemd compares with
  `TimeoutStartSec`; `jobs` are the `update_all` requests the server has accepted,
  with the tasks still `left` and whether a crash `lost` them or, if they had all
  ended, the answer; `job` is the one curl is waiting for.
* `seed` is the position of `seed_from_config` in `config.toml`; `server` says
  whether the process is down, seeding or serving.
* Foreign keys are enforced on every pooled connection: sqlx switches them on
  when it opens one, besides the pragma of `db.rs:43`. `INSERT OR IGNORE` does not
  forgive a foreign-key error, so a link to a deleted row fails.

### Abstractions

* A (region, realm, name) triple is one value, of which `Lower` gives the
  lowercase spelling; a guild's name and realm are one value too. SHA-256 is
  injective on what `run_hash` feeds it. Raider.IO gives one run the same
  completion string and id each time.
* A report is a key and a flag (timed or depleted): what distinguishes reports of
  one run is whether `within_time` changes between two fetches.
* Reports and members are worked off in any order; the code goes through them in
  Raider.IO's order, which is not known either.
* SQLite also burns ids on conflicting upserts; the model makes ids dense. Only
  that they are never reused matters.
* The counters of responses (`added`, `ok`, `pruned`, ...), logging, validation of
  empty parameters, `last_seen` and labels are left out.
* A request that is dropped while a statement is on its way may still have it
  executed; that is the same as being dropped right after.
* A batch takes a slot whose earlier detached tasks have ended. Spawning has no
  await, so listing and spawning is one step; a failing list query is a batch
  that does not start. A task that panics is not modelled; the code of a task
  has no panicking path in a release build.
* `config.toml` does not change across restarts, except in `Leaderboard`, which has the
  links of earlier files; and the database is empty at first, except in `Migration`.
* A guild's region is left out: rows do not have it, and the roster ignores the one in
  its path (`handlers.rs:357-363`).
* A count is represented by the set of the runs it counts, so that "too many" and
  "the wrong ones" differ. The groupings by dungeon and level are one figure each.
* A behaviour of `Queries` ends with its read, and only has the writes that can
  change what the read sees; which runs fill a page
  that is full is left open, and `min_level` is part of the constant `InWindow`.
* In `UpdateScript` time passes only while the script waits; the three hours
  between firings do not. systemd does not start a oneshot unit that is still
  starting, so two scripts never overlap, but their requests do. The detail of the
  tasks (permits, retries) is that of `Service`.
* A legacy table respects the old UNIQUE constraint and the foreign keys, and its
  runs are booked on a row of their character under whatever spelling.

## 3. Runs

| Run | Instance | Asks |
|---|---|---|
| `server` | an update request, an `update_all` and a pull, 3 spellings of 2 characters in rosters, `config.toml` and requests, profiles in which a run is timed or depleted or has a bad timestamp, failing statements, cancellation, crashes, characters that vanish upstream, 4 inputs | are runs filed once under their own character, and is nothing lost; one row per character, which leaves only for a DELETE or a 400 of its own; links and guild of every member that was passed; is every boot complete; does the server implement `Archive` |
| `progress` | an update, two overlapping `update_all` and a pull over 1 permit, every fault, 3 inputs, fairness | does everything that waits return; are permits conserved |
| `retries` | 8 retries, 6-bit words, headers that fit and that overflow | number and length of the waits; does each call end |
| `weeks` | four weeks around both DST changes, every hour, every scope, region and handler | is the week the reference week; does it move at resets only |
| `queries` | 2 players, 3 characters (of one player, of both, of none), 3 row ids, every reading endpoint, links, pulls and deletes during the read; for the dashboard 2 of the characters | are totals exact; does the leaderboard count what is undisturbed for each player it is linked to, and nothing twice for one; does each figure of the dashboard have what it counts and was there throughout, and nothing else or that never was; is the roster the latest pull; are pages capped |
| `migration` | every legacy table of up to 3 rows over 4 spellings of 2 characters, every set of links and runs | is every run and link kept; can the migration fail; is the oldest row found afterwards |
| `script` | 3 attempts, 2 firings, 1 crash, any token | is success real; does it give up for the reason it reports; does accepted work end |

An *input* is something from outside: a request, a delete, a crash, a change on
Raider.IO. `MaxInputs` bounds them; what the server does is not bounded. Four
inputs are enough for the shortest histories in which the hazards of section 1
can go wrong: two requests that overlap with a delete and a re-creation, or a
request, a crash and a second request. Two characters, one with two
spellings, suffice because statements touch one character each; the mix-ups
that are possible are between two. In `server` the boot puts the declared rows on file,
so that no input is spent on that; an `update_all` and a pull are at work at the
same time only if they are the only inputs (`MCApart`), in `progress` without that
limit. In `retries` the exponential passes the cap at the fourth attempt and the
word at the eighth (2^7 > 64); 13 s times 5 overflows 6 bits. In `queries` three row ids allow delete and re-creation of a character next
to another; `TopLimit` 1, `PageDefault` 1 and `PageCap` 2 (1 for depletions) put the limits
within reach of three runs and two characters. In `migration` three rows allow two spellings of one
character and a row of another, with the survivor linked or not; a fourth id lets
the server create a row. In `script` the times are 1, 4, 1 and 8 units, so that,
as with the real 10, 300, 30 and 600 seconds, two POSTs that time out do not fit
in systemd's limit. In `weeks`
the changes are two weeks apart rather than half a year, which leaves a full
week, the furthest the code looks back, between and around them.

Deadlock checking is off in every run: once its inputs are used up (or its call
has ended, or the clock has reached `Last`) a model may stop.

Each property of a passing run is tested against a mutant of the code
(`Mistake:` in the modules): a plausible bug in one definition, under which TLC
must find the property violated.

### Fairness (`FairSpec`)

* Weak fairness of every step of a task: a Raider.IO request ends within the
  30 s client timeout and is retried `max_retries` times (`retries` checks that
  such a call ends), SQLite statements return or fail, and tokio polls what is
  ready.
* Strong fairness of taking a permit: tokio's semaphore is first come, first
  served, so a waiting task is not overtaken for ever.
* Weak fairness of booting: `docker-compose.yml` restarts the container
  (`restart: unless-stopped`).
* `UpdateScript`: weak fairness of `TaskReturns` only, which is what `UpdatesReturn`
  says of `Tracker`; nothing is assumed of the script, the clock or a restart.
* No fairness of inputs, faults or cancellation.

### What the source says and the program does not do

Runs that must end in a violation; each states what a comment or a document says,
in the words quoted under "findings" in `PROJECT.json`. Their instances are those of
the passing runs or smaller ones.

| Run | Claim | What happens |
|---|---|---|
| `stale_prune` | pruning is for characters that do not exist (`service.rs:404`) | the 400 is acted upon when the handle is joined, which may be long after; a character that has appeared meanwhile is deleted with its runs |
| `lost_runs` | the leaderboard has each alt under its player or the character on its own (`db.rs:634-636`) | links are read player by player and again for the untracked; a character linked in between is in neither |
| `migration_case` | after the migration, `upsert_character` always finds the canonical row (`0002_*.sql:14-16`) | SQLite's `LOWER` leaves letters outside A-Z alone, Rust's `to_lowercase` does not: the row of a name with an accented capital is never found again, and the next upsert makes another |
| `jitter_over_cap` | `max_backoff_ms` is the maximum (`README.md:88`), the jitter goes both ways (`raiderio.rs:155`) | the jitter is only added, and after the cap: waits are up to a quarter longer (`raiderio.rs:154-158`) |
| `weeks_documented` | the NA week begins on Tuesday at 15:00 UTC (`README.md:196`, 220) | it begins at 09:00 in New York, 13:00 or 14:00 UTC; the code's comments and `api.html:319` say so too |

The runs that pass state the same matters as far as the code keeps them:
`WaitsFollowTheExponential` puts every wait within a quarter of the capped exponential, on
either side, and leaves the maximum to `jitter_over_cap`; `WeekStartsAtTheLastReset` and
`WeekTurnsAtItsResets` have the resets of the code's comments and of `api.html:319`, at
which the README's hour is wrong.

Further disagreements with a document, which follow from a line or two and have no run:

* With the default values systemd's 600 s end the script in its second attempt if the POSTs
  time out (10 + 300 + 30 + 300 s; `mplus-update.service:43`), so it does not retry
  `MPLUS_MAX_RETRIES` times before it gives up (`update.conf.template:27`).
* A declared alt that is deleted or pruned and then updated has a row without its link
  until the next boot or pull (`service.rs:272-275`), so a player's count is not across
  all alts (`README.md:231`).
* The week of a player and of the leaderboard is NA's, and their query string has no region
  (`handlers.rs:225-231, 326, 633`), where the week is documented to follow the region for all
  query endpoints (`api.html:304`, 319). `WeekStartsAtTheLastReset` is about the one
  handler that knows a region.
* A pull files the realm in lowercase, the roster compares it as typed (`db.rs:79, 331`):
  the documented pull and roster of a realm with a capital (`api.html:396, 576, 581`) list
  nobody. `RosterIsTheLatestPull` asks in lowercase.
* The caps of the pages are called hard (`api.html:663, 691`), but `.min(1000)` leaves a
  negative limit, which SQLite takes for none (`handlers.rs:444, 538`). `PagesAreCapped`
  exempts it.

Met while modelling, where no document says otherwise or the wording decides:

* `delete_character` compares the path as typed (`db.rs:715-725`), every other
  statement lowercases: `DELETE /character/us/Stormrage/Bob` answers 404.
* Nothing clears the guild of a character that leaves it, so leavers stay on the
  roster (`service.rs:121-226`; `RosterIsTheLatestPull` says exactly that). The
  documented `/guild/us/area-52/My+Guild/roster` (`README.md:258`) looks for a guild with
  a plus sign in its name: `+` means a space in a query string only.
* A run of a character with two players counts for both (`db.rs:652-670`), and the links
  of a `config.toml` that is no longer in force stay.
* The row that survives the migration keeps its own guild columns, even if only
  the duplicate had a guild: the character is off the roster until the next pull.
* The script's "retries" are attempts: 3 means one try and two retries
  (`mplus-update.sh:59`).

## 4. What is only model-checked

Liveness: `UpdatesReturn`, `BatchesReturn` and `PullsReturn` of `Tracker`,
`CallReturns` of `RetryClient`, `WorkOutlivesTheScript` of `UpdateScript`. They rest
on fairness, and fairness on ENABLED, which the prover does not reason about.
(That a call of `RetryClient` has finitely many steps is proved: `CallsRunOut`.)

Every invariant and every action property of a passing run is a theorem as well.
The violations of section 3 are counterexamples and need no proof.

## 5. What is proved

Each theorem is of all values of the constants that satisfy the named assumptions
of its modules. TLC checked each inductive invariant on the instances of section 3
before it was proved.

### The server: rows, ids and runs

`TrackerProofs` assumes what `Database`, `Service` and `Tracker` do: non-empty names
with an idempotent `Lower`; finite, disjoint task sets; well-typed profiles, rosters
and configuration.

- `TypeCorrect`: `Spec => []TypeOK`.
- `RunsStayWithTheirCharacter`: `Spec => []RunsBelongToTheirCharacter`. A stored
  run is booked on the live row of the character named in its hash.
- `OneRow`: `Spec => []OneRowPerCharacter`. No two rows for two spellings.
- `CarriedIds`: `Spec => []CarriedIdsAreNotReused`. A row id held across an await
  never comes to denote another character.
- `ArchiveImplemented`: `Spec => ImplementsArchive`. The tables, with ids and tasks
  forgotten, are the abstract `Archive`.

The argument. `RunsBelongToTheirCharacter` is not inductive: `InsertRun` files a
run under the id its task carries and never looks the row's name up again, so
the step is right only because of what carried ids denote. The inductive
invariant is therefore

    Inv == TypeOK /\ OneRowPerCharacter /\ RunsBelongToTheirCharacter
           /\ CarriedIdsAreNotReused

whose last conjunct says that an id held by a worker, a guild pull or the seeding
loop is an id the table has handed out and that its row, if it still exists, is
the named character's. It is kept because ids are never reused (`lastId`, SQLite's
AUTOINCREMENT) and because no statement renames a row; with plain rowids, the
mutant of the `server` run shows, it fails.

The proof is in three layers:

1. one lemma per SQL statement (`UpsertCharacterLemma`, `DeleteCharacterLemma`,
   `InsertRunLemma`, `UpsertPlayerLemma`, `LinkLemma`, in `DatabaseProofs`, which
   the proofs about the queries share): it keeps the database's
   part of `Inv` and leaves ids stable (`IdsAreStable`: a row never changes
   its name, `lastId` never decreases, and a new row has a new id);
2. one lemma per kind of task (`WorkerOrderly`, `BatchOrderly`, `PullOrderly`,
   `ClientOrderly`, `ReturnIsOrderly`...): a step keeps the service's types, and an id a
   task holds after it was held before it or denotes the right character (`Orderly`);
3. `OrderlyPreserves` joins the two, the `...Preserves` lemmas go through the actions
   of `Next` one by one (the steps that do obtain an id, `Upsert` and
   `UpsertMember`, are treated there), and `NextInv` and `Invariance` conclude.

The refinement uses `Inv` in both states: every statement is simulated by one step
of `Archive` or by a stutter (`UpsertSimulation`, `InsertRunSimulation`,
`DeleteSimulation`, `NoStatementSimulation`), and `StepSimulation` lifts that to
`Next`. The fact that makes an `InsertRun` under a carried id an archive step for the
right character is again `CarriedIdsAreNotReused`.

### The server: what tasks share and what they leave

`ServiceProofs` goes on from `Inv`:

- `PermitsAreConserved`: `Spec => []PermitsConserved`. `PermitSum`, the free permits
  plus the cardinalities of the sets of tasks that hold one, is constant under every
  step but a crash, which takes all holders with it.
- `RowsAreNotLostOtherwise`: `Spec => RowsLeaveForAReason`. A step of a batch may
  delete a row only in "pruning", and the invariant has to say whose result it acts
  on: `PruningIsBacked` says that the task whose handle comes next is the one that
  returned "gone". It is undisturbed meanwhile, because a finished task moves only when
  it is joined. `NextJoin` takes the least id, so the proof first shows there is one.
- `GuildsStay`: `Spec => GuildIsNotErased`, statement by statement
  (`OneStatement`: a step issues one at most).
- `HandledRuns`, `LinksStayDeclared`, `ServesOnlySeeded`, `PassedMembers`:
  `HandledRunsAreStored`, `LinksAreDeclared`, `SeededBeforeServing` and
  `PassedMembersAreRecorded` are invariants. They are proved together:

      RecordInv == Inv /\ TasksNeedServer /\ PlayersOnFile /\ SeededSoFar
                   /\ FetchedAsAWhole /\ HandledRunsAreStored /\ PullsAreSound
                   /\ PassedMembersAreRecorded /\ LinksAreDeclared

  `SeededBeforeServing` speaks of the moment the seeding ends; `SeededSoFar` says it of
  the declarations passed so far, and `TasksNeedServer` that nothing else runs then,
  so that no DELETE undoes them. What a task has passed stays on file because a
  statement of another task removes a run or a link only with its row, and because
  the row's id is not given out again.

### The queries

`QueryProofs` proves of `Spec` of `Leaderboard`, for tables of any size,

- `BoardOwnRuns`: `[]PlayersGetTheirOwnRuns`,
- `BoardCountsNoneTwice`: `[]NoRunCountsTwice`,
- `BoardCountsForPlayers`: `[]SteadyRunsCountForTheirPlayers`,

and, of `QuerySpec`, the same (`BoardUnderPulls`) and

- `QueryTypes`: `[]QueryTypeOK`,
- `ExactTotals`: `[]TotalsAreExact`,
- `BracketedFigures`: `[]FiguresBracketTheTables`,
- `LatestRosters`: `[]RosterIsTheLatestPull`,
- `CappedPages`: `[]PagesAreCapped`.

For the leaderboard, the invariant `BoardInv` says what the reader may rely on between
its queries: a link is to a player its character is declared under, of which it may
have several (`LinksAreOwned`); the ids it has read are linked to the player it is counting, if they are
still in use (`IdsAreLinked`); a player has one entry, with runs of its characters
(`EntriesAreOwned`); and a run whose character has not moved is, for each player the
character is linked to, still to come, being counted, or in its entry
(`NoneIsPassedOver`). All that writers do to it
is put into one formula, `Undisturbed` (a run that is there throughout keeps its row;
a new link is of a character that counts as moved; a link goes with its character
only), so each writer is treated once (`UpsertUnderRead`, `InsertUnderRead`,
`LinkUnderRead`, `DeleteUnderRead`) and the invariant once (`BoardWriteKeeps`).

`QueryInv` adds the other endpoints: which query comes when (`Protocol`), that a count
made now would lie between `steady` and `ever` (`Enclosed`), that the ids read are right
and complete for what is steady (`OwnersAreRight`), that the figures read so far
hold and the rows of characters are between `standing` and `filed` (`StatsHold`), and that each row's guild is that of its latest pull
(`GuildsArePulled`). `TopOfPage` and `LimitedPage` are what `LIMIT` and `ORDER BY COUNT`
give.

### A call to Raider.IO

`RetryClientProofs`: `RetryTypes`, `ExactRetries`, `WaitsFollow` and `RetryAfterHonoured`
prove `TypeOK`, `RetriesAreExact`, `WaitsFollowTheExponential` and `RetryAfterIsHonoured`, for
every width of the words, every setting of the backoff, every number of retries. The
invariant ties the requests sent to the attempts counted (`CountInv`) and the pending
sleep to what is owed (`SleepInv`). The arithmetic is in `CappedIsIdeal`: saturating at
the multiplication and at the power gives what unbounded integers would, since the cap
is a word too. The prover knows nothing of `2 ^ n`, so the model defines `PowerOf2` by
recursion, and the proof shows that the recursion has a solution: initial segments exist
and agree, by the least-element principle (`LeastNatural`).

`CallsRunOut` is the half of `CallReturns` that is safety: every step of a call decreases
`StepsLeft`, a natural number that starts at `2 * (MaxRetries + 1)`. What is left to TLC is
that steps are taken at all: that a request ends within its timeout, and a sleep too.

### The week

`TimeWindowProofs`: `WindowTypes`, `WeeksStartAtResets` and `WeeksTurnAtResets` prove
`TypeOK`, `WeekStartsAtTheLastReset` and `WeekTurnsAtItsResets`, for any Sundays
(at 02:00 local time) on which the clocks change and any day of the week to start from.
The loop of `weekly_reset_na` steps back by 24 hours of real time, so around a change it
can skip a local day or see one twice; it works because that day is never the Tuesday.
`NoChangeOnTuesday` says so, `InstantsOfTuesday` that a Tuesday is 24 hours which the
steps of the loop cannot miss, and `NaWeek` that every reset since the last one found
would have been found first. `EuWeek` is the same without clock changes. Eight days, not
seven, are needed when the week is asked for on the reset's day before its hour.

### The update script

`UpdateScriptProofs`: `ScriptTypes`, `SuccessesAreReal` and `ReasonsAreReal` prove
`TypeOK`, `SuccessIsReal` and `GivesUpForAReason`, for any timeouts, retries, rows,
firings and crashes. `ScriptInv` adds to them where the script is and how it ended
(`Progress`), that without the token there are no jobs, that the job curl waits for is
of this firing (`JobsAreOfFirings`), and that each attempt had one job at most
(`AnAttemptIsAJob`). The proof of `ScriptTypes` corrected the model: with
`MPLUS_MAX_RETRIES=0` the loop makes no attempt and the script fails after the health
check (`Healthy`), where the model had made one.

### The migration

`MigrationProofs` proves about the migration, for every legacy table, every set of
spellings and every pair of foldings that satisfy `MigrationAssumption` (`LOWER`
folds no further than `to_lowercase`, and both agree once either is applied):

- `MigrationTypeCorrect`: `Spec => []TypeOK`. No run or link ever dangles.
- `MigrationKeepsRuns`: `Spec => []RunsAreKept`.
- `MigrationKeepsLinks`: `Spec => []LinksAreKept`.
- `MigrationCommits`: `Spec => []LoweringDoesNotCollide`.
- `MigrationKeepsOldest`: `Spec => []OldNamesFindTheOldestRow`. It is about the old
  names on which `LOWER` and `to_lowercase` agree; of others it is false (`migration_case`).

Its inductive invariant is

    Inv == TypeOK /\ LegacyOK /\ Progress /\ RunsAreKept /\ LinksAreKept
           /\ LoweringDoesNotCollide

`RunsAreKept` alone does not survive `DeleteDuplicates`, whose cascade takes every
run of a deleted row: `Progress` records what the statements before have done (once
`pc` is past "runs", every run is with a survivor; past "links", the survivor of every linked
row is linked; in the end every name is folded), so that the cascade takes
no run, and no link without its twin. `LegacyOK` says that the saved tables are well
typed, for `Rollback`. That a group has a unique oldest row is `SurvivorLemma`, from
the least-element principle of the natural numbers. For `MigrationKeepsOldest`,
`OldestRowsStay` follows the oldest row of each group through the statements and
through the server's upserts afterwards, which rename no row.

### Assumptions

The proofs rest on the assumptions named above and on the SQL semantics that
`Database` states (a statement is atomic; foreign keys are enforced and cascade).
They do not use the bounds of the runs: `MaxInputs`, `LegacyRows` and `MaxRows` may be
any natural numbers, so the results hold of every number of requests, crashes,
restarts and rows.

## 6. Not modelled

* Configuration parsing: the configuration is a constant of the models. (It accepts
  `MAX_CONCURRENT_RAIDERIO=0`, with which no update ever starts, `config.rs:130`. So does
  `ServiceAssumption`: the safety theorems include it, `progress` has one permit.)
* The list of characters and the hash check, single SELECTs without a limit or a
  window; and `/players`, the first two queries of the leaderboard.
* Of authentication: OPTIONS, which passes, and the parsing of headers.
* Backup and restore (`db.sh`), a straight line of docker commands. A backup is made by
  sqlite3's online `.backup` inside the container and copied out with `docker cp`
  (lines 179-184). A restore makes a safety backup, stops the server with SIGSTOP, copies
  the file over the live one with `docker cp` and lets the server go on with SIGCONT
  (lines 265-284): its connections, their page caches and the WAL (`db.rs:40`) are then
  still those of the old file. What comes of that is decided by `docker cp` and SQLite,
  neither of which is in this repository; a model of it would rest on guesses.
* JSON shapes, logging, validation of empty parameters, installation, the web pages.

## 7. Plan

1. A refinement from `RetryClient` to the fetch steps of `Service`: the call and its
   end are one step there, the waits are stutters.
2. A refinement from `Service`'s batches to the jobs of `UpdateScript`.
3. The part of the other liveness properties that is safety, as `CallsRunOut` is of
   `CallReturns`: a measure that every step of a batch or of a pull decreases.
