# TLA+ specifications of ImmoManager Pro

ImmoManager Pro is a property-management server: a FastAPI backend over one
SQLite database, with a React frontend. This directory holds the formal models
of its backend: TLA+ modules, the TLC configurations that check them, and proofs
that TLAPS checks. Paths below are relative to the repository, line numbers
refer to `backend/routers/billing.py` where no file is named.

1. [The system](#the-system)
2. [The modules](#the-modules)
3. [Billing](#billing)
4. [Backup and restore](#backup-and-restore)
5. [The two stores](#the-two-stores)
6. [The schema and its migrations](#the-schema-and-its-migrations)
7. [The updater](#the-updater)
8. [The engines](#the-engines)
9. [Logins and tokens](#logins-and-tokens)
10. [What is proved](#what-is-proved)
11. [Disagreements between code and documents](#disagreements-between-code-and-documents)
12. [What is not modelled](#what-is-not-modelled)

## The system

### Where the concurrency is

* Handlers declared with `def` run on a thread pool, so requests interleave
  between any two calls of the store.
* Each method of the SQL store (`repositories/*.py`, `sql_store.py:127`) reads
  fresh rows and commits before it returns. A handler of several calls is
  therefore no transaction: what it did before a failure stays, and what it read
  before another request's commit is stale. This is the atomicity of all models:
  one action per store call, and a handler's local variables in a `job` record.
* Foreign keys are enforced (`db/session.py`, `PRAGMA foreign_keys=ON`); a write
  whose parent is gone raises, a delete cascades or raises, as the column says.
* No handler takes a lock. The updater uses a lock file.

### Components

| Component | State | Operations | Hard behaviour | What makes it correct |
|---|---|---|---|---|
| Billing workflow (`routers/billing.py`) | periods, statements, cost items, allocation keys, receivables | submit, revert, finalize, generate, dispute, revise, receivables, CRUD of rows | check-then-act across store calls; loops of commits that fail half-way | closed periods are frozen, statements stamped, one statement per contract, legal status changes |
| Backup and restore (`routers/admin.py`, `admin_runtime.py`, `data_exchange.py`) | backup files, every row | export, clear, import | reads and deletes of 28 kinds, one commit each, while clients write; swallowed failures | an export is complete, a restore replaces, references hold, round trips are lossless |
| Store (`repositories/`, `db/orm_models.py`, `models.py`) | rows of 39 kinds | create, update, patch, delete | cascades five kinds deep, references nobody looks up | references hold, deletes spare what can stand alone |
| In-memory store (`storage.py`) | dictionaries | the same | its look-ups and cascades are written by hand | agrees with the database |
| Schema (`db/session.py`, `db/migrations/`, `compat/ui_contracts.py`) | tables and columns, the revision | start, upgrade, downgrade | two ways to make a table; a migration that is killed | a database has what the code reads |
| Billing calculation, preflight (`domain/billing_engine.py`, `routers/billing.py`) | shares, costs, readings of one run | add, generate, preflight | rounding remainder; one judgement written twice | portions add up to the cost; the preflight predicts generate |
| Lease, dunning, matching (`domain/*.py`) | none | FIFO allocation, settlement, notices | equal dates and periods, partial payments | nothing is paid twice, sums agree |
| Updater (`updater.py`, `routers/updates.py`) | working tree, stash, database file and its log, lock file | apply, roll back | lock races, a process that dies, failure at every step | one update at a time, a failed update changes nothing |
| Authentication (`auth.py`) | attempts, revoked tokens (memory and database), users | login, logout, clean-up | two copies of one set, limits, restarts | a revoked token stays revoked until it expires |
| Background tasks (`services/task_queue.py`) | task results | enqueue, run, cancel | cancel against start | a cancelled task does not run |
| Sessions, middleware (`dependencies.py`, `middleware.py`) | thread-local sessions | roll back and remove | runs on another thread than the handler | no failed transaction leaks |
| Audit log, events, plugins | log, handler lists | append, emit | failures are swallowed | nothing is lost |
| Other routers, reports, services, frontend | rows | CRUD, rendering, mail, OCR | none of its own | — |

How they interact: routers call the store, and the domain engines with rows read
from it; a delete in one router (contracts, properties, keys) reaches rows of
another by cascade; backup and restore go through the same store as the clients;
the updater copies the database file below the store. `PROJECT.json` lists each
component with its status, and under `hazards` every place where one of these
can go wrong, at its line.

## The modules

| Part | Modules | Abstract or reference side | Runs | Theorems |
|---|---|---|---|---|
| Billing | `BillingWorkflow`, `BillingProperties`, `MCBilling` | `BillingLifecycle` (refined) | `billing_*` (5) | `BillingProofs`, `BillingExclusiveProofs` |
| Backup and restore | `BackupRestore`, `BackupProperties` | | `restore`, `restore_lossless` | `BackupProofs` |
| Stores | `StoreTables`, `TwoStores`, `StoreProperties`, `MCStores` | the database is the reference of the in-memory store | `stores` | `StoreProofs` |
| Schema | `SchemaHistory` (with `StoreTables`) | the declared models are the reference of the migrations | `stores` | |
| Updater | `Updater`, `UpdaterProperties`, `MCUpdater` | | `updater`, `updater_edits` | `UpdaterProofs` |
| Engines | `Money`, `CostAllocation`, `TenantAccount`, `Dunning`, `InvoiceMatching`, `Preflight`, `EngineProperties`, `MCEngines` | exact shares; one computation against another | `engines` | `EngineProofs`, `EngineLemmas` |
| Logins and tokens | `AuthSessions`, `AuthProperties` | | `auth` | `AuthProofs` |

Each part stands for itself. Parts that meet in the program meet in the models
where an order of steps matters: billing handlers interleave on shared rows, a backup runs
against clients, two updates share a working tree, the dunning campaign is computed
from the account of the tenant, and the preflight from the data generate uses. What
contracts are active is an input of billing; a store call that raises is `Fail`
there, whatever made it raise.

Operators called "Variant" in the comments are operations with one slip in them
(a dropped check, a missing step, a swapped order). No behaviour contains them; they
show that each property is able to notice the slip.

## Billing

### Module and code

`BillingWorkflow.tla` has one action per store call of every endpoint that
changes billing data.

| State | Code |
|---|---|
| `status` | `billing_periods.status`; `Unused`/`Gone` for ids without a row |
| `stmt` | rows of `utility_statements`: period, contract, balance, hash, status |
| `item` | rows of `cost_items`: period and allocation key |
| `keys` | `allocation_keys` |
| `active` | the contracts generate and finalize would find active (680-686; an input) |
| `charges` | number of receivables per statement |
| `job` | per thread: endpoint, step, and the local variables read so far |

`Admit` is the first store call of a handler that starts from a period (read it,
check its status), `Load` that of a handler that starts from a statement or an
item, which then reads the period (`CheckPeriod`). What follows is one action per
store call: `Preflight`, `Collect`, `ComputeSnapshot`, `SaveFinalized`, `Stamp`
for finalize (532-596); `ListOld`, `Purge`, `CreateStatement` for
generate (657-834). Both begin by listing contracts, then cost items, then what
the units have (333-477, 680-762): `ListContracts`, `ListCosts`, and `Reject` for
whatever they find missing. The further reads have no step of their own, as all
that comes of them is an amount or a refusal. A stamp is a patch of what the
statement lacked when it was listed: the status, the hash, or both (585-590).
Further `ListBalances`, `Charge` for receivables (957-1000);
`CopyPeriod`, `ListCopies`, `CopyItem` for a revision (1007-1057). `Fail` is a
store call that raises or a process that dies. The snapshot hash is the content
it is computed from, so two hashes are equal exactly if the contents are.

`BillingLifecycle.tla` is the workflow as a user sees it: a status that moves
along the declared status machine and a ledger that is reworked only while the
period is open. `ImplementsLifecycle` maps the statements of a period to its
ledger and shows that the interleaved store calls look like that, if payloads do
not set statuses by themselves.

### Runs

| Run | Instance | Shows |
|---|---|---|
| `billing_serial` | 1 thread, 2 periods, items, keys, revisions, failures, payload statuses | a thread that is alone keeps closed statements frozen (`FrozenStatements`) and the cost items of closed periods, unless their key goes (`FrozenItems`), issues nothing before it is final (`IssuedWhenFinal`) |
| `billing_workflow` | 1 thread, 1 period, 2 contracts, 4 statement ids, fair | finalized periods are stamped with what they say (`FinalizedIsStamped`), no second statement for a contract (`OneStatementPerContract`), the abstract life (`ImplementsLifecycle`), stamping ends (`StampingCompletes`) |
| `billing_concurrent` | 2 threads, 1 period, 3 statement ids, fair | with any interleaving rows have parents, a stamp covers its statement (`StampCoversStatement`), every request is answered (`RequestsComplete`) |
| `billing_fault` | 1 thread, failures | violation of `FinalizedIsStamped`: a finalize that fails half-way is never completed |
| `billing_race` | 2 threads, no failures | violation of `FrozenStatements`: generate is admitted, finalize closes the period, generate deletes its statements |

Bounds. Ids are model values that are used once. Requests that create rows
are admitted only while ids are left for them and for those being served
(`RoomForStatements`, `RoomForCopies`, `RoomForCharges`), so that running out of
ids cannot look like a behaviour. Two contracts and four statements let a
regeneration replace a whole set; two periods and two keys let rows move; the properties of `billing_serial` speak of one row
each, and one statement is enough for them; two threads are
enough for each check-then-act pair. `Requests` selects the endpoints that bear on
the question of the run; between them the runs call all of them. In
`billing_workflow` payloads hold no status but `draft`, because with others
`ImplementsLifecycle` fails at once (see below); `billing_serial` has them.

Deadlock is not checked: clients may stop calling and ids run out. That requests
come to an end is stated as `RequestsComplete` instead. Symmetry (`RowSymmetry`) is
used in the runs without liveness.

Fairness is `WF_vars(Serve(w))`: a thread that runs a handler runs it to its end,
which the scheduler of the operating system provides. Nothing is assumed about
clients or failures.

## Backup and restore

`BackupRestore.tla` has the rows (`row`: kind, parent, origin), the backup files
(`file`) and the requests being served (`job`). `ExportKind` lists one kind,
`WriteFile` ends the export; `ListKind` and `DeleteNext` are the loops of
`_clear_store_data` (`admin.py:86-129`), `ImportNext` is one item of
`_import_store_data` (`admin.py:201-222`), and clients create and delete rows
between any two of them. `Deleted(i)` is what the foreign keys make of a delete:
everything below the row in cascading kinds, unless a row that does not cascade is
in the way. `Crash` ends a request anywhere.

Of the 28 exported kinds the model has portfolio, property and unit, a chain; of
the kinds that no export holds it has meters, which block the delete of their unit,
and billing periods, which go with their property. These are all the ways in which
a kind can relate to the others in `db/orm_models.py`. `origin` is a history
variable in the role of the row's content; `before`, `skipped` and `imported` are
history too, and record what the properties speak of.

| Run | Instance | Shows |
|---|---|---|
| `restore` | 1 admin, 1 file, 5 rows over time, crashes, fair | references hold (`ReferencesHold`); an export misses no row that stays (`ExportComplete`); what a restore did not delete it logged (`RestoreReplaces`); requests end (`RestoreCompletes`) |
| `restore_lossless` | 1 admin, 1 file, portfolios and properties, no writes while a request is served (`Alone`), no failures | violation of `RoundTripLossless`: a portfolio and its property are exported and restored at once; the portfolio comes back under a new id, and the import of the property, which names the old one, is refused |

Bounds: `MaxRows` ids over a run; `Reserved` keeps ids for the imports that were
admitted. Five rows hold the chain of three, a blocker and one row that a client
adds in mid-restore. In `restore` store calls do not fail for no reason
(`Outcomes = {TRUE}`): with `BOOLEAN` an export that swallowed a failed list is
incomplete, as `_safe_list` says. Deletes and imports that the foreign keys refuse
are part of the run. One admin suffices for the questions of the run; the theorems
hold for any number, and for failing calls. `restore_lossless` asks of a restore that
found the very rows its file holds (`before`), with nobody writing beside it, so that
nothing but the ids can be in the way; four ids are enough for the pair and its copy.

Deadlock is not checked, as above. Fairness: the thread that serves the admin's
request runs it to its end.

## The two stores

`dependencies.py` gives the application the SQL store, or the in-memory store when
that is configured or the database cannot be opened; nothing above them knows
which. `TwoStores.tla` gives both the same calls. `StoreTables.tla` is the data the
two go by, one definition for each stretch of the sources: the foreign keys of
`db/orm_models.py` and what a delete does along them, the references that the request
bodies of `models.py` demand, allow or may patch, the calls each store offers, the
parents each repository looks up, and for each section of `storage.py` what it
looks up and which children its deletes walk to.

| State | Code |
|---|---|
| `sql` | rows of the database: kind, references, and a count for what no body gives (a thread's messages, a notification that was read) |
| `mem` | the dictionaries of `InMemoryStore` |
| `agreed` | history: both stores have accepted the same calls |

A call is one step: SQLite has one writer, and a call of the store is one session's
transaction. `Create`, `Update`, `Patch`, `MarkRead` and `Delete` each answer in both
stores; a store that refuses changes nothing.

Run `stores`: the database keeps its references (`ForeignKeysHold`, what a slip in
the cascades would break), a delete takes only what cannot stand alone
(`DeletesSpare`), threads do not lose messages from their count (`ThreadsCount`). As long as
the stores have accepted the same calls, they keep the same core rows (`CoreAgrees`),
the in-memory store refuses no parent that the repositories accept (`ChecksCover`), and
its references dangle only where its deletes are known to forget a child
(`MemoryForgetsOnlyThese`, whose list `Forgotten` is the finding: periods, keys, meters,
statements, deposits and others survive their property, unit or contract in memory).

The seven properties are also theorems, for any areas, any number of ids and of calls
([Proofs](#proofs)). The first of them found a reference the list lacked: a cost item in
memory goes on naming a document that was deleted, and no area of the run had both.

Bounds of the run: one row of each kind exists, one id is free, three calls. Ten areas of the
application (`MCAreas`) keep the instances small; a kind's references lie in its area, and where
they do not they are optional and empty, as is a reference no body gives (an invoice's source
document, `models.py:198-212`). Three calls hold what goes wrong: two to build a
row below a row, and one that removes the row above them.

## The schema and its migrations

`SchemaHistory.tla` has the tables of one database (`schema`: a table's later columns,
or `Absent`), the `revision` Alembic has recorded and whether it is PostgreSQL. The
four revisions are sequences of statements, up and down, in the order of the files
under `db/migrations/versions`. `Start` is the `create_all` of every start of the application
(`db/session.py:38`, called at import by `dependencies.py:52`): it makes missing tables
as the models declare them and never looks into one that is there. `UpgradeAtOnce` is
`alembic upgrade head` on PostgreSQL, one transaction; `UpgradeStep` is one revision of it
on SQLite, where every statement commits by itself, and `UpgradeTorn` a revision
that fails or is killed in the middle. Alembic is called by `docker-entrypoint.sh`, by
`scripts/update.sh`, by the start of `app.py` when AUTO_MIGRATE is set and by
the updater (`updater.py:360`).

`SchemaAccounted` (in the run `stores`, whose area without rows is this model) says that
revisions and models tell of the same tables and foreign keys; that a database only
Alembic wrote is what its revision says; that a torn command, before or after a
start, leaves no table without one it refers to, which the order of the statements is
for; and that a database made by Alembic and then started lacks exactly the columns in
`Unmigrated`. That last part is the finding: among those columns are
`users.totp_secret` and `users.totp_enabled`, which each login reads. The other way round a
database made by a start has no revision, and the first statement of the first
migration fails on it for good.

Bounds: two torn commands; starts, upgrades and downgrades without limit.

## The updater

`Updater.tla` has one action per step of `apply_update` (`updater.py:460`) and of its
roll-back, for each request: `Ask` looks at the lock, `WriteLock` writes it, then `ReadCommit`,
`Backup`, `Stash`, `Fetch`, `Merge`, `Compare`, `Migrate`, `Frontend`, `Reapply`, `Record`, and on
the way back `Reset`, `Unstash`, `Restore`, `Release`; `Current` is the end of a request that finds
nothing new. A command works, fails or raises. `Raise` is an exception that reaches the handler
at line 649; `MayRaise` says at which stages one can, the making of the backup
directory included, which is outside of the helpers' own try blocks (294, 344).
`Crash` ends the process, `Age` lets the lock pass its 1800 seconds. The working
tree, the stash, the lock and the database are shared. `events` is history: the mishaps
that the properties name.

The database is a file and its write-ahead log (`db/session.py:32`), of which the model keeps the
schema: `log` holds the one that is committed and not yet in the `file`, and a connection reads
the log first (`schema`). A migration commits to the log; `Checkpoint`, which SQLite does by
itself, moves it into the file. The snapshot is a copy of the file, and is copied back over
the file (350, 690): a log that either finds is passed by, which is noted as
`log_passed`. A commit that git does not tell is None: an unknown `previous_commit`
leaves nothing to reset to, and with an unknown `new_commit` an update that brought nothing
goes on to the migration (571).

| Run | Instance | Shows |
|---|---|---|
| `updater` | 2 requests, 1 new commit, 2 failures, 1.8 million states | two updates overlap only after a race for the lock file or its expiry (`OneUpdater`); a lock that is left has an owner who is at work or dead (`LockOwned`); code and schema match when nobody is updating (`SchemaMatches`); local edits and the user's own stash survive (`ChangesKept`); the answer tells what was done (`AnswersTruly`) |
| `updater_edits` | 1 request, 1 failure | violation of `EditsGuaranteed`: the backup directory cannot be made, and the handler resets the tree hard over the edit that is not stashed yet |

The properties of the run `updater` name the mishaps after which they may fail, and hold
without them: a failed stash, a push that had nothing to push, an exception before the
stash or after the last step, a roll-back that fails, a log that the copy passed by. `updater_edits`
shows that such a mishap does lead to what the document excludes.

Bounds: two requests, one new commit, two failures. Two failures let a roll-back fail whose
cause was the first. Requests are interchangeable (`MCSymmetry`). No liveness is asked and no
fairness assumed: that a lock nobody owns any more lets others in after 1800 seconds is `Fresh`.

## The engines

Pure computations over rows, kept as four parts that share no state
(`EngineProperties.Next` moves one of them).

* `CostAllocation`: shares, costs and advances of a period are entered one by one as
  `routers/billing.py` does (707-805); `Generate` is `BillingEngine.generate`. `CostsExact`: no
  cent is lost or invented, though every portion is rounded and the last contract takes the
  remainder. `FairShares`: that remainder is rounding and nothing else.
* `TenantAccount` and `Dunning`: a contract is signed and given other days, time passes, bookings
  are entered in any order, ahead of their day too, corrected and removed, and the rent
  changes; everything else is computed afresh from that, as the
  routers do. Receivables, rows and lines are functions on positions; a list that the code
  sorts is read in the order of its keys (`Sorted`, `ByDay`). `ViewsAgree`: the allocation, the settlement report, its summary, the aging
  and the balance, five loops over the same rows, show the same debt. `PaidStaysPaid`: new
  bookings, late ones too, and further months open no month that was paid. A change of the
  rent may (it is read from the unit as it is now and charged for the months gone by as
  well), and so may a change of the contract's days or of a booking. `CampaignClaims`: the campaign
  has one claim for each line the settlement shows overdue, with its debt, the level whose
  limit its days have passed and no later one, the fee of that level, and a package over
  both; the totals are the sums.
* `InvoiceMatching`: bookings are entered, corrected and removed; `Match` answers for an invoice.
  `MatchAgrees`: an invoice goes to the open bookings of outgoing money by the rule of payments,
  and what is left is what they cannot cover. A credit note (a gross amount below zero)
  is refused (`invoice_matching.py:11`).
* `Preflight`: contracts begin and end, readings and quantities are entered, cost items
  added. `Blockers` is the preflight (333-448), `Refused` what generate raises (662-759).
  `PreflightAgrees`: they differ in one case only, a consumption key with readings
  for some of the units.

The reference definitions do not mention the order of a loop: `FairShares` compares with
the exact quotient, `MatchAgrees` and `ViewsAgree` one computation with another.

Run `engines` checks all seven properties: a behaviour moves one part and leaves the others
as they were at first.

Bounds: amounts of a few cents with shares 0 to 2 are enough for every kind of
remainder, including a credit; three contracts for a remainder over several portions. Days are picked
on both sides of the limits (due day, month, 30, 60 and 90 days late) and on that of 14 days. Months have
30 days. Histories of a meter: rising, exchanged, read after the period,
entered late. Symmetry over contracts, keys and flats, which no definition tells apart.
The routers refuse shares that are not positive, so a total share of zero is
a case of the engine alone. A meter's `is_active` and missing units are left out.

## Logins and tokens

`AuthSessions.tla`: `failures` (failed logins, each with its account, in the table or in
`_login_attempts` or both), `blacklist`, `expiring` and `rows` (`_token_blacklist`,
`_blacklist_expiry`, the table of revoked tokens), and a handler's step in `req`. A login
checks the limit (`Check`), verifies (`Verify`) and records or clears (`Record`, `Clear`); a
refresh or logout looks whether its token is revoked (`Decode`), revokes it in memory
(`Revoke`) and in the table (`Store`), with the clean-up both do in passing. A call to the database
may fail and the code swallows that; `Restart` empties the memory; `Tick` is time.

Run `auth`: a token whose revocation was answered is refused until it expires, across
restarts, evictions and clean-ups, unless the database refused the row or the look
(`RefusedOnceAnswered`); with n handlers at once an account takes at most n - 1 attempts more
than the limit (`AttemptsBounded`); a lock ends (`LockEnds`).

A failed login's row and its entry in memory are one step, as the memory is asked only when the
table refuses a look; and a token's one expiry stands for the two the code compares, in
seconds for the token and to the microsecond for its row.

Bounds: two handlers, one account, two tokens, a limit of one attempt and a blacklist of
one, so that both limits are hit, one fault. Fairness: `WF(Tick)`, time passes.

## What is proved

All theorems are for any values of the constants under the named assumptions
(`BillingAssumption`, `BackupAssumption`, `StoreAssumption`, `UpdaterAssumption`, `AuthAssumption`,
and of the engines `AllocationAssumption`, `AccountAssumption`, `DunningAssumption`,
`PreflightAssumption`, `MatchingAssumption`),
which ask only that the values without rows differ from rows, ids, statuses and numbers, that
inputs are among those declared, that an area has what its kinds must refer to, that ids,
handlers and contracts are finitely many where they are counted, that limits, bounds, days and
shares are natural numbers and amounts integers, that rents are not negative and payments positive, and that the
limits of the dunning levels ascend, which the code checks (`dunning_engine.py:61`).

| Theorem | Says | Argument |
|---|---|---|
| `BillingProofs!TypeCorrect` | `Spec => []TypeOK` | inductive as it stands, one lemma per group of actions |
| `BillingProofs!NoOrphans` | `Spec => []RowsHaveParents` | inductive next to `TypeOK`: each write checks its parent when it writes |
| `BillingProofs!StampsCover` | under `NoMoves`, `[]StampCoversStatement` | `CoverInv` strengthens it by what a finalize in progress holds: the statements it will stamp that still exist are in the listing it hashed. Creating a statement in between is harmless, since ids are used once; moving one is not, hence `NoMoves` (`move_statement` is not requested) |
| `BillingExclusiveProofs!FrozenWhenExclusive` | under `[]OneRequestPerPeriod`, `FrozenStatements` | `HeldInv`: a handler past its check works on a period that is still mutable, and the row it is about to write or to take belongs to that period |
| `BillingExclusiveProofs!ItemsWhenExclusive` | under `[]OneRequestPerPeriod`, `FrozenItems` | as before; `ItemEffects` lists the steps that write cost items |
| `BillingExclusiveProofs!IssuedWhenExclusive` | under `[]OneRequestPerPeriod`, `IssuedWhenFinal` | as before: `HeldInv` says that the period of a request to issue or to deliver is still finalized or delivered |
| `BillingExclusiveProofs!BilledOnce` | under `NoMoves` and `[]OneRequestPerPeriod`, `[]OneStatementPerContract` | `BillInv`: while generate deletes, every statement of its period is among those it has still to delete; while it creates, no contract it has still to bill has one |
| `BillingExclusiveProofs!FinalizedStamped` | without faults, under `NoMoves`, `NoEdits` and `[]OneRequestPerPeriod`, `[]FinalizedIsStamped` | `StampInv`: in an open period no statement has a hash; a finalize in progress has listed all of them, all as lacking one, its hash says what they say, and the ones it has passed carry it |
| `BillingExclusiveProofs!PeriodsLive` | under `NoMoves`, `NoEdits`, payloads that name `draft` only and `[]OneRequestPerPeriod`, `ImplementsLifecycle` | `LedgerKept` says what a step may do to the statements of a period that is not mutable, `LifeStep` maps each step to one of `BillingLifecycle` or to a stutter |
| `BackupProofs!BackupTypeCorrect` | `Spec => []BackupTypeOK` | `BackupInv` adds the range of the loop position at each step, and that rows that exist have an origin |
| `BackupProofs!ReferencesIntact` | `Spec => []ReferencesHold` | `DoomedClosed`: under a deleted row cascades go at most three levels down, since above a cascading row there are at most two of them |
| `BackupProofs!RestoreClears` | `[]RestoreReplaces` | `FoundInv`, `ListInv`, `ClearInv`: what is left of the old rows of a kind is in the list the clearing walks through, or was created since; `RowAges` compares the ages of the rows |
| `BackupProofs!ExportsAll` | if no listing fails (`Outcomes = {TRUE}`), `ExportComplete` | `ListInv`: of the rows it found, those of the kinds it is through with are listed; a row keeps its kind until it is gone (`RowAges`) |
| `StoreProofs!StoresTypeCorrect` | `Spec => []StoreTypeOK` | inductive with a count: no row counts more messages than ids were used, and one |
| `StoreProofs!ForeignKeysAlways` | `[]ForeignKeysHold` | inductive with the types. `Level` orders the kinds so that a cascade goes down, five levels in all, hence what four rounds have taken is closed (`DoomedClosed`); a row that stays lost no parent but by a reference that is emptied, or its delete was refused |
| `StoreProofs!DeletesTakeLittle` | `DeletesSpare` | every lost row but the first is a child, over a reference that must be given, of a lost one |
| `StoreProofs!ThreadsCounted` | `[]ThreadsCount` | messages are neither updated nor patched; a step that makes one adds it to its thread in the same transaction, and no step lowers a count while the thread stays |
| `StoreProofs!MirrorHolds` | `[]CoreAgrees` | `MemInv` adds threads to the kinds of which both stores have the same rows, and periods, keys and handovers to those of which memory has all. `SpreadSame`: a round of a delete takes the same of them in both stores |
| `StoreProofs!MemoryForgets` | `[]MemoryForgetsOnlyThese` | `MemInv`: a reference that is not forgotten is a foreign key to a kind of which memory has all rows, so the check by the database serves memory as well; its deletes drop or unlink the row |
| `StoreProofs!ChecksSuffice` | `[]ChecksCover` | `CheckPairs`: what memory looks up the repositories look up too, in kinds of which memory has all rows |
| `UpdaterProofs!UpdaterTypeCorrect` | `Spec => []UpdaterTypeOK` | inductive as it stands, one lemma per group of variables |
| `UpdaterProofs!OneAtATime` | `[]OneUpdater` | `HolderInv`: until a race or an expiry, who updates is the owner in the lock file, so there is one such request |
| `UpdaterProofs!LocksGo` | `[]LockOwned` | inductive: a step of a request writes the lock, takes it along or leaves it, and who leaves the lock without doing so is dead (`StageAfter`) |
| `UpdaterProofs!EditsSurvive` | `ChangesKept` | without the mishaps it names: `EditInv`: between stash and re-apply the tree holds no edit and the newest stash is one of an update; a reset then has nothing to destroy and a pop takes no stash of the user |
| `UpdaterProofs!SchemaFollowsCode` | `[]SchemaMatches` | without the mishaps it names: `SchemaInv` relates `previous_commit`, the snapshot, the tree, the file and the log at each stage, the way back included; without `log_passed` a copy has met no log |
| `UpdaterProofs!AnswersHold` | `AnswersTruly` | `AnswerInv` relates what the request remembers with the tree at each stage |
| `AuthProofs!RevokedStaysRevoked` | `RefusedOnceAnswered` | `AuthInv`: a token that was answered and that the database did not refuse has its row as long as it has not expired. The clean-up takes expired rows only and nothing else takes any, so the size of the list in memory, evictions and restarts do not matter |
| `AuthProofs!AttemptsLimited` | `[]AttemptsBounded` | `FailuresInv`: while the database works every failure is in the table, and of each account the failures and the handlers that are past the check and may still fail (`Pending`) are together at most the limit and one less than the handlers. A handler passes the check only below the limit; a failure recorded takes its handler from the one count to the other; and time, evictions, restarts and successful logins only make both smaller |
| `EngineProofs!CostsAllocated` | `[]CostsExact` | `PortionsAddUp`: the last portion is the cost less the others, so the portions of a cost add up to it whatever was rounded. `SumExchange` turns the sum over statements of their lines into the sum over costs of their portions |
| `EngineProofs!SharesFair` | `[]FairShares` | `Rounded` bounds one rounding; the exact portions add up to the cost as well, so the last is off by what the others are off together (`OffsCancel`) |
| `EngineProofs!ViewsEqual` | `[]ViewsAgree` | `FifoIs`: when payments of `A` in all meet receivables whose first `i` amount to `T[i]`, then the first `i` still owe `max(0, T[i] - A)`. Debt and surplus thus depend on the sums only, which all five views share; what is left is that the statuses, and the age groups, split the lines |
| `EngineProofs!PaidKept` | `PaidStaysPaid` | by `FifoIs` a month is paid when the payments reach its `T[i]`; a new booking only adds to them, in whatever place it is sorted, and a later day only adds months after it |
| `EngineProofs!CampaignsClaim` | if `AfterDays[1] = 1`, `[]CampaignClaims` | `SortedBijection`: the sorted batch holds each unpaid line once. A line is overdue exactly when its level is above 0, the levels ascend with their limits, and a month names one line, so a claim and a package find their own |
| `EngineProofs!MatchesAgree` | `[]MatchAgrees` | `MatchIs`: the loop of the match, which skips a booking of which it takes nothing, leaves after each booking what the payment would have left (`Spent`); below zero both sides of the property are the refusal |
| `EngineProofs!PreflightTells` | `[]PreflightAgrees` | each blocker, and each refusal, is put as a condition on the units lived in: a share of zero is an area, a count of persons or a consumption of zero, and of the last the one asks of all units, the other of some |

The four last results on the updater are about one request at a time, which `SoleUpdater` (from `HolderInv`) licenses:
a step of a request is then a step of the only one that updates, unless it is a look
at the lock. `FreshInv` says that a request that has only looked has done nothing yet.
All invariants stop at the first mishap that their property names, so the theorems
say that in the model nothing else breaks these properties, for any number
of requests and of failures, where the run has two of each.

`OneRequestPerPeriod` says that no two handlers that are being served work on the same
period. It is not a claim about the program: its pool has many threads and nothing in the
router makes a second request for a period wait. It is the condition under which the
promises hold, one that a lock per period would establish, and `billing_race` is the
behaviour without it. Handlers of other periods still run, and fail, at any point in between.
With one thread it holds by itself (`FrozenWhenSerial`), which is where `billing_serial`
and `billing_workflow` check the same properties.

The other hypotheses of the billing theorems are conditions of those runs, each with a reason in the code:
a move checks the period a statement is in and not the one it goes to (`NoMoves`; line 636);
PUT and PATCH of a period write any status (`NoEdits`, and `PayloadStatuses` for a period
that is created; 163); PATCH of a statement writes `delivered` (the payloads of
`IssuedWhenExclusive`; 636); a failure between the status and the stamps is final
(`~Faults`; `billing_fault`); a listing that fails is exported as empty (`Outcomes`;
`_safe_list` in `admin.py`). Without its hypothesis each of these properties is false of the program.

The results on the engines are state lemmas: the data of the engines have their types after every step
(`Typed`), and whatever data of these types are entered, the computations have the
property. The one hypothesis, `AfterDays[1] = 1`, is the default of the dunning policy
(`level_1_after_days`, `dunning_engine.py:53`), which the run has too. The policy is a parameter of the
request; with a first level that starts later, what is overdue for fewer days is not
claimed, by intention, with one of 0 what is due today is, and the equation of the property does not hold.

The engines loop over lists of any length, so their proofs need induction. The library's
induction rules take a predicate, which the provers at hand cannot instantiate; `EngineLemmas`
states induction for sets of numbers instead (from `NatLessThanWellFounded` and `WFMin`: the least number
outside of the set), shows that a recursive function does what its equation says by
constructing a solution of it, and derives from these sums over finite
sets, places in a sorted list, and the closed form of the allocation.

Only model-checked: the liveness properties (`RequestsComplete`, `StampingCompletes`,
`RestoreCompletes`, `LockEnds`), as liveness and `ENABLED` are out of reach of the prover at hand; and
`SchemaAccounted`, which is about one concrete history of migrations, with named tables and
columns and no parameter to generalise over, and which TLC evaluates completely.

## Disagreements between code and documents

Four runs end in a violation, with the text that the code disagrees with:

* `billing_fault`: "Computes a snapshot hash for immutability verification and stamps
  it on all statements" (536). The status is committed first and the statements are
  patched one by one; finalize returns early for a finalized period, so a failure
  between them is final.
* `billing_race`: a finalized period is to be immutable (`IMPLEMENTATION_PLAN.md:241`,
  `backend/tests/test_billing_sprint2.py:186`). Generate checks once and writes later.
* `restore_lossless`: "export → import round-trips are lossless" (`admin.py:136`).
  Every imported row gets a new id, references keep the old ones.
* `updater_edits`: "Git stash of local changes before pull" is listed under the safety guarantees
  (`updater.py:9`). An exception of the backup, which comes before the stash, is answered
  with `git reset --hard` (649-653).

Others follow from reading the code alone and have no run:

* finalize keeps the hash of a statement that has one (589): a dispute leaves the hashes, a payload may
  put the disputed period back to draft, and after a change and a second finalize the hash is
  that of the old content;
* "Lock file prevents concurrent updates" (`updater.py:11`): the look at the file and its write are two
  steps, and two requests that both look first both update (`raced`);
* "Datenbank-Snapshot wiederhergestellt" (`updater.py:604`): the snapshot is of the main file, beside a
  write-ahead log; what a failed migration committed to the log stays, and the schema is ahead of
  the code that was reset (`log_passed`);
* two generate requests that overlap each create a full set of statements (807), and one that
  fails between its deletes and its creates leaves fewer than before (811);
* PATCH of a statement or item checks the period it is in and not the one the payload
  names (636, 298);
* PUT and PATCH of a period take any status (163), and PATCH of a statement `delivered`
  in a draft period (636);
* a revision leaves the original finalized where the header says corrected (1057, 8);
* receivables can be created twice from the same period (979);
* "Use Alembic for production" (`db/session.py:39`): a database that Alembic made lacks
  columns the models read, the two that each login reads among them, and `create_all` does not add
  them; a database that `create_all` made cannot be migrated, so every self-update
  with a migration step is rolled back (`SchemaAccounted`);
* on SQLite a migration that is killed can never be repeated (`SchemaAccounted`);
* the in-memory store forgets children that the database deletes (`Forgotten`), and a
  replaced notification or thread forgets that it was read or how many messages it has;
* the preflight passes a period that generate refuses (`SomeUnread`);
* generate bills cost items that are marked as not recoverable (694): no code reads the mark;
* deleting a contract or a property deletes closed periods and statements
  (`db/orm_models.py:497`), deleting an allocation key the cost items of closed periods (246).

Known from reading and held against no property, since the code makes no promise to hold it to:
revoked tokens cached from the table stay in memory, as their
expiry is not cached (`auth.py:379`); a second two-factor set-up replaces
the first secret before it is confirmed; dunning remembers no level it has sent, and sums the
payments of a tenant over all contracts; a match of an invoice marks no booking as used;
a list that fails is exported as empty; two backups in one second share a name; the session clean-up after a request runs on
another thread than the handler's.

## What is not modelled

Wording, labels, dates, documents, mails, OCR, AI, exports to CSV and PDF: data the
properties do not tell apart, or input and output. Of the routers of single store calls the
calls are in `TwoStores`, and what they check of single fields is left out.
The session clean-up of the middleware is thread-local state of SQLAlchemy; its effect on a
handler, a call that raises, is `Fail`. The restore of a database file copies it below the
running store, as the updater does with its snapshot. User accounts and roles, the second
factor and the limiter of registrations are left out of `AuthSessions`; the change history,
lists, filters and uniqueness of `TwoStores`. Background tasks are three writes without a
lock; the race of cancel and start is listed as a hazard. Bulk delete and
anonymisation (`routers/admin.py`) are loops of single deletes. The frontend is any client.
