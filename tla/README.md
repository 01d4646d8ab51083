# TLA+ models of vcf-billing

These modules model how vcf-billing decides what a customer pays: which virtual
machine belongs to which project, in which blocks of time it was seen powered on,
what a block costs, and in which month it is billed. They are checked with TLC on
small instances; every safety property that the passing runs check is also proved with
TLAPS, for every value of the constants. Line numbers refer to `src/`.

## 1. The system

vcf-billing is a FastAPI service with a collector process beside it.

```
 VCF Operations appliance(s)            administrator / tenant user
            |  list_vm_snapshot                    |  HTTP, one thread per request
            v                                      v
   collector process  -------------+------  API workers (uvicorn)
   run_forever, collect_once       |        routers/admin.py, routers/user.py
            |                      |               |
            v                      v               v
   Operations DB: accounts, hierarchy, VMs,    Billing DB: tenants, projects,
   tags, power_samples                         criteria links, rate cards, audit, users
```

The two databases are reached through separate sessions (`database.py`, autoflush
off) and may be separate servers. No transaction spans them. PostgreSQL runs them at
READ COMMITTED, so each statement of a request sees what is committed when it runs.
Everything hard about the system comes from that: handlers and collector do their
work in several statements and several commits, they overlap, and they may die in
between. The repository has no tests.

| Component | State it keeps | Operations | Modelled in |
|---|---|---|---|
| Project assignment | tenants, projects, criteria links (Billing DB); accounts, VMs with cluster, folder, tags and `project_id` (Operations DB) | create, update, delete project; delete tenant; create, edit, sync, delete account; `recompute_project_assignments` | `ProjectAssignment`, `VMOwnership` |
| Collector and samples | `power_samples`, the rows of VMs, `last_sync_status`, `needs_reconnect` | `run_forever`, `collect_once`, `sync_account_once`, `collect_once_for_account`, account edits | `Collection` |
| Billing engine and reports | none of its own; reads rate cards, assignments, samples | `compute_project_usage`, `compute_all_projects_usage`, `period_over_period_change`; the overviews, forecasts and project usage of the two routers | `UsageReport` |
| Rate cards | `rate_cards`, `rate_card_history` | `update_rates`, deletion with the project | `RateCards` |
| Billing calendar | none; a function of the clock and the samples | `parse_period`, `parse_month_param`, `calendar_month_period`, `month_to_date_period`, `compute_month_forecast`, `available_months` | `Calendar` |
| Backup and restore | a file with the 17 tables of both databases | export, parse, restore, reset of sequences | `BackupRestore` |
| VCF Operations client | session token; the answers a listing is put together from | `_authenticate`, `_get`, `_iter_resources`, `_get_children`, `_resolve_folders`, `list_vm_snapshot` | `ApplianceClient` |
| Users and access | accounts with role and tenant | create, move, delete account; create, delete tenant; `require_admin`; default administrator | `DatabaseSetup` |
| Database setup | which database is the Billing DB, its tables | `bootstrap`, wipe, migration to an external PostgreSQL, restart of the containers | `DatabaseSetup` |
| PDF, schemas, front end, seed data | none | formatting, display, demo data | not modelled: they keep no state the bill depends on |

### Properties that make each component correct

* **Project assignment.** No VM is ever billed to a project that never selected
  anything the VM carried, although a recompute mixes rows of different times. A
  deleted project does not come back and, once forgotten, gets no VM. A recompute that
  nothing overlapped follows the rule of its docstring exactly. What a lost race or a
  restart left wrong is repaired by the collector, as long as every account it lists has
  its password or is marked as lacking it (section 6).
* **Collection.** A VM is billed once for a minute, whoever stored the sample. A sync
  that reports success has stored the samples it should. A failing account keeps no
  other from being collected. A VM is not billed for a block it was off all through.
* **Reports.** A project is billed only if the request asked for it, and only for VMs
  that were its own at some time during the request; the two periods compared share no
  block; the chart by day and the table by VM show the same money; weighting stays between floor and flat tariff; a report
  that nothing overlapped is exact.
* **Rate cards.** The last audit row says what is billed; no rate appears that nobody
  asked for; audit rows go with their project.
* **Calendar.** Every block is in the statement of exactly one month, and the month to
  date is that statement as far as it has come; every block is in the statement of a month
  that is offered and can be asked for, and no month before the first block or after the
  last is offered (months between them are, section 6); the forecast is fair.
* **Backup and restore.** A restore that nothing overlapped leaves what is in the file, in
  both databases; the integers that link the databases still mean what they meant; new
  rows get ids that are free; a file that cannot be restored comes only of rows created
  while it was written.
* **Appliance client.** A listing made of many requests misses, repeats or misplaces a VM
  only for a cause one can name; a token that expires costs nothing; the listing ends.
* **Accounts and setup.** Someone can always administer the portal; a migration adds what
  the source held and loses nothing that stayed; ids that a wiped database gives out again
  do not pass VMs of old projects to new ones, but for a recompute that is owed.

`PROJECT.json` lists the hazards at the line where each one bites.

## 2. Plan

Order, the most important behaviour first:

1. `VMOwnership`, `ProjectAssignment` with its proofs (done).
2. `Collection` with its proofs (done).
3. `UsageReport` and `RateCards` with their proofs, `Calendar` (done).
4. `ApplianceClient`: the listing that `Collection` takes for one instant's truth, as the
   requests it is made of (done).
5. `BackupRestore`: what ties the two databases together, across exports, restores and
   crashes (done).
6. `DatabaseSetup`: accounts, bootstrap, wipe, migration and switch (done).
7. Proofs of every invariant and every action property of the modules of 1 to 6 (done):
   first those that are inductive or nearly so, then the appliance client, accounts, backups
   and the calendar, then what needs a theory of its own, the sums of `UsageReport`.
8. Composition of `Collection` with `UsageReport`: samples that the collector really
   stores instead of any samples, so that a quiet report bills what was observed.

Abstract specifications: `VMOwnership` (done); "a VM-minute is billed at most once" as
the promise of `Collection`; "the last audited card is in force" for serialised updates
of `RateCards`.

## 3. The modules and the code

Every module follows the same convention: one action per statement or commit of the
code, named for the function it belongs to; local variables of a handler are variables
indexed by the process; history variables, which no action reads, come last in
`VARIABLES` and are marked. Operators whose comment says *Mutant* are plausible bugs of
the definition that follows; no specification uses them.

### ProjectAssignment (collector.py 263-431, routers/admin.py 654-1040, project_criteria.py, ops_queries.py)

Billing DB: `tenants`, `projects`, `tenantOf`, `links`, `nextProject`. Operations DB:
`account`, `inventory` (existing clusters, folders, tags), `vms`, `carried` (what a VM's
row says it is in and tagged with), `owner` (`project_id`). Each process has a `pc`, the
`req` it serves and the `work` of the recompute it runs.

A recompute is seven steps, as in the code: the ids of the projects; one SELECT for each
link table; the VMs with cluster, folder and `project_id`; the tags, which are loaded
lazily; the write, which only touches VMs whose value differs from the one loaded (the
ORM's dirty check) and fails as a whole when one of those rows is gone. The requests are
modelled from the first statement that can be refused to the last commit.
`delete_tenant_project` releases the VMs in one database and deletes the project in the
other; `update_tenant_project` reads the criteria that its payload leaves out, deletes
the rows it finds and inserts the new ones, which may violate their key. The collector
lists the accounts, syncs them one after the other and recomputes once.

An account is `live`, or a `placeholder` that a restore has left without credentials, or
`incomplete`: edited since (`EditAccount`), so that `needs_reconnect` is gone, and still
without a password. The collector passes over a placeholder. An incomplete account, or one
that is deleted while it is on the list, raises where nothing catches it but
`run_forever`: the cycle ends (`CycleAborts`) and there is no recompute. A sync request for
such an account raises too, and the deletion of an account fails on rows that a sync
under way elsewhere inserts (`RequestFails`).

Abstractions: which accounts come back from a backup is fixed at the start; the collector
reads the state of an account when it comes to it (`Collection` has what the session
holds from before); a VM's vCenter, datacenter and names are left out; a collection is one
commit that moves any VMs to any place of their account (its inside is `Collection`);
tenants exist from the start (creating one is a row nobody refers to yet);
ids are not reused, as PostgreSQL's sequences guarantee unless a restore or a wipe resets
them (`BackupRestore`, `DatabaseSetup`); a foreign key or unique violation is `RequestFails`.

### VMOwnership

The promise, with no databases or processes: ownership passes only to projects that a
running recompute knows, that existed when it learnt of them and that are entitled to
the VM. `ProjectAssignment` implements it under the mapping `Ownership`.

### Collection (collector.py 58-431, integrations/__init__.py, admin.py 694-779)

The clock (`now`) and the VMs (`power`) are the world. A sync fixes its bucket, asks the
appliance, looks up each VM's row and sample, and commits the account's batch; another
sync of the same account may have stored a row or a sample in between, which is either
swallowed at the final commit or raised at an earlier flush, as in the code. Accounts
restored from a backup have no credentials (`placeholder`); an edit that sets only some
field makes them `incomplete`, and building a client for such an account raises outside
of what `sync_account_once` catches.

Abstractions: rows of the hierarchy and of tags are not told apart from the VM's own row;
an appliance answers with the state of one instant, or fails (`ApplianceClient` has the
listing as it really is); a process that dies is
started again at once. Deletion of an account is in `ProjectAssignment`. The collector
goes by the accounts as one query loaded them (`loaded`) until its first sync, whose
commit or rollback makes the session read each of them again (`Known`).

### UsageReport (billing/engine.py, billing/aggregator.py 98-256, routers/user.py)

A report request in three statements per project and pass, while samples are stored, VMs
move, rates change and projects are deleted. `scope` is the set of projects asked for: all
of them, those of a tenant (what a member of it sees, and what an administrator may pick),
or a single one. An overview computes the period before as well and hands its tenant on to
it (`Compared`); a forecast and the usage of a project end after the first pass. A member
keeps its tenant for the length of a request, as in the code, which loads the user once. Costs are whole numbers: where the code
multiplies by `block_minutes / 60` and a weight in floating point, the model counts in
1/10000 of a block's price; rounding is left out. `Charged` is the test of
`accumulate_sample` that passes over a block the VM was off in, and `Total` the additions
that follow it, for vCPUs and disk each. Memory is priced and weighted the way
vCPUs are and is left out. In the second pass the rate card of the first may still be in
the session's identity map, or be loaded again: both are allowed.

### RateCards (routers/admin.py 526-568 and 1023-1040, models.py 134-192)

An update reads the card, and its commit writes only the columns that differ from what it
read, together with an audit row that holds all that was sent. A deletion loads the card
and the audit rows and deletes exactly those; an audit row stored meanwhile violates the
foreign key and rolls the deletion back. The columns stand for the seven of the code.
Every project has its card, which it is created with (admin.py 960-976), so the branch of
`update_rates` that makes one up (540-542) is left out.

### Calendar (billing/aggregator.py 189-335, routers/common.py 27-70)

Instants are hours since the first of January of `FirstYear` in UTC. `FirstDay` is
Python's `datetime`; the month arithmetic is the program's. `samples` is when blocks were
stored, at any hours, so that whole months may lie between them without one. The loop of
`available_months` is a recursive function of the samples its query counts: all of them, or
those of the VMs that a tenant's projects own at the moment. Since VMs come and go this can
be any selection, and that is how the tenant's filter is modelled. `month_to_date_period`
and the forecast read the clock twice; the model reads it once. `Falls` says in which month
of Korea an instant lies; `InstantsAssumption` keeps the instants within the months that
are modelled, and `CalendarAssumption` these within the years that `datetime` knows.
`ParsePeriod` is what a query asks for, or the empty set when it is refused (400) or fails
because `datetime` has no such month (`Datable`, 500); the year and the number of a month
stand for the text.

### ApplianceClient (integrations/vcf_ops_client.py 337-818, collector.py 190-260)

One behaviour is one listing. An action is one GET and what the client does with the
answer; between two of them VMs are created (at any place of the list), deleted or moved,
hosts change their cluster, and the token expires. `FetchPage` cuts a page out of the list
as it is now and stops by the total of that answer; `FetchCluster`, `FetchHost` and
`FetchFolder` ask the containers in any order and overwrite what an earlier answer said;
`FetchProperties` places each VM by those answers, or by what its properties say of its
parents, or counts it as a failure. `_get` renews the token once per request (`retrying`).
Requests before the VMs' own raise; a folder, the properties of one VM or its statistics
may fail alone. `Store` is the batch: a VM that is listed twice violates the unique key of
its sample unless a flush came in between, and the rollback is swallowed.

Abstractions: datacenters, clusters, hosts and folders are not created or deleted, and a
cluster does not change its datacenter, so that a cluster known is a datacenter known;
folders are not nested; a folder that does not answer loses only its own VMs; what is
parsed of a VM's properties is who its parents are, and they name a datacenter with its
cluster or neither (the code also takes a VM with a datacenter and no cluster, 688-695).
Answers are well formed: each page says its `totalCount` (without one, 423 takes the length
of the page), and no value fails to parse, which would end the listing with an error rather
than skip the VM (741-742, 785). In the batch, a flush that follows a duplicate
sample raises (collector.py 219) and the sync ends in an error; the model lets it end
as the final commit does, without samples either way. The mock client, which invents an
inventory, is left out. The history `wasIn` and `wasAt` says where each VM has been.

### BackupRestore (backup_restore.py 62-321, routers/admin.py 250-301)

Two tables stand for each database, a parent and its child: projects with the links to
clusters, clusters with the VMs that have a `project_id`. Inside a database a foreign key
holds; between the databases there is an integer, and the model remembers which row it
was `meant` for. An export is one SELECT per table. A restore is, for each database, the
DELETEs, the INSERTs with the ids of the file, the commit, and the sequences in a
transaction of their own. A DELETE deletes the rows it sees when it begins and holds
them locked until the commit (`doomed`, `holder`); rows stored since survive it, and an
INSERT of an id that is still there waits or fails. Drawing an id and committing the row
are two steps, since a sequence is not part of a transaction.

Abstractions: of the requests those that create and delete rows of the four tables;
`delete_tenant_project` is one step (`ProjectAssignment` has its commits apart); the
encoding of values and the redaction of credentials are left out.

### DatabaseSetup (bootstrap_db.py, db_admin.py 196-269 and 389-468, auth.py 42-65, routers/admin.py 861-920 and 1056-1170)

Two databases may be the Billing DB, the local and the external one; `conn` is
`DATABASE_URL`. A request is authorised and reads its rows in one step and commits in
another, so two requests can each act on what the other deletes. `bootstrap` runs at the
start of the API and of the collector and inside a wipe: it makes the tables, looks for
the e-mail of the default administrator, and inserts that account, in three steps. A wipe
waits for every transaction that has read the tables. A migration checks that the external
database is empty on one connection, then copies tenants, projects and users one SELECT
after the other, and commits on another. `Recreate` is the operator who edits `.env` and
recreates the containers. One VM of the Operations DB keeps its `project_id` throughout.

Abstractions: a project's tenant, criteria and rate card (in other modules; their foreign
keys make the code refuse some commits that the model lets pass); a failure of the Operations
DB under a recompute, which leaves what a `Crash` leaves; display names and passwords, also
that of the role which is changed before a wipe; the column that the light migrations add;
the Operations DB's own setup and migration.

## 4. What the runs check

All runs use `tlc -workers 2`. A run that ends in a violation shows a disagreement
between the code and what its own documentation says of it; section 6 explains them.

| Run | Instance | Shows |
|---|---|---|
| `assign_safety` | 1 API worker and the collector, 1 tenant, 2 accounts (one to be registered), 2 VMs, a cluster and a tag; 2 requests, 2 changes of the inventory that place the VMs anywhere; from empty databases | `TypeOK`, `OnlyEverSelected`, `Provenance`, and that `VMOwnership` is implemented, in every interleaving of statements and commits |
| `assign_races` | 2 API workers and the collector, 1 VM, a tag; 3 requests, 1 change | `DeletedStaysGone`, also where requests fail on each other's constraints |
| `assign_converges` | 1 worker with a stale recompute still to write, 2 projects, a cluster, a folder, two tags; any criteria, any owner; the account live and 1 fault, or a placeholder or incomplete and 1 edit of it; fair collector | `UndisturbedIsExact` (the matching rule, with its priorities) and `Converges` (`<>[]Settled`, unless the account stays incomplete) |
| `collection` | the collector and 1 worker, 2 VMs of one account, a second account restored from a backup; interval 2 of an hour of 4, clock to 4; 1 request, 1 change of power, 1 crash | `BlocksDisjoint`, `OnSinceBlockBegan`, `UnracedIsComplete`, `FailuresAreIsolated` |
| `collection_isolation` | the same with an edit of the restored account and then a cycle | violation of `EveryAccountAttempted` |
| `report` | 2 projects of a tenant each, asked for together or alone, 2 VMs, 2 samples out of 5 kinds (usage unknown, 50, 120, -50, and off), 4 blocks over two periods, days that Korea begins one block early; 1 other commit | `BilledWasOwned`, `PeriodsAbut`, `DailyAddsUp`, `WeightsAreBounded`, `QuietReportIsExact` |
| `rates` | 2 workers, 2 columns, 3 values, 3 requests | `UnracedUpdateIsInForce`, `NoRateUnasked`, no orphaned audit row |
| `calendar` | 14 months from January 2023: two ends of a year and the leap day of 2024, at the last hour of a month in Korea, the first, and for three months both sides of the first half day; 3 blocks stored at any of these | `MonthsTile`, `SampledMonthsAreOffered` for every selection of the blocks, `ForecastIsFair` |
| `listing` | VMs `v1` and `v2`, of which the properties of `v2` name its parents, and `v3`, the appliance itself, which may be created; 2 hosts, clusters and folders; pages of one VM; 2 changes of the inventory, 2 expired tokens, 1 other fault | `PagesCoverTheInventory`, `PlacesAreReal`, `ExpiryIsHarmless`, `LossIsExplained`, `Ends` |
| `listing_silent` | the same without changes and with 2 faults | violation of `NoSilentEmptiness` |
| `backup` | 2 workers, 3 ids for each table, 1 export, 2 restores (of that export or of a file of an earlier deployment), 2 requests, 1 crash | `TornOnlyByCreation`, `RestoreIsExact`, `NewIdsAreFree`, `LinksKeepTheirMeaning` |
| `setup` | 2 workers, the API and the collector, 1 tenant, the default e-mail and one other, 3 ids; 4 requests (wipes and migrations among them), 1 crash | `AdministratorRemains`, `OwnerIsMeant`, `MigrationIsFaithful` |

### Bounds and why they are enough

* Assignment: a wrong assignment needs a VM that carries nothing its project selected (so
  a second VM that does carry it) and a request that overlaps a recompute; the collector's
  recomputes are not bounded, so one worker gives every such overlap. What two requests do
  to each other, and what then fails, needs no second VM or criterion; three requests are
  one that creates a project and two that race. Two kinds of criterion tell the steps of a
  recompute apart; the priorities among the three kinds and between projects are in
  `assign_converges`, which starts from any outcome of earlier history, so nothing has to be
  reached by requests first.
* Collection: two syncs of the same account are the most that can clash over a bucket
  (a third adds nothing: the unique key admits one). The clock passes two buckets and
  reaches the full hour at which buckets start anew.
* Reports: the properties relate two blocks at most (two periods, two days, two VMs, two
  projects), so two samples show any way of billing one twice or not at all.
* Rate cards: a merge needs two updates and two columns; the third request shows what
  follows after a merge, or a deletion that overlaps both.
* Calendar: the list of months depends on the oldest and the newest block a query counts;
  a third lies between them, in a month of its own or not.
* Listing: with pages of one VM, one deletion shifts an unread VM onto a page already read
  and one creation brings a VM back; a second change lets the two cancel or compound. Two
  expirations are one that is renewed and one that hits the repeated request.
* Backup: a torn file needs one request between two SELECTs; a shifted link needs a
  parent whose id is given to another row, for which two ids are enough and the third is
  the row of the archive; overlap of restores needs two.
* Setup: two administrators that delete each other, two migrations or two bootstraps are
  two actors each. Four requests are, say, one that creates a second administrator, two that
  race, and a wipe. A second tenant adds rows that nothing tells from the first.
* The proofs of section 7 lift the bounds for every safety property; they matter for
  `Converges` and `Ends` only, and for what the runs can show to be false.
* `MaxRequests`, `MaxMoves`, `MaxFaults`, `MaxChanges`, `MaxExpiries`, `MaxCrashes`,
  `MaxTime`, `MaxSamples`, `MaxCommits`, `MaxExports`, `MaxRestores`, `MaxId` and `MaxBorn`
  are the only bounds; each stands in the guard of the action it limits.

The runs of `ProjectAssignment` check deadlock, since the
collector always has a next step. The other modules end: at the last tick of the clock,
when the report or the listing is done, or when the requests are used up.

## 5. Fairness

Two liveness properties are checked. `Ends` holds under `WF_vars(Client)`: every request of
the client has a timeout of 30 seconds, answered or not, and the client's thread does
nothing else, so a listing always takes its next step. That the inventory changes and
tokens expire finitely often is the premise; a list that grows by a page for every page
read would keep `_iter_resources` going.

`Converges` holds under `WF_vars(Collect)`. `run_forever`
is an endless loop, its cycles catch every exception, and the container is restarted
when the process dies, so the collector always takes another step. Nothing is assumed
of the API: a handler may stay before its write for ever, which is why the stale
recompute of `assign_converges` need not happen. Only finitely many requests, changes
and faults occur in a run, which is the premise "when administrator and inventory come
to rest". The other premise, `<>[]NoneIncomplete`, is in the property: an account that stays
without a password ends every cycle before its recompute, and without the premise TLC
shows a VM that keeps the wrong project for ever. An account may be incomplete for as long
as it takes until an edit brings the password.

## 6. Disagreements found

* `collection_isolation`: collector.py 15-16 and 376 say that accounts fail in
  isolation. `build_client_for_integration_account` is called outside of the `try`; a
  restored account of which only one field was edited raises there in every cycle, and
  the accounts listed after it are never collected again. Nor is the recompute at the end of
  the cycle (391) reached, so that the collector repairs no assignment: the premise of
  `Converges`.
* `listing_silent`: vcf_ops_client.py 752-755 says that a listing in which no VM found its
  place fails and does not pass for a success with no VMs. VMs whose properties cannot be
  had are in `considered` and not in `hierarchy_failures`, so that the comparison misses
  them, and the sync is recorded as a success.

Seen while modelling, and without a run of their own:

* `update_tenant_project` checks that a project keeps at least one criterion against rows
  it has read, and writes only the kinds its payload names. Two updates that each clear
  another kind leave none (admin.py 1002-1017).
* The imports of the API use the default interval of 5 minutes whatever
  `collector_interval_minutes` is, although config.py 23 and engine.py 6 take the two for
  equal; their blocks then overlap the collector's. This is why `NoMinuteTwice` has the
  premise `OneSetting`.
* The bucket is fixed before the appliance is asked. A VM switched on after the bucket has
  ended and before the answer is billed for it, against engine.py 9; `OnSinceBlockBegan` is
  what remains true.
* The UPDATE of a rate card writes the columns that changed, the audit row what was sent.
  Overlapping updates merge into a card that no audit row shows, hence the condition
  "raced no other" in `UnracedUpdateIsInForce`.
* bootstrap_db.py 74 says that the default administrator is created if there is no
  administrator at all; the code looks for the e-mail `admin`. An ordinary user of that
  name, left when the administrators have deleted each other, keeps it from being created:
  the second case of `AdministratorRemains`.
* admin.py 751-755 relies on ids that are never used again. A restore resets the sequences
  to what the file holds, and links to clusters that were deleted before the backup then
  wait for new clusters: a file with such links is the exception `broken` of
  `LinksKeepTheirMeaning`.
* `available_months` says that it lists the months for which there is data
  (aggregator.py 304, and so do user.py 125 and README.md 336). It lists every month from
  that of the oldest sample to that of the newest, also those in which none was stored, say
  while the collector was switched off (329-334). `SampledMonthsAreOffered` says what
  remains true: no month with a sample is missing, and none outside that span appears.
* models.py 164-166 says that a floor of 100 % amounts to billing by usage alone,
  engine.py 33-34 that a floor of 1.0 amounts to no weighting. The code does what
  engine.py says, and so does `UsageWeight`.

## 7. What is proved

`ProjectAssignmentProofs`, for any numbers of workers, tenants, accounts, VMs and
criteria and any bounds, from the assumptions that `ProjectAssignment` declares (the
three kinds are disjoint, the collector is not an API worker, accounts are known, bounds
are naturals):

* `TypeCorrect`: `[]TypeOK`.
* `ProvenanceHolds`, `BilledOnlyIfSelected`: that a VM is billed only to a project that
  has selected something the VM carried is not inductive. A recompute writes what it
  computed from rows read several commits ago. `Provenance` adds what may be in its hands:
  ids of projects that were created, dict entries that those projects selected, results
  they are entitled to, and nothing at all outside of a recompute. It is preserved because
  the three histories it refers to only grow, so that what was read becomes old but never
  unfounded.
* `Refines`: every step is a step of `VMOwnership` or a stutter.
* `DeletedNeverReturns`: the action property `DeletedStaysGone`.
* `UndisturbedSettles`: the action property `UndisturbedIsExact`. What a recompute that no
  other commit has disturbed holds is what the databases hold (`UpToDate`): after each of
  its SELECTs the dict of that kind names the first of the projects that chose a
  criterion, and the value it is about to write is the one the rule decides on.

`CollectionProofs`, for any accounts, VMs, workers, intervals and bounds:

* `TypeCorrect`, with the fact that a sync only looks for samples of VMs it was told of.
* `NoMinuteTwice`: `[]BlocksDisjoint`, if the imports use the collector's interval and
  that interval divides the hour (`OneSetting`, the premise of the theorem; section 6 says
  what happens without it). The invariant adds that every date
  is a multiple of the interval, also in the hands of a sync (`OnBuckets`), and that
  there is one sample of a VM for each (`OnePerBucket`).
* `NeverOffSince`: `[]OnSinceBlockBegan`, whatever the intervals. The invariant adds what
  a sync holds between the answer of the appliance and its commit (`ReportSeen`).
* `SuccessIsComplete`: the action property `UnracedIsComplete`. A sync reads VMs of its own
  account only (`OwnVMs`), what it has looked up is stored or in its hands (`LookedUp`), and
  unless it was overtaken nobody else has stored what it holds (`Unclashed`), so that its
  flush cannot fail and its final commit swallows nothing (`StoredAll`).
* `NoFailureSpreads`: the action property `FailuresAreIsolated`, from the fact that accounts
  that were not restored stay usable, also as the collector has them loaded, and that a
  cycle has tried them or still has them on its list (`Isolated`).

`RateCardsProofs`, for any handlers, columns, values and number of requests:

* `TypeCorrect`, with the audit rows that never outlive their project.
* `LastAuditIsInForce`: inductive together with `FreshBase`, that a request nobody has
  overtaken holds the card as it is stored; only then does the UPDATE of the changed
  columns leave exactly what was sent.
* `RatesWereAsked`: `[]NoRateUnasked`.

`UsageReportProofs`, for any projects, tenants, VMs, tariffs, samples and periods:

* `OnlyOwnersAreBilled`: `[]BilledWasOwned`. The invariant (`Founded`) adds what a request
  has in hand between its statements: a project that was asked for, VMs that have been that
  project's since the request began, and nothing billed before it began.
* `NoBlockIsComparedWithItself`: `[]PeriodsAbut`, from the fact that what has been billed
  lies in the period of its pass (`InTheirPeriod`).
* `QuietReportsAreExact`: `[]QuietReportIsExact`. While nothing is committed, what has been
  billed is what is due from the projects that are `Settled`, at today's cards (`Calm`). In
  the second pass of an overview the cards of the first may be used again, and they are
  today's for the same reason. No total is computed: two totals are the same when they are
  over the same blocks at the same costs.
* `TypeCorrect`, `DaysAndVMsAgree`, `WeightsStayBounded`: `[]TypeOK`, `[]DailyAddsUp` and
  `[]WeightsAreBounded`, whatever is committed while the report is made. The invariant is
  `Books`: the results of a project are the `Usage` of the blocks billed to it so far at the
  card it was read with (`Accounted`), which needs that no project is come to twice in a
  pass (`Unbooked`). The rest is about sums, which the module proves first: the recursion
  behind `SumFunction` has a solution on every finite set, the order of the members makes
  no difference (`SumStep`), sums keep the order of what is added (`SumAtMost`), and what is
  added up by groups adds up to the whole (`GroupsAddUp`): by VM and by day are two ways
  to group the same costs. These need a finite number of VMs and of blocks
  (`FiniteAssumption`).

`CalendarProofs`, for any first year and number of months that `datetime` knows, any hours
that `InstantsAssumption` admits and any number of blocks: `TypeCorrect`;
`MonthsAlwaysTile`, that the months follow one another without gap or overlap in every
year, leap years and centuries among them (`MonthLength`, `LeapDays`, `MonthsInOrder`);
`MonthsAreOffered`, from a closed form of the cursor of `available_months` after n turns
(`CursorIs`) and of the list it makes (`OfferedIs`); `ForecastsAreFair`. The invariant is
the small `Clock`, that samples are among the instants; the work is in the arithmetic
between instants, days and months.

`ApplianceClientProofs`, for any inventory, any length of a page and any number of changes,
expiries and faults:

* `TypeCorrect`, with `Progress`: the loop over the VMs never reads past its end.
* `PagesAreEnough`: `[]PagesCoverTheInventory`. While no VM has been deleted, each VM that
  was there all the time has been read or lies behind the next page; while none has been
  created, nothing that was read does (`Pages`).
* `PlacesWereReal`: `[]PlacesAreReal`. What is known of a VM was true at one of the three
  answers that lead to it, unless a host has moved (`Places`).
* `RenewalIsEnough`: `[]ExpiryIsHarmless`; a repeated request that meets an expired token
  has met a late expiry (`Sessions`).
* `EveryLossIsExplained`: `[]LossIsExplained`. Every VM the loop has passed has its sample
  or one of the causes that are told (`Loop`), because without a move each host and VM has
  its place or is still to be asked for (`Chain`).

`BackupRestoreProofs`, for any ids, rows and file of an earlier deployment, and any numbers
of exports, restores, requests and crashes. `BoundsAssumption` asks for four rows at least,
those that the first deployment and the archive have between them, and
`ArchiveAssumption` that the archive is a file an export has made.

* `TypeCorrect`; that a sequence is set to an id of its table rests on `HighestIsGreatest`.
* `FilesAreTornOnlyByCreation`: `[]TornOnlyByCreation`. Rows that are there when the children
  are read were in the parents' table or have been created since (`Covered`).
* `LinksKeep`: `[]LinksKeepTheirMeaning`. While no restore has touched the rows, every id
  a child names has been drawn and belongs to nobody else, and an id just drawn is named
  by nobody (`Good`); after a restore that nobody overlapped the rows are those of a
  closed file and the sequences follow (`Exact`).
* `DrawnIdsAreFree`, `RestoresAreExact`: the action properties `NewIdsAreFree` and
  `RestoreIsExact`, from the same invariant.

`DatabaseSetupProofs`, for any handlers, e-mails, tenants, requests, crashes and restarts,
if ids and the numbers that tell rows apart are at least one each (`BoundsAssumption`):

* `TypeCorrect`, with what a handler may hold between reading and writing (`Writes`).
* `SomeoneAdministers`: `[]AdministratorRemains`. Ids and e-mails are unique, an
  administrator is a user without a tenant (`AllSound`), and whoever is about to delete is
  not among those it deletes and still an administrator if it is there (`Pending`).
* `OwnersAreMeant`: `[]OwnerIsMeant`.
* `MigrationsAreFaithful`: the action property `MigrationIsFaithful`. What stayed is in every
  copy made so far, and whatever is in a copy was met in the source (`AllWitnessed`).

The induction principles of the library take an operator as a parameter, which the installed
provers cannot instantiate. Where an induction is needed, over numbers or finite
sets, the proofs take a smallest counterexample instead (`LeastExists`,
`SmallestExists`), from the well-foundedness of the order.

Only model-checked: the liveness properties `Converges` and `Ends` (fairness and ENABLED are
out of the prover's reach), and the two runs that end in a violation, where there is
nothing to prove.

## 8. Not modelled

* PDF statements, schemas, the front end, seed data and the diagnosis scripts: they keep no
  state that the bill depends on.
* The database servers: the password of the role that a setup changes before it wipes, and
  the creation of a database for the Operations tables, where a CREATE DATABASE that was
  followed by a crash makes the retry fail; dumps by `pg_dump`.
* The libraries for passwords and tokens, and the manifest and inventory that are only read.
* Within the modelled parts: floating point and rounding, names and display strings, the
  parsing of tags, disk sizes and power states, nested folders, and SQLite's
  locking (the modules take both databases for PostgreSQL).
