# Formal models of dullahan

dullahan is one Rust binary in front of one Postgres: it takes analytics events
from browsers, serves statistics and content to sites, and keeps a registry of
tenants. This directory holds TLA+ models of the parts of it that are hard to
test, the TLC configurations that check them, and proofs that TLAPS checks.

Paths below are relative to `server/src/` unless they start with `deploy/` or
`server/`.

- [What the system consists of](#what-the-system-consists-of)
- [Modules](#modules)
- [What each run checks](#what-each-run-checks)
- [Fairness](#fairness)
- [What is proved](#what-is-proved)
- [Where code and documentation disagree](#where-code-and-documentation-disagree)
- [What is abstracted, and what is not modelled](#what-is-abstracted-and-what-is-not-modelled)
- [Plan](#plan)
- [Running the checks](#running-the-checks)

## What the system consists of

| Component | State it keeps | Operations | What is hard | What makes it correct |
|---|---|---|---|---|
| Ingest pipeline (`ingest.rs`, `db.rs` `insert_events`) | bounded channel, the writer's batch, the loss counters; table `analytics_events` | `POST /collect`; the writer's batch INSERT and its retry; shutdown | 202 is answered before anything is durable; partial failure of a batch; a lost reply; load shedding; draining at shutdown; crash | every event answered 202 is stored, counted or a crash victim; one bad row costs one event; duplicates only after a lost reply; a clean stop loses nothing |
| Tenant registry (`sites.rs`, `sites_api.rs`) | table `sites`, an in-memory snapshot | create, update, rotate token, delete; reload after each; reload every 60 s; load at start-up | reloads overlap and overwrite each other; a reload fails or its handler is dropped after the change committed; an empty snapshot admits everybody | a token speaks for its own site only; the snapshot catches up; a failed load never un-gates |
| Authorization (`auth.rs`, `state.rs`) | `open_mode`, the operator's token hash | `resolve_scope`, `SiteScope`, `require_operator` | decisions are taken on a snapshot and used after an await; open mode depends on the configuration of this start | a caller reads and writes its own tenant only |
| Daily salt (`salt.rs`) | table `daily_salts`, a one-entry cache | `current_salt`; prune inline, at start-up, every hour | concurrent first visitors, midnight, a prune between two statements of a handler, failures | one salt per day; no salt for two days; old salts leave |
| Blog posts, products (`blog.rs`, `products.rs`) | tables `blog_posts`, `products` | list, get, create, update, delete, count a view | tenancy check before an await; list and count are two statements; drafts | a tenant's rows change only by its own or the operator's requests; no answer tells of another tenant or of a draft; no row without an owner |
| Site configuration (`site_config.rs`) | table `site_config` | get, list, put, delete | authorised without the admission check | as above |
| Statistics (`stats.rs`, `channels.rs`, `db.rs`) | none | window resolution, aggregates, channel attribution | client clocks against the server's days; two inclusive windows side by side; one figure counted by several statements | no report misses or doubles a row of its window; the reports of one window agree |
| Event retention (`db.rs` `prune_events`, `main.rs`) | `analytics_events` | chunked delete at start-up and every six hours | interleaves with a writer whose rows may be old already; stops at a short chunk; fails in between | removes nothing that a report can still show, leaves nothing old, goes on after failures |
| Self-check (`selfcheck.rs`) | state file: counter baselines, throttle times | checks, alert, save | counters restart with the server; a mail or a save fails; dry run | nobody is mailed twice within the window; no problem counts as reported without a mail; a rise is found exactly once; a standing fault is mailed again |
| Weekly digest (`digest.rs`) | none | one run: load the sites, then skip, compute and mail each | one site's failure must not stop the others; the opt-out query may fail; runs are killed | every site that is due gets its report, once for each run, at its own address |
| Contact form and mail (`contact.rs`, `email.rs`) | none | check, look up the recipient, send | the recipient is taken from a snapshot; a mail is accepted and its sender not told | mail lands with its tenant only; 201 means mailed |
| Rate limiting, client address (`lib.rs`, `client_ip.rs`) | limiter's table | let pass or answer 429 | which header is trusted | library |
| Server process (`main.rs`), router (`lib.rs`), configuration (`config.rs`) | background tasks, 15 s request timeout | start, graceful stop | order of start-up and shutdown | see the components |
| Backup, freshness, restore drill (`deploy/*.sh`) | backup directories, the bucket, the state of the systemd unit | dump, encrypt, upload, prune; list the bucket; restore its newest copy | a failure, a kill or a reboot between any two steps; one database of several failing | when nothing alarms, the bucket can be restored from; the last copy of a database does not go unnoticed |
| Deployment and rollback (`deploy/dullahan-deploy.sh`) | the installed binary and the kept one | swap, restart, probe, roll back | cut off between swap and rollback | a bad build is rolled back |

How they interact: `/collect` asks the registry snapshot whether the site is
admitted, asks the salt for a visitor hash, and hands the event to the writer over
the channel. The operator's handlers and the refresh task both replace the registry
snapshot. Every handler runs under the 15 s `TimeoutLayer` (`lib.rs:343`), which may
drop it at any await; a client that disconnects does the same. All statements go
through one pool of 10 connections with a 5 s acquire timeout (`db.rs:30-36`). The
self-check scrapes the ingest counters and reads the state of the backup's units. The
digest is a process of its own that reads `sites` directly, the contact form goes by the
server's snapshot; both send through `email.rs`. The reports read the table that the
ingest writer fills and the retention task empties. Backup and deployment act from
outside.

## Modules

| Module | Models | Extends / uses |
|---|---|---|
| `IngestContract` | what `POST /collect` promises about an event, without queue, writer or database | |
| `Ingest` | handler, channel, writer, INSERT, counters, shutdown, crash, restart | refines `IngestContract` (`RefinesContract`) |
| `RegistryContract` | what the registry is to those who read its snapshot: a table that changes one site at a time, and whole but perhaps old copies of it | |
| `SiteRegistry` | the sites table, the snapshot, overlapping reloads, start-up, open mode | implements `RegistryContract` (proved) |
| `SaltContract` | what `current_salt` is to those who hash: one read of a table that gets one salt for a day | |
| `DailySalt` | the salts table, the cache, `current_salt` step by step, the prunes, the clock | implements `SaltContract` (proved) |
| `Content` | posts, products and site configurations: authorization against the snapshot, the statements that run later, what the answers tell | its registry is any that keeps `RegistryContract` (proved) |
| `Selfcheck` | one run of `dullahan --selfcheck` step by step, its state file, and the server, host and clock around it | |
| `Statistics` | what `/stats/*` and the digest answer, as operators of the table, the request and the clock | |
| `Retention` | the table `analytics_events` over time: stamped, inserted, swept in chunks | extends `Statistics`, whose answers its properties compare |
| `Mailing` | the contact form and the weekly digest beside the operator and the mail API | its registry is `SiteRegistry`'s seen from outside; what a report says is `Statistics`' `Digest` |
| `Backup` | the nightly backup, the bucket, the unit and the off-box check | |
| `MCIngest`, `MCSiteRegistry`, `MCDailySalt`, `MCContent`, `MCSelfcheck`, `MCRetention`, `MCMailing`, `MCBackup` | instances for TLC | the module named after `MC` |
| `IngestProofs`, `SiteRegistryProofs`, `DailySaltProofs`, `ContentProofs`, `SelfcheckProofs`, `RetentionProofs`, `MailingProofs`, `BackupProofs` | the theorems | the module and TLAPS |

The rule for the size of a step: one action is what happens between two awaits of
the code. A statement takes effect in one step, its reply is another step where the
code can tell the difference.

### Ingest

| Variable | In the code |
|---|---|
| `phase` | where `main` is: `axum::serve` accepts ("serving"), drains after the signal ("draining"), has returned ("flushing"), the process has ended ("exited", "crashed") |
| `req[r]` | where the handler of request r is, or the status it answered |
| `queue` | the mpsc channel |
| `writer` | whether the writer task still holds the receiver |
| `batch`, `cursor` | the writer's `Vec` and, once a batch INSERT has failed, the position of the retry loop |
| `stmt` | the writer's current INSERT: on the wire, committed, reported failed |
| `cnt` | the Prometheus counters; gone with the process |
| `rows[r]` | how many rows of `analytics_events` hold r |
| `givenUp`, `unreachable`, `ambiguous`, `crashLost`, `old` | history: they only feed the properties |

Actions: `Reject` (422 and 400), `Forbid` (403), `CollectNow`, `AwaitSalt` and
`CollectAfterSalt` (the handler without and with an await at the salt), `Abandon`
(timeout or disconnect); `RecvMany`, `InsertOk`, `InsertErr`, `WriterStops` (the
writer); `DbCommit`, `DbReject`, `DbUnreachable`, `ReplyLost` (Postgres and the
connection); `ShutdownSignal`, `ServeReturns`, `ExitProcess`, `Crash`, `Restart`.

### SiteRegistry

`table` is the sites table, `cache` the snapshot, both functions from the registered
sites to a token and the `active` flag. An operator request is one action for its
statement (`Create`, `Update`, `RotateToken`, `DeleteSite`: the row changes and the
handler goes on to reload), then `Load` (the SELECT) and `Install` (the cache write
and the answer), or `LoadFails`, or `Cancel`. The refresh task is one more reloader
(`TickFires`). `Stop` and `Start` are the life of the process; `Start` chooses open
mode anew. `minted`, `stale`, `lapsed`, `emptied` and `revoked` are history.

### DailySalt

`pc[c]` is the statement of `current_salt` that handler c awaits next: `Begin` (the
miss), `Insert` (ON CONFLICT DO NOTHING), `Select`, `PruneInline`, `Store` (the cache
write and the hash). `HashFromCache` is the hit. `Fail` is an error, a lost reply, a
timeout or a disconnect at any of them. The hourly task prunes with `PruneTick` and
`PruneHourly`; `Start` prunes before serving. `NextDay` is the UTC clock and may fall
between any two steps.

### Content

| Variable | In the code |
|---|---|
| `open` | `AppState::open_mode` |
| `table`, `cache` | which sites are registered and active, and the snapshot of that |
| `posts`, `products`, `docs` | the tables `blog_posts` and `products` by id, `site_config` by site |
| `ctx[r]` | what the handler of request r was given and has not used yet: its `SiteScope` (`via` "query") or path segment and scope (`via` "path"); `bearer` is history |

`Extract` is the `SiteScope` extractor, `AuthorizePath` the first lines of the
site_config writers. The statement comes later, as an action of its own
(`CreatePost`, `UpdatePost`, `DeletePost`, `ViewPost`, the same for products,
`PutConfig`, `DeleteConfig`), and so does everything else that happens in between:
`CreateSite`, `UpdateSite`, `DeleteSite`, `Reload`, `Restart`, other requests. A `Reload`
installs any content that the table can have had (`Loadable`), since its SELECT may be
old; in open mode, in which nobody changes sites, that is the table itself. A
request that ends without a change is `Release`: a read, or one that was dropped. The
operators `Shown`, `Listed`, `CreateStatus`, `UpdateStatus` and `DeleteStatus` say what
each endpoint answers; `Told` collects them, so that "an answer does not depend on"
becomes an equation between two tables.

A token is named by the site it was made for, which is what
`TokenNeverCrossesTenant` of `SiteRegistry` establishes; a token that was rotated away
is no usable token (`Anonymous`).

### Selfcheck

| Variable | In the code |
|---|---|
| `count[c]` | a watched counter in the server process; 0 is one that is not published yet |
| `bad` | the faults that the other probes would find now |
| `file` | the state file: counter baselines, and per problem the age of its `last_notified_ms` |
| `pc` | what the run awaits next ("server", "counters", "host", "alert", "save", "ping"), or how the last run ended |
| `pages` | the run mails; FALSE is a dry run, or one without `ALERT_TO` or a mailer |
| `state`, `findings` | the locals of `run` |
| `signal` | what this run posted to the watchdog |
| `told`, `gone`, `mailed`, `unsaved`, `reading`, `readAt` | history: they only feed the properties |

A run is `Load`, `CheckServer` (health, database), `CheckCounters` or
`CountersUnreachable`, `CheckHost` (disk, backups, units), then `Alert` or `MailError`
(the `?` of `send_html`), `Save` or `SaveError`, and `Ping`; `Kill` ends it anywhere.
Around it: `Lose` (the writer counts a lost event), `Restart` (of the server), `Break`
and `Repair` of a fault, `LoseFile`, and `Tick`, which lets time pass between two runs.
Ages stop at `Repeat`, from where `should_notify` tells nothing apart.

### Statistics and Retention

`Statistics` has no variables. A row has the client's clamped time (`ts`), the
database's time of its INSERT (`received`) and the day of the salt in its visitor hash
(`salted`); its other columns are `Payload[event]`. `Summary`, `Timeseries`, `Top`,
`CustomEvents`, `Channels` and `Realtime` are the functions of `db.rs`, `Classify` is
`channels.rs`, `Compared` the comparison of `stats.rs` and of the digest, and `Answers`
collects what the endpoints say to one set of parameters, so that "no report differs"
becomes one equation. An average is the pair of its sum and its number. Where a `LIMIT`
cuts between equal counts, the answer is the set of all that Postgres may give.

| Variable of `Retention` | In the code |
|---|---|
| `now` | the server's clock, which the database shares |
| `queue` | events that `/collect` has stamped and the writer has not inserted |
| `rows` | the table `analytics_events` |
| `cutoff` | the local of the sweep that is running |
| `pruned` | history: what sweeps have removed |

`Collect` is `clamp_ts` with the salt of the day, `InsertEvents` one INSERT, `SweepTick`
the tick of the interval (and the first one at start-up), `DeleteChunk` one DELETE of the
loop in `prune_events`, `DeleteErr` its failure, before or after it took effect, `Crash`
the loss of queue and sweep.

### Mailing

| Variable | In the code |
|---|---|
| `sites` | the table `sites`: for each id its row (active, `contact_to`, `email_from`) or none |
| `cache` | the server's snapshot; `past` is history |
| `mailOn` | `RESEND_API_KEY` and `EMAIL_FROM` are set, so that there is a `Mailer` |
| `ctx[r]` | submission r: its site, the row it cloned from the snapshot, where it is or what it answered |
| `run` | the digest process: the step that comes next, the sites to come, dry or not, how the last one ended |
| `loaded` | the active rows that the run has read |
| `inbox` | the mails the API has accepted, of all submissions and of the last run |
| `struck` | history: the sites whose own computation or mail failed in this run |

A submission is `Submit` (everything up to its only await), `ContactAccepted` (the API
has the mail), then `ContactOk`, `ContactErr` or `ContactDropped`; the last two also
happen without or before the API's acceptance. A digest run is `RunFails` or
`RunStarts`, for each site `Skip`, `ComputeErr` or `ComputeOk`, and in a run that is not
dry `SendAccepted`, `SendOk`, `SendErr`; then `RunDone`, or `RunKilled` anywhere. `Edit`
is the operator, `Refresh` a reload, which installs any content that the table has had.

### Backup

| Variable | In the code |
|---|---|
| `now` | the day; a run is named by the day it began on |
| `local[r]`, `remote[r]` | the directory of run r on the host and what the bucket holds of it: the dumps and whether there is a `MANIFEST` |
| `pc`, `todo`, `failed` | where the script is, the databases still to dump, `FAILED_DBS` |
| `unit` | the state of `dullahan-backup.service` |
| `cuts`, `good`, `left`, `last`, `forgotten` | bound and history |

A run is `Refuse` (one of the checks at the top), or `Begin`, `DumpOk` and `DumpErr` for
each database, `Manifest`, `UploadOk` or `UploadErr`, `Prune`, `Report`; `Trap` is the
EXIT trap. `Kill` and `Reboot` cut it off anywhere; a reboot also clears the unit.
`Fresh` is what `dullahan-backup-freshness.sh` finds, `DrillPasses` what
`dullahan-restore-drill.sh` needs of the copy that it takes.

## What each run checks

Numbers of distinct states are those of the given bounds.

| Run | Bounds | Shows |
|---|---|---|
| `ingest` | 3 good, 1 poisoned, 1 invalid event; queue 3, batch 2 (about 1 120 000 states) | `NothingVanishes`, `OnePlaceEach`, `PoisonCostsOnlyItself`, `DuplicateNeedsLostReply`, `CountersExact`, `ShutdownLossless` |
| `ingest_live` | 2 good and 1 poisoned event; queue 2, batch 2 (74 000) | `RefinesContract`, `AckedSettles`, `ShutdownCompletes`, with fairness |
| `registry` | 2 sites, 2 tokens, an operator request and the refresh task at a time (57 000) | `CacheLagsOnlyByLapse`, `TokenNeverCrossesTenant`, `DeadTokenNeedsLapse`, `UngatedOnlyIfEmptied`, and `QuietCacheConverges` with fairness |
| `registry_rotation` | as `registry` | finding: `RotatedTokenIsDead` is violated |
| `salt` | days 0..3, 2 handlers and the hourly task, 3 salts (95 000) | `OneSaltPerDay`, `SaltsRotate`, and `OldSaltsLeave` with fairness |
| `content` | 2 sites, 2 post ids, 2 slugs, 2 requests in flight, view counters up to 1 (130 000 up to symmetry) | `NoOrphans`, `OneRowPerSlug`, `OthersInvisible`, `DraftsInvisible`, `TenantIsolation` |
| `content_shop` | 2 sites, 1 product id, 1 slug, 1 configuration document, 2 requests in flight (101 500 up to symmetry) | `NoOrphans`, `TenantIsolation` |
| `selfcheck` | 1 counter, 1 fault, a window of 2 ticks, 2 losses for each server process (80 000) | `Throttled`, `NothingSwallowed`, `RisesAreFound`, and `StandingFaultsAreMailed` with fairness |
| `selfcheck_ping` | as `selfcheck` | finding: `MailDownReachesWatchdog` is violated |
| `retention` | 3 events of 2 sites, days of 2 ticks, clocks that are off by more than the clamp of one tick either way; retention of 2 ticks, chunks of 2 (38 000) | `ReportsWhole`, `CompareCountsOnce`, `ReportsAgree`, `SweepLeavesNothingOld`, and `OldRowsLeave` with fairness |
| `mailing` | 2 sites, 4 kinds of row, 1 edit, 1 submission, 1 kill, runs without bound (95 000) | `MailStaysHome`, `AnsweredMeansMailed`, `EachSiteForItself`, and `WeeklyReportsGoOn` with fairness |
| `backup` | 2 databases, 5 nights, 2 daily, 2 weekly and 1 monthly copy, weeks of 2 and months of 3 nights, 1 run that is cut off (2 054 000 up to symmetry) | `QuietMeansRestorable`, `LastCopyGoesLoudly`, `SlotsHold` |

Why the bounds are enough. Every limit is reached inside them: four events overfill a
queue of 3 while a batch is out, batches of one and of two occur, a poisoned event
shares a batch with a good one before and after it, and more than one process life
happens because restarts are not bounded. An operator request and the refresh task
are enough for every order of two SELECTs around a change and of two cache writes,
and two sites with two tokens for a token to be moved, dropped and missed; that more
operators at once change nothing is what the proofs say, which hold for any set of
handlers. On days
0..3 a salt is today's, yesterday's, due and overdue; two handlers and the hourly
task give every pair of concurrent creators and every prune between two statements. Two tenants
with two rows and two slugs between them give equal slugs in one tenant and in two, a
rename onto a taken slug, and an id of the other tenant; two requests in flight let each
be overtaken by another writer as well as by the operator. In a window of two ticks a
stamp is new, older but within it, or past it; with two losses a counter is unpublished,
at its baseline, above or below it; and the problems of a run do not influence each
other, so that one counter and one fault show what each kind can do (`ServerFaults` is
empty in the run: both kinds of fault are treated alike, and the proofs cover both).

Three events fill one chunk and begin another, and leave a chunk that is exactly full;
a slow clock and a wait make rows that are old when they are inserted, a fast one rows
after the window. From tick 4 to 6 the window, its predecessor and the retention meet a day's edge
on either side, and a request for `days` 0 and one for 9 are clamped up and down.
`OnTheDay` and its complement both occur. In `mailing`, one edit exchanges an address,
takes it away, suspends or deletes; the tables at the start include a site without an
address and one that is not there; runs follow each other without bound. In `backup`,
five nights exceed each kind of slot: there are three daily copies from the third night,
a second month from the third and a third week from the fourth, so that weekly
and monthly slots are taken over and given up; the expiry of the bucket falls inside
as well. One run that is cut off leaves a directory without a dump or a manifest, or half
a copy in the bucket, on any night and at any step.

The safety properties are also proved for every value of the constants, so nothing
rests on the bounds there.

The content runs and `backup` use symmetry: sites, ids, slugs, documents, slots and
databases occur in the specifications only through equality, and no liveness is checked
there.

Bounds of the models themselves: `MaxViews` (no view is counted while some counter of
the table is there), `MaxCount` (losses one server process counts), `MaxDay` and
`MaxNow` (the clock stops there; in `Retention` it starts at `Start`), `MaxEdits` and
`MaxKills` (edits of the table and killed digest runs), `MaxCuts` (backups that are cut
off), the finite set `Requests` (each is sent once), the finite set `Tokens` and the
finite set `Salts` (when they are used up no further one is drawn, as none is ever drawn
twice).

Deadlock is checked in every run.

What would break each property: every property of a passing run is paired in
`PROJECT.json` ("mutants") with a variant of one definition, defined next to it and
named `Definition_Slip`, under which TLC finds it violated: a retry loop that starts
again after a success, a `recv_many` that drops what exceeds the batch, an exit that does not await the writer, a failed load that clears
the snapshot, an INSERT that overwrites instead of `ON CONFLICT DO NOTHING`, a prune
that keeps only today, a cache that ignores the day, a sweep that takes a full chunk for
the last, two windows that share a boundary, a mail error that is answered 201, a digest
that ends with its first failing site, a failed upload that is ignored, slots by age.

## Fairness

`Spec` of each module has none; the liveness properties are checked under `FairSpec`.

- `Ingest`. Weak fairness of the writer, of `ServeReturns` and of `ExitProcess`: tokio
  polls tasks that are ready. Weak fairness of a suspended handler to go on *or* be
  abandoned: the `TimeoutLayer` ends it after 15 s. Weak fairness of an INSERT to be
  committed, refused or reported unreachable: the acquire timeout and TCP bound it.
  None for clients, signals, crashes, lost replies or the supervisor's restart. So
  `AckedSettles` does not assume that the database is ever reachable.
- `SiteRegistry`. Weak fairness of the interval and of each reload; strong fairness of
  the refresh task's SELECT and of its cache write, which says that a database that
  fails again and again also answers again and again. `QuietCacheConverges` is about
  what happens when operators stop changing sites; nothing makes them stop.
- `Selfcheck`. Weak fairness of the timer's run and of its probes, each of which has a
  timeout; strong fairness of `Tick`, as time passes between runs however often they
  start; and for each fault strong fairness of an accepted mail about it: a mailer that
  refuses again and again also accepts again and again. None for kills, refused mails,
  failed writes, restarts or losses. `StandingFaultsAreMailed` is about a fault that
  stays while the runs mail and none is killed or fails to write any more.
- `Retention`. Weak fairness of the interval's tick and strong fairness of a DELETE that
  succeeds: a sweep that fails, or is cut off, again and again also succeeds again and
  again. None for clients, the writer, the clock or crashes.
- `Mailing`. Strong fairness of a run of the timer that is not dry (the one process slot
  is shared with runs by hand, which come and go), weak fairness of a run's steps, each
  of which has a timeout, and for each site strong fairness of a computation that
  succeeds in a run that mails, and of an accepted mail. None for the contact form, the
  operator, dry runs or kills, of which there are `MaxKills`. `WeeklyReportsGoOn` is
  about a site that stays due while a mail transport is configured.
- `DailySalt`. Weak fairness of the hourly tick and strong fairness of its DELETE, for
  the same reason. None for visitors: `OldSaltsLeave` holds on a server nobody visits.

## What is proved

The theorems hold for every set of requests and bodies, every capacity and batch size
above 0; every set of sites, tokens and handlers; every number of days, handlers and
salts; every set of checks and every repeat window; every set of events, clock skews,
retention, chunk and window; every set of sites, submissions, rows and edits; every set
of databases, number of daily, weekly and monthly copies, calendar and age limit.
Assumptions are named in the modules that declare the constants
(`RequestsFinite`, `BodyKnown`, `BoundsPositive`; `TickIsNoHandler`, `NoneIsNoToken`;
`PrunerIsNoCollector`, `NoSaltIsNone`, `MaxDayNat`; `ScopesDistinct`, `BodiesDistinct`,
`MaxViewsNat`; `KeysDiffer`, `RepeatNat`, `MaxCountNat`, `NoneIsNoNumber`; `DayPositive`,
`MaxDaysPositive`, `WeekNat`, `SkewsInt`, `LimitsNat`, `ChunkPositive`, `ClockInt`,
`RequestsTyped`, `NoneIsNoTime`; `SitesAreOrdered`, `RowsTyped`, `TablesTyped`,
`MeasuredAreSites`, `NamesDiffer`, `BoundsNat`; `CalendarPositive`, `KeepsTheLast`,
`AgesNat`, `BackupBounds`), and TLC evaluates them in the runs.
The inductive invariants and the type invariants (`IndInv`, `RegistryInv`, `SaltInv`,
`SelfcheckInv`, `PrunedInv`, `MailInv`, `BackupInv` and each module's `TypeOK`) are proved and
therefore not listed in the runs again.

**Ingest.** The safety properties are not inductive by themselves: that no event
vanishes when the retry loop ends needs to know that the loop's statement stored or
gave up its event; that no event is stored three times needs to know how often an event
further down the batch can have been stored already. `IndInv` adds

- `ControlShape`: a statement exists iff the batch is not empty; a stopped writer means
  no sender is left, hence an empty queue and no handler under way;
- `StatementOutcome`: a committed statement's events are in the table; a failed single
  has its reason on record;
- `RowsSoFar`: an event in the queue has no row; one in the batch has none before the
  batch's statement, and after that at most one, and only if the reply was lost.

`Inductive` gives `Spec => []IndInv` with one lemma per kind of step, and
`NoEventVanishes`, `PlacesExclude`, `PoisonIsIsolated`, `AtMostTwice` and
`ExitIsLossless` follow. `Refinement` is `Spec => Contract!Spec`: the mapping sends each
request to its fate (`FateOf`), and `ContractStep` shows that each step is a step of the
contract or a stutter, e.g. a batch commit is one `Store` of the events not yet stored.

`CountersAreExact` is about cardinalities of sets that the steps change. A step counts
one request at most (`OneMore`), except for a restart, which forgets the counters
together with what they counted. That nothing of an earlier life is counted in a later
one is `OldSettled`: an earlier request has its answer and is not in memory any more.
That the closed-channel counter stays 0 is `ControlShape`: the writer does not stop
while a handler runs.

`ProgressTheorem` is about what an acknowledged event still waits for. `Waits(r, n)` says
that the writer holds r and that n bounds its steps until r is settled: three for each
statement of the retry loop up to r's own, and for an event in the channel seven for each
event before it, as a batch may fail and be tried one by one. Every unsettled event has
such a number (`AckedWaits`), no step of anybody raises it (`StillWaits`), and fairness
makes it fall (`FairStepMoves`). `FlushTheorem` says the same of the whole process once
the listener is closed, `DrainTheorem` that what comes before ends. A number that keeps
falling reaches its end: `AckedSettles` and the second half of `ShutdownCompletes` follow
from these by induction over n, which is a step the provers lack (the induction would be
over a temporal formula), so that TLC's runs remain the evidence for it.

**SiteRegistry.** `RegistryInv` adds to the lag property that each loaded snapshot
differs from the table only in sites changed since its SELECT (`SnapshotLag`), that
every token in the table, the cache and every snapshot in flight is at the site it was
made for (`TokensAtHome`), that a replaced token never returns to the table
(`DeadTokens`), and that an empty registry was read from an empty table (`EmptySeen`).
Proved from it: `LagTheorem`, `TenantTheorem`, `DeadTokenTheorem`, `GateTheorem`.

What the other modules need of the registry is `RegistryContract`. A reload may install
what a SELECT has read long ago, so the contract remembers in `past` what the table has
held in this life of the process; `HistorySpec` is the specification with that history
variable, which constrains nothing. `SnapshotsWhole` says that the snapshot and every
load in flight is a member of it, and `RegistryRefinement` that every step, of an
operator, a reload, a failure or a restart, is a step of the contract or a stutter.
`ConvergenceTheorem` needs one fact more than the invariant: while nobody changes sites,
a snapshot that equals the table stays equal, and the task's next SELECT and cache write
make it equal (`QuietSteps`).

**DailySalt.** `SaltInv` says that a handler belongs to today or yesterday and, past its
SELECT, holds the stored salt of its day (`TaskShape`); that a recent cache entry is the
stored salt (`CacheShape`); that recent days were hashed with their stored salt only
(`UsedShape`); and that every salt was drawn for one day (`DrawnShape`). Proved from it:
`OneSaltTheorem`, `RotationTheorem`, `CacheTheorem`, and the action property
`RecentTheorem`. `SaltRefinement` is the sum of them: to a handler that hashes, the cache,
two statements that overlap with others, prunes and restarts are one read of the table at
that moment. This is what lets `Statistics` take a visitor hash for the visitor and the
salt of a day. `OldSaltsTheorem` follows a tick that was under way when the salt became
old: its prune may spare it, the next one does not.

**Content.** The invariant adds `ScopesHonest`: a request in flight has the scope of its
own token or none, in open mode `Unconfigured`, and a site_config writer has been
authorized. One lemma per statement (`CreatedRespects` and so on) says that it keeps the
table typed, slugs unique and owners registered, that it changes rows of the request's
site only, and that without the right to write it changes nothing. `ContentTypeCorrect`,
`ContentHasOwner`, `AddressesUnambiguous` and the action property `TenantsIsolated`
follow. `ContentOverRegistry` composes the endpoints with any registry that keeps its
contract, and shows that what comes out is `Content`: its operator, reload and restart
are what the contract allows, no more and no less than the endpoints can see. Together
with `RegistryRefinement`, what is proved here holds beside `SiteRegistry`, of which the
foreign keys (`NoOrphans'` in `RegistryMoves`) are the only thing that the content adds.
`OthersStayInvisible` and `DraftsStayInvisible` are about answers: a table
without the rows of other tenants, or without drafts, answers every request the same.

**Selfcheck.** The properties relate what a run finds to what was told and read by runs
before it, so `SelfcheckInv` says how the state file remembers that: a run's memory is
empty once it has ended (`RunShape`); a baseline is at least the last saved reading of
this server process, and equal to it once that was above zero (`BaselineShape`); a
stamp never claims more than somebody was told, and what somebody was told of has left
its stamp, unless the problem was gone since, the run could not save or the file was
lost (`StampShape`). `SelfcheckInductive` gives the invariant, with one lemma per
conjunct; the action properties `ThrottleTheorem`, `SwallowTheorem` and `RiseTheorem`
follow from it. `StandingProgress` is about a fault that stays: runs come to their alert
again and again (`RunsGoOn`, the seven places of a run in a circle), each of them has found
the fault by then (`OnTrack`), the number of ticks until it is due falls and nothing but
telling of it raises that number (`DueIn`, `DueSooner`), and at 0 it is mailed.

**Retention.** That a report within the retention misses nothing is not inductive: it
needs to know where the cutoff of a running sweep came from. `PrunedInv` says that the
cutoff is not ahead of `now - KeepFor`, as the clock has not gone back since, so that
what a sweep has removed is older than the retention by the present clock
(`PrunedInductive`). `ReportsTheorem` follows because every answer looks at the rows of
one site in one window only, whose beginning is no earlier than that; for a report its
lemma says so of `Summary`, which reads the table twice, and for the rest of `Scoped`.
`CompareTheorem` shows that the pageviews and events of the doubled window are those of
the two windows, which are disjoint and leave no tick between them, for finite tables
(finiteness is part of `PrunedInv`). `AgreeTheorem` is about sums, which the model takes
with a fold that no prover can look into; what is proved of it first is that a sum is
the measure of which each element adds its value (`SumIsMeasure`, by a smallest
counterexample, as there is no induction over data) and that the rows of a finite table
are the sum of its groups, whatever it is grouped by (`GroupsAddUp`). Then hours, days
and channels are groups of the same rows, and the visitors of a day are those hashes
that carry its salt, so that those of two days are disjoint (`HashesOfDays`).
`SweepTheorem`: a chunk that is not full took all that was old, whatever was inserted
between the chunks. `SweepProgress` measures the way to an old event's removal by the
events that no sweep has removed yet. A deletion makes them fewer, because what was
removed is never stored again (`Once`, inductive); a sweep that began too early to take
the event for old ends, and the next one does take it (`Sees`).

**Mailing.** `MailInv` says what a submission and a run hold between their steps: a row
under which the site was active at some time (`Genuine`), which sites are still to come
and that none of those has been mailed unless it is the one at hand, and that a run with
work before it has mailed every other site it owes a mail (`RunInv`). From it follow
`MailStaysHomeTheorem`, `AnswerTheorem` and `EachSiteTheorem`. One lemma for each kind of
step of the digest keeps `RunInv`, one for the contact form `ContactInv`. `DigestProgress`:
the steps that a run may still take, at most three for each site to come (`StepsLeft`),
fall whatever fails. `SiteProgress` takes `WeeklyReportsGoOn` apart for a site that is
due: runs that end start again with the site before them, a run that mails comes nearer to
it until it is killed, and a site that runs come to again and again is mailed again and
again. Both assume finitely many sites, and `SweepProgress` finitely many events, as
theirs is a number that falls: the tables are finite.

**Backup.** That a quiet night can be restored from depends on what each run has done by
each of its places, and on what earlier ones left behind, so `BackupInv` says that every
number is that of a run that has begun (`Bounds`); what a run that is going on has
dumped, failed at and shipped (`RunShape`); that a unit which is well and remembers
vouches for the copy of the newest run, as a failed one stays failed (`QuietShape`); and
that a run which ended with 0 has every dump and that `left`, all directories that ever
stayed behind, has each slot filled by one that is still there (`KeepShape`).
`QuietTheorem`: the bucket is emptied from its oldest end, so while anything is fresh the
newest copy is. `SlotsTheorem`: what is among the newest n of all runs is so among those
that are left (`NewestOfPart`), so that pruning what a prune has left loses no slot
(`SlotsPrune`). `LastCopyTheorem`: a directory that is pruned is not among the newest
`KeepDaily`, which are therefore that many (`NewestAreMany`), and had any of them ended
well, it would hold the dump. The greatest of a bounded set exists by the library's
well-foundedness of `<` on `Nat`.

**Ready.** The theorems about progress (`ProgressTheorem`, `DrainTheorem`,
`FlushTheorem`, `SweepProgress`, `StandingProgress`, `DigestProgress`, `SiteProgress`),
`ConvergenceTheorem` and `OldSaltsTheorem` are theorems of `FairSpec /\ []Ready`.
Fairness speaks of steps that are ENABLED, which the provers cannot look into; `Ready`,
stated beside `FairSpec` in each of the six modules, says that a fair step is enabled
where its guard holds, and nothing else. It is true of every reachable state: added to
the INVARIANTS of `ingest_live`, `registry`, `salt`, `retention`, `selfcheck` or
`mailing`, TLC finds it so (74 000, 57 000, 95 000, 38 000, 80 000 and 95 000 states).
It is a hypothesis of the theorems and no property of the program, therefore none of the
runs'.

**Only model-checked.** Five liveness properties: `AckedSettles`, `ShutdownCompletes`,
`OldRowsLeave`, `StandingFaultsAreMailed` and `WeeklyReportsGoOn`. The theorems about
progress say that a number falls until what they are about has happened; that it cannot
fall for ever is an induction over temporal formulas, which these provers do not do. For
`WeeklyReportsGoOn` it is also left to TLC to put the three parts of `SiteProgress`
together, with the bound `MaxKills` on runs that are killed.

## Where code and documentation disagree

Each is a run that TLC ends with a counterexample, and an entry of `findings`.

1. `registry_rotation`. "a rotated token is dead on this node before the new one reaches
   the caller" (`sites_api.rs:5-7`). `sites::refresh` overwrites the snapshot with
   whatever its SELECT returned, however long ago: the 60 s task may SELECT before the
   rotation and install after the handler's own reload. The old token works again, and
   the new one does not, until the next refresh. What does hold is
   `DeadTokenNeedsLapse` and `QuietCacheConverges`.
2. `selfcheck_ping`. The watchdog's `/fail` "matters when the reason for the failure is
   also why email is down" (`selfcheck.rs:432-434`). A refused mail leaves `run` through
   `?`, before the state is saved and before the watchdog is called: it hears nothing.
   What does hold is `NothingSwallowed`: the next run finds and mails the same again.
Smaller ones have no run of their own.

- "open mode and multi-tenancy never coexisting — is already guaranteed"
  (`state.rs:34-37`): a start without `ADMIN_TOKEN` after tenants were registered has
  both. What open mode may then read and write is in `TenantIsolation` and
  `DraftsInvisible`.
- "Alert when a lost-event counter has gone up since the previous run"
  (`selfcheck.rs:215`): a run that meets the restarted server before its first loss finds
  the counter unpublished and keeps the old process's baseline; later losses up to it
  are not reported. `RisesAreFound` says what holds: once a saved run has seen the
  counter above zero in this process, every rise is reported.
- "So the failure counter reflects rows actually lost" (`ingest.rs:66-67`): after a lost
  reply it also counts an event that is stored. `CountersExact` says what it does count,
  the events given up.
- "Once a day's salt is gone, its visitor hashes can never be recomputed" (`salt.rs:4`):
  the cache keeps the last salt until the next visit replaces it.
- `ever_measured` (`digest.rs:74`) selects by a column `site`, where the table has
  `site_id` (`0001_init.sql:72`): the query fails for every site, the error path sends,
  and a tenant that was never measured gets the "weekly table of zeros" that
  `digest.rs:60-64` promises to spare it. `EverMeasured` models the failure.
- "a transient database hiccup must not silently stop a paying tenant's weekly report"
  (`digest.rs:112`): the opt-out query, true; a failing `compute` or `sites::load` does
  drop the report of that week. `EachSiteForItself` counts it as the site's own error.
- The digest and a comparison look back two windows, which a `RETENTION_DAYS` below 14,
  or below twice `days`, cuts off; `ReportsWhole` is about windows within the retention.
- `dullahan-backup-freshness.sh:2` speaks of the newest off-box backup, and lists the
  names of directories: an upload that was cut off counts as fresh. What keeps
  `QuietMeansRestorable` true is the unit of the run that failed, and a reboot clears
  that (`forgotten`). Runs named with a `-2` (`dullahan-backup.sh:92-98`) match neither
  its pattern nor the drill's.
- "visitor_hash already encodes the UTC day" (`db.rs:290`): the salt's day is the
  server's at `/collect`, the bucket's is the client's clamped clock; the two agree for
  `OnTheDay` only.
- "Precedence: ... organic search > social" (`channels.rs:63-64`): of two brand labels in
  one host the first one decides, whichever kind it is.

## What is abstracted, and what is not modelled

- *Ingest.* A body is one of four kinds: it does not parse, fails `validate`, is good, or
  is one that `validate` accepts and Postgres refuses. Whether the registry admits the
  site and whether the handler has to await the salt are free choices here;
  `SiteRegistry` and `DailySalt` model them. An INSERT that the writer reported failed
  because the connection broke is committed before the report, if at all; one that the
  server commits after the writer has gone on is not modelled. A request of which the
  body is not read in time, or that the rate limiter refuses, never arrives. While
  draining, requests that were already being read still arrive.
- *SiteRegistry.* Names, domains and mail addresses of a site. A request that is refused
  changes nothing and is no step. Whether the foreign keys let a site be deleted is a
  free choice. A statement whose handler was dropped may take effect after the process
  restarted: that is a `Create` (and so on) followed by `Cancel`. Rows without a token,
  which only a `psql` session can make, are left out.
- *DailySalt.* The clock does not go back, and no handler lives from one midnight to the
  next (the 15 s timeout). Which visitors and sites were hashed is left out, only with
  which salt.
- *Content.* A body is one that the handler accepts or one that it refuses; of a row only
  its site, slug, draft flag and view counter are kept. Paging and order are left out, and
  a list is one answer although its page and its total are two statements that a write
  may separate: nothing promises that they agree. `GET /site-config/:site` shows the
  document to everybody and consults nothing. A statement whose handler was dropped may
  still commit: that is the statement before the `Release`.
- *Selfcheck.* A fault is there or not, whatever made its probe say so: a `df` or
  `systemctl` that cannot answer is a fault that is away. Counters and faults are
  independent. Printing (`--dry-run`) and logging (no mailer) count as telling, since
  they stamp like a mail. A state file that cannot be read for a moment is a lost one.
  One run at a time: systemd starts no second one, and one started by hand beside it is
  left out. The clock does not go back, and no time passes within a run.
- *Statistics.* Each query is one statement on one table; a comparison and a digest are
  several, between which rows may come or go, and the models ask them at one time. Texts
  are values, a referrer its host's labels. Which row of equal counts a `LIMIT` keeps is
  left open. A query that fails is a 500 and changes nothing.
- *Retention.* The clock does not go back, and the database has the server's. How an event
  gets from the handler to the table is `Ingest`'s. A server without `RETENTION_DAYS` has
  no sweeps.
- *Mailing.* A body is valid or not; of a row only what decides about mail is kept, and
  an edit puts any row in another's place. A reload installs any content that the table
  has had (`SiteRegistry` says which it can be). Whether a site was measured does not
  change. Runs by hand, dry or not, share one process slot with the timer's: two at a
  time would mail twice, as nothing remembers that a report was sent.
- *Backup.* One run for each night, named by it. Files are whole or no dump: `pipefail`
  and the size check are one outcome. `rm -rf` of one directory is one step, and a prune
  may be cut off between two. A run without `RCLONE_REMOTE` ends with a warning and has
  no off-box copy to be about. The bucket's lifecycle rule is assumed not to be shorter
  than `MAX_AGE_HOURS` (`AgesNat`).
- *Not modelled:* deployment and rollback (see the plan); the rate limiter (a library) and
  the client's address (a pure function); configuration parsing, CORS and headers, HTML
  rendering, the installation scripts and `register-site.sh` (no state that the program
  reads again, or none that is not another module's); the restore drill beyond the choice
  of its copy.

## Plan

In this order; done so far: 1 to 9.

1. `IngestContract`, `Ingest`, with proofs and refinement. The write path is what the
   server is for.
2. `SiteRegistry`, with proofs. Everything else trusts its snapshot.
3. `DailySalt`, with proofs.
4. `Content`, with proofs: tenant isolation and what answers may depend on.
5. `Selfcheck`, with proofs: baselines, throttle and state file against counters that
   restart.
6. `Statistics` and `Retention`, with proofs: reports of a table that is swept.
7. `Mailing`, with proofs: contact form and digest.
8. `Backup`, with proofs: the nightly run with a failure anywhere.
9. Proofs of `CountersExact` and `ReportsAgree`; contracts of the registry and the salt,
   with proofs of refinement and the composition of `Content`; proofs of progress in
   every module that states fairness.
10. `Mailing` over `RegistryContract`, as `Content`.
11. `Deploy`: keep, swap, restart, probe, roll back, cut off anywhere.

## Running the checks

    tlasany Ingest.tla
    tlc -workers 2 -config MCIngest.cfg MCIngest
    tlapm IngestProofs.tla
