# Formal models of Rezo Taxi Core (APITaxi)

APITaxi connects customer applications (*moteurs*) with taxi operators
(*opérateurs*). A customer application searches for taxis near a place, sends a
**hail** to one of them, and follows it until the ride ends. This directory
holds TLA+ specifications of the parts of the system where processes compete, or
where a sequence of steps may be interrupted: the life of a hail, the positions
of taxis, their registration, the forgetting of old data, statistics, backups and
the replacement of the database. They were translated from the Python sources,
are checked by TLC on small instances, and the safety results are proved by TLAPS
for every instance.

## 1. The system

### 1.1 Processes and shared state

| Process | Code | Shared state it touches |
|---|---|---|
| API workers (Flask) | `APITaxi2/views` | PostgreSQL, Redis, the Celery broker |
| Celery workers | `APITaxi2/tasks` | PostgreSQL, Redis, the operators' HTTP APIs |
| Celery beat, commands | `tasks/clean.py`, `tasks/stats.py`, `commands/` | PostgreSQL, Redis |
| Host scripts | `deploy/`, `scripts/maintenance/` | Docker, volumes, backup files |
| The operator's PC | `scripts/maintenance/pull_backups_to_operator.py` | backup files, receipts on the server |

PostgreSQL runs at READ COMMITTED. Requests and tasks talk only through rows,
Redis keys and Celery messages. A message is sent after the commit that makes it
meaningful, by the same process, with no outbox in between.

### 1.2 Components

| Component | State | Operations | Hard behaviour | What makes it correct |
|---|---|---|---|---|
| Hail state machine (`services/hail_state_machine.py`, `processes/hails.py`) | `hail.status`, `hail.transition_log` | user transition, timeout transition, replay of an event id | duplicate requests, late timeouts | terminal is final, an event id acts once |
| Hail views (`views/hails.py`) | hail, vehicle description, customer | create, update, list | two creations on one taxi; work after the commit | one active hail per taxi; each route shows a reader the same |
| Operator tasks (`tasks/operators.py`) | the same rows, Celery messages | send the hail, hand it off internally, time out | an unlocked read before an HTTP call, a write after it; redelivery; death of a worker | every active hail is watched, and ends |
| Redistribution (`services/hail_reassignment.py`) | the hails of a session | pick a candidate, insert the next hail | concurrent refusals; candidates nobody locked | never a taxi already contacted, never too many |
| Taxi status and search (`views/taxis.py`) | `vehicle_description.status`, identifiers in Redis | driver's status, suspension, search | against creation; shared vehicles | a taxi under a hail is not offered; what is offered can be hailed |
| Positions (`views/geotaxi.py`, `redis_backend.py`, `tasks/clean.py`) | five Redis keys per position | receive positions, clean | several commands that are not one transaction | indexes agree with the timestamps |
| Retention (`clean_db.py`) | hails, taxis, positions | count, blur, delete | read here, delete there, later | nothing old is precise, nothing is deleted uncounted |
| Statistics (`tasks/stats.py`, `stats_backend.py`, `views/stats.py`) | `stats_*` tables | counts of active taxis, archive of hails, figures | several operators per taxi, ends of months | the tables and the figures add up |
| Customers (`views/customers.py`, ban part of `views/hails.py`) | `ban_begin`, `ban_end` | report, lift, edit | two reports at once | a report never shortens a ban |
| Registration (`views/ads.py`, `vehicles.py`, `drivers.py`, `taxis.py`) | ADS, vehicle, driver, taxi | get or create; removal of orphans | two identical requests, a removal in between | no duplicates; a taxi stays complete |
| Exclusions, ZUPC (`exclusions.py`, `views/zupc.py`) | tables, a per-process cache | edit, reset, query, count taxis | staleness between processes | an edit reaches every worker |
| Users, sessions, security | users, API keys | log in, check a key | none: stateless per request | access only with the role |
| Activity logs, observability, redaction | logs | append | the activity log commits on its own | a log describes what happened |
| Configuration | settings | validate at startup | boundary values | limits consistent |
| Backups (`deploy/backup_taxi_core.py`, `pull_backups_to_operator.py`) | archives, proofs, receipts | create, rotate, pull | interrupted transfers | a receipt stands for a verified copy |
| PostgreSQL cutover (`deploy/maintenance/cutover_postgres.py`) | containers, volumes, jobs, marker files | stop, copy, switch, roll back | interruption at every step | no write is lost, no rollback after exposure |

`PROJECT.json` lists the hazards found in this code, each with its line and the
properties that address it.

## 2. Modules

| Component | Module (EXTENDS) | Instance for TLC | Proofs |
|---|---|---|---|
| Hails | `HailStatus` (tables of statuses, permissions, effects, timeouts); `HailDispatch` (all processes that read or write hails and descriptions); `HailDisclosure` (what a reader is shown; EXTENDS `HailDispatch`) | `MCHailDispatch` | `HailDispatchProofs` |
| | `TaxiBooking`: what dispatch promises, one slot per taxi, booked only when empty; implemented by `HailDispatch` and by `RowLocks` | | |
| | `RowLocks`: the same transactions, cut into the locks they wait for; deadlocks | `MCRowLocks` | `RowLocksProofs` |
| Customers | `Customers`: the clock and the open requests the next two share; `CustomerBan`: the ban of one customer | `MCCustomerBan` | `CustomerProofs`, for both |
| | `CustomerSearch`: identifiers of a search, sessions, the hails of one customer | `MCCustomerSearch` | |
| Positions | `Positions`: Redis keys, reports, cleaning, readers; `ActiveTaxis` (the counts of active taxis; EXTENDS `Positions`, `Sums`) | `MCPositions` | `PositionsProofs` |
| Registration | `Registration`: get or create of five tables, removal of orphans | `MCRegistration` | `RegistrationProofs` |
| Retention | `Retention`: count, blur, delete | `MCRetention` | `RetentionProofs` |
| Operation | `Backups`: create, rotate, pull; `PostgresCutover` (EXTENDS `Backups`) | `MCBackups`, `MCPostgresCutover` | `PostgresCutoverProofs`, for both |
| Statistics | `Statistics`: milestones and figures as operators over rows (EXTENDS `Sums`) | `MCStatistics` | `StatisticsProofs` |
| | `Sums`: the sum of a table's numbers, as the size of a disjoint union | | |

### 2.1 How steps correspond to code

**`HailDispatch`.** A transaction that locks every row its decision depends on is
**one step**, placed at its commit: `POST /hails` from its `with_for_update`
(`CreateHail`), `PUT /hails/:id` (`PutStatus`), `handle_hail_timeout`
(`TimeoutFires`, `TimeoutIgnored`), `PUT /taxis/:id` (`DriverSetsStatus`). A
transaction that decides on rows it does not lock is **two steps**:

* `send_request_operator` reads hail and description (`SendBegin`, or
  `SendIgnored` when the hail moved on), talks to the operator for as long as it
  takes, and writes (`SendCommit`). SQLAlchemy writes the attributes that were
  set to a value other than the loaded one, so the step writes the status and
  the whole transition log, but leaves a description alone that it read `free`.
* `reassign_after_driver_unavailable` locks the hails of the session and picks a
  candidate (`ReassignBegin`), then inserts (`ReassignCommit`). The locked rows
  are remembered; every other write to them waits (`RowLocked`).

What a process does **after** its commit is a step of its own, taken from
`pending`: `EnqueueSend`, `ScheduleTimer`, `ReassignBegin`, `ReassignRefused`.
The code reads the status again there (the commit expired the object), and so
does the model.

| Variable | Code |
|---|---|
| `status`, `booking`, `events` | columns of `hail`; `events` holds the log entries that carry an event id |
| `vdStatus` | `vehicle_description.status` |
| `queue`, `timers` | Celery messages `send_request_operator`, `handle_hail_timeout` |
| `sending`, `reassign`, `pending` | local state of a running task or request |
| `applied`, `crashes` | history of the model: times an event id acted; processes lost, or ended by a malformed reply |

`timers` is a set, and a message may stay in it after it was handled: that is
the broker's redelivery. A timeout may fire at any moment after it is armed,
which includes every countdown the settings allow.

**`HailDisclosure`** adds no state: it states, for a user and a hail, what each of
the places shows (`GET` and `PUT /hails/:id`, the list, `/sessions`, the message to
the operator, and for the hail's taxi the search and `/taxis`), and on which of the
three routes the hail is found. Each schema has its own copy of the rules for the
taxi's identifier and its operator, and each copy is an operator of its own
(`HailTaxiId`, `ListTaxiId`, `SessionTaxiId`, ...).

**`RowLocks`** opens these steps up. A transaction is a kind and a hail: creation and
redistribution insert, `PUT /hails/:id` and `handle_hail_timeout` change, and
`send_request_operator` sends. `todo[x]` lists the row locks and index keys that
`x` has still to take, in the order of its statements, `holds[x]` those it has;
`Ends` gives all back. What the transaction does to the rows happens at its
commit. The order of a flush is SQLAlchemy's choice where no foreign key fixes
it: hail and description of a failing `send_request_operator` come in either
order. Waiting for a unique key is waiting for whoever inserted it, so a key is
a lock as well; when it is granted, PostgreSQL looks at what was committed
(`KeyIsUnused`) and raises (`ViolatesIndex`) or goes on. The deadlock detector
aborts one member of a circle (`DeadlockAborts`). `hail`, `on` and `session` are
the status (as far as locks depend on it), taxi and session of a row, `desc` is
the description, and `pc`, `aim`, `new` are a transaction's outcome, taxi and
inserted row.

**`CustomerBan`** has one customer, and names its own `BanSpec`, `BanInit`,
`BanNext` because the proofs read it beside `CustomerSearch`; `Reportable` are the
hails that may be reported. `PUT /hails/:id` reads the customer in the statement
that locks hail and description, but does not lock him (`of=(Hail,
VehicleDescription)`); when that statement had to wait, PostgreSQL reads the locked
rows again and leaves the others as they were. So `PutBegins` takes `seen`,
`PutLocks` waits for the hail, and `PutCommits` compares the report with the hail as
it is now and computes the ban from `seen`. A commit writes the columns that differ
from what was read (`Changed`); SQL expressions like `NOW()` are always written.
`at` is the start of the transaction, which is what `NOW()` gives. A hail never
reported has `reporting` NULL, so that even a `false` is a change and lifts the ban.
`ban` and `reporting` are columns, `now` the database's clock, `open` the requests
under way with what they have read.

**`CustomerSearch`.** A search stores its identifiers with `HSET` (`SearchStores`),
gives their key its time with `EXPIRE` and answers (`SearchAnswers`): `found`,
`fakes`, `expiry`. `POST
/hails` resolves the identifier, the session to join (any session of the same
customer that the company names; if it names none, that of a hail of less than five
minutes ago, or a new one) and then commits (`post`, `hail`).
Redistribution follows a refusal (`refused`) within `MaxLag`. The clock counts
minutes.

**`Positions`.** A Redis command, or a MULTI/EXEC pipeline, is one step. `hash`,
`geoindex`, `geoindex_2`, `timestamps` and `timestamps_id` are the five keys;
`sending` is a request of `POST /geotaxi` between reading its clock and executing
its pipeline; `cleaner` runs the four commands of `clean_geoindex_timestamps`
(`ZREMRANGEBYSCORE` and `ZINTERSTORE`, for each of two pairs of keys), and may die
between any two (`losses`). The search (`search`) reads a place's neighbours, then
their dates, then rows; `POST /hails`, `PUT /taxis/:id` and the statistics read
other keys. `status`, `updated`, `radius`, `hailed` are what the rows hold, `sent`
the reports so far. **`ActiveTaxis`** adds what `store_active_taxis` keeps of these
entries (`Kept`, `ToLog`), the six tables it fills, and what the pages that read them
answer (`zupc_list`, `zupc_live`, `get_realtime_connected_taxis`).

**`Registration`.** Each `POST` of `/ads`, `/drivers`, `/vehicles`, `/taxis` is a
read (`Posts`) and a commit (`Commits`, or `Fails` when a unique or foreign key
refuses it). `rows` are the five tables, `last` their sequences, `request` what an
open request has read, `told` what an operator was answered. `delete_old_orphans` reads
the ids of orphans of a table and deletes them in a second statement (`clean`).
`check_duplicates` and `check_sharing` are the queries of the command `check_db`,
`taxis_list` that of `GET /taxis/all`.

**`Retention`.** The clock counts days. `CountBegins` and `CountEnds` are the archive
of hails in `stats_hails` (a read of what was counted so far, then the insert);
blurring of hails is one statement, blurring of positions and the deletion of
taxis read first and write later, one key or row at a time (`blurring`,
`deleting`). `exact` are the parts of a hail that are not blurred yet, customer's
place, taxi's place and private details: `blur_hails` leaves a place that is in no
town. `behind` counts the days on which the task did not run.

**`Backups`.** A backup writes its archive, then its proof, then rotates; the server
lists what may be pulled; the PC transfers an archive and its proof, verifies both,
and sends a receipt (`backup`, `archive`, `sidecar`, `copies`, `proofs`, `pulling`,
`receipt`). Server and PC refuse a list with an archive, a number of rows or a
number of bytes above the limits (`IsWithinLimits`). Either side may die between two
steps (`faults`).
**`PostgresCutover`** adds the run of `--execute` with its own backup: `step` is
where it is, `web` and `tasks` what runs, `served` the volume PostgreSQL serves,
`data` what each volume holds, `jobs` Timescale's jobs in each. A step may
fail, which rolls back as far as the code does, or the program may die, after which
it is run again. `chosen`, `abandoned`, `content` and `byApp` are history.

**`Statistics`** takes arbitrary rows of taxis and hails on chosen days (`today`,
`taxi`, `hail`), changes them one at a time, and compares the queries of
`views/stats.py`, as operators, with what the figures mean: the answers of
`/stats/taxis` and `/stats/hails`, the fleets, the map, and the taxis and hails of
conurbations on the public page. Dates are `<<y, m, d>>`; an average is its sum and
what it is taken over, so that no rounding enters.

### 2.2 Abstractions

* Rows are numbered in creation order (`IsNext`); the code draws random ids.
* In `HailDispatch`, whether a taxi is near, fresh and allowed in the place is the
  environment's choice: `ReassignBegin` may take any free taxi not yet contacted
  and `ReassignRefused` may always find none. The code takes the nearest.
* The phone number `accepted_by_taxi` needs is assumed to be in the request, so
  the model takes that transition whenever the code may.
* Transition log entries without an event id are left out: only ids are read.
* After a `PUT` to `finished` or to an incident, nothing follows the commit, and
  no continuation is recorded: these statuses are reached
  only after the operator task is over, so nothing can change them any more.
* Past the bound on hails, a reassignment under way raises (`ReassignRaises`)
  as it does when the index refuses it.
* `RowLocks` keeps of a status whether the hail is received, reached, refused
  (redistribution may follow) or closed, gives each taxi a vehicle of its own,
  and does not follow Celery messages: a send or a redistribution may begin
  whenever its hail is in the right status.
* In `CustomerBan` time is counted in parts of a day. A request lasts less than
  one part: it may straddle one tick of the clock.
* In `Positions` a position is its distance from the one place where customers
  stand; a report lasts `MaxDelay` at most between its clock and its pipeline.
* In `Registration` an operator has one ADS number, one licence and one plate.
* In `HailDisclosure` readers keep their roles.
* In `Backups` an archive is complete or not, and a proof is true when it was
  written whole; `age` encryption and SHA-256 are what makes that so. In
  `PostgresCutover` a volume is the set of writes it holds, the rehearsal is one
  step that succeeds or fails, and the PC answers between two steps.

### 2.3 Environment

What the environment may do is a constant, not a simplification: the theorems hold
for all values, unless one names an assumption, and a run that excludes a value
says so.

| Module | Constants |
|---|---|
| `HailDispatch` | `AskedOfHail`, `AskedOfTaxi`: statuses users and drivers ask for. `CancelWhileSending`: may customers cancel while the operator's API is being called. `MalformedReplies`: may an operator answer JSON of a shape that raises. `MaxCrashes` |
| `RowLocks` | `CancelWhileReceived`: may customers cancel a hail whose operator was not reached |
| `CustomerBan` | `EditLengths`, `EditFields`: bans a company sets, and which dates its requests contain |
| `CustomerSearch` | `ResumesSessions`: do companies name sessions. `LeavesSessions`: may one name another session while a refused hail waits for its redistribution. `Straddles`: may the clock tick between `HSET` and `EXPIRE`. `OneAtATime`: does a customer hail only when none of his hails is open. `Overlaps`: may he hail while a refusal is redistributed. `MaxLag`: how long a redistribution waits |
| `Positions` | `InTurn`: does an operator wait for the answer to a report. `Declared`, `Owner`: operators that declare a taxi, and its own. `Allowed`: taxis licensed in the place. `MaxDelay`, `MaxLosses` |
| `Registration` | `Veteran`: operators with registrations of long ago. `Impatient`: those who give up. `NamesVehicle`, `KnownTown`, `Departements` |
| `Retention` | `InTwoTowns`: hails where two towns' shapes overlap. `InNoTown`: places of hails in no town. `MaxDelay`: days a request lasts. `MaxOutage`: days in a row the daily task may miss |
| `Backups` | `MaxFaults`: processes that die. `Sizes`: of archives |
| `Statistics` | `Place`, `TaxiOf`, `OperatorOf`: town, taxi and operator of a row, the first two perhaps unknown. `StatusOf`: statuses a hail may be archived with, any. `Duration`: hours until a timeout |

## 3. What is checked

### 3.1 Passing runs

| Run | Instance | States | Checks |
|---|---|---|---|
| `lifecycle` | 1 taxi, 1 hail, every status, 1 event id, no cancellation while the operator is called | 45,822 | `EventAppliedOnce`, `TaxiStatusFollowsHail`, `ReadersAgree`, `TerminalIsFinal`, `SharingEndsForGood`, `EveryHailEnds` |
| `redistribution` | 3 taxis, 3 hails, 2 attempts, 1 crash, internal operators, malformed replies, symmetry | 153,116 | `OneActiveHailPerTaxi`, `NoHailIsForgotten`, `AttemptsAreLimited`, `NeverContactedTwice`, `ImplementsTaxiBooking` |
| `locks` | 2 taxis, 2 hails with a transaction of each kind, a third hail by redistribution, symmetry | 22,506 | `DeadlocksTakeADescription`, `ImplementsTaxiBooking` of `RowLocks` |
| `reports_in_turn` | 2 hails, one request after the other, a day of 3 ticks, bans of the company of 3 or 4, clock to 5 | 9,261 | `ReportBansForADay`, `ReportProlongsTheBan` |
| `positions` | 1 taxi declared by 2 operators, 2 reports, 1 search, 1 cleaner that may die once, freshness 2, clock to 3, 1 ZUPC of 1 of the 2 towns | 348,992 | `FreshIsIndexed`, `OwnListedCanBeHailed`, `MinutesAreComplete`, `GroupsAddUp`, `StaleLeavesIndex` |
| `registration` | 2 operators with one plate between them, 2 requests at once, one taxi of long ago, one operator that gives up | 89,130 | `CheckDbFindsNothing`, `TaxiIsComplete`, `RegistrationEnds` |
| `retention` | 2 hails, one with its customer in no town, 1 taxi, 2 counting tasks at once, a delay and an outage of a day, clock to 3 | 830,976 | `CountedUpTo`, `CountedBeforeDeleted`, `NothingOldIsPrecise`, `SilentTaxisOnly`, `LeftoversGo` |
| `backups` | 3 backups of two sizes, one above the limit, 2 rows and 1 archive to a transfer, 2 processes die, clock to 2 | 303,937 | `ReceiptsAreTrue`, `EveryBackupReachesThePC` |
| `maintenance` | 2 runs of the cutover, 2 faults, one write of the application, Timescale's job and its successor | 335,492 | `NoWriteIsLost`, `FrozenCopyIsComplete`, `JobsAsChosen`, `ServiceComesBack` |
| `sessions` | 2 companies that use the same customer id, 2 taxis, 2 searches, 4 hails, 5 identifiers and hails together, clock to 3, symmetry | 1,129,304 | `SessionsAreOneCustomers`, `AnswersCanBeHailed`, `NoSecondTaxi` |
| `statistics` | 2 taxis, 2 hails, one in no town and of no known taxi, 2 operators, 1 conurbation, departements with one overseas, three days of two years that end a month, one a leap day | 6,157 | `MilestonesAreCounted`, `FiguresAddUp` |

* `TerminalIsFinal` and `EventAppliedOnce` hold as long as nobody changes the
  hail while `send_request_operator` runs. They are checked under that
  assumption; the first is refuted without it (3.2).
* `NeverContactedTwice` excepts hails the customer places by hand after the
  session's rows were locked; no code could know of them.
* `NoHailIsForgotten` states what liveness rests on: an active hail is in the
  queue, or in a running task, or has a timeout armed for its present status, or
  a process is about to provide one of these. It speaks of runs in which no
  process died and no reply made one raise (`crashes = 0`).
* `TaxiStatusFollowsHail` relates the two tables while a hail is active: the
  taxi reads `answering`, then `oncoming`, then `occupied`.
* `ReadersAgree`: as long as the taxi is described, a user finds a hail in the list
  just when he may read it, and in its session only if he could; the answers, made by
  each route's own rules, name the same taxi and operator and
  give the same numbers, and so do those about the taxi, the search's to a client and
  `/taxis`' to its operator. `SharingEndsForGood`: past the approach the taxi's
  position is not shared again, nor its vehicle's after the end.
* `ImplementsTaxiBooking`: the mapping gives each taxi the active hail it serves,
  or none. A step that replaced one hail by another, or made a hail active on a
  busy taxi, would be no step of `TaxiBooking`. In `RowLocks` the same is
  promised with each statement a step of its own: that a creation checked, locked
  and inserted is no longer assumed to be one step.
* `DeadlocksTakeADescription` says which transactions can be in a circle of
  waiting ones. Redistributions and changes alone never are: they take rows of
  hails (a session's in the order of their ids), then keys, then descriptions.
  Every circle contains a creation, which has the description first, or a failing
  `send_request_operator`, which may.
* The properties of `CustomerBan` hold for requests in turn, when the company's
  bans have both dates and last a day or more. Without one of these they fail,
  see 3.2.
* `FreshIsIndexed`: a position reported within the freshness is in all indexes,
  whatever the cleaners do and wherever they die; with a delayed pipeline, within
  the freshness less that delay for the keys shared between operators.
  `StaleLeavesIndex`: an old one leaves them. `MinutesAreComplete`: the statistics
  miss no report of the minutes they ask for, by the fast path or the slow one.
  `OwnListedCanBeHailed`: when a search answers, a hail to any taxi that it
  lists by its own operator's description would be accepted, although places,
  dates and rows were read one after the other and `POST /hails` reads other keys.
  `GroupsAddUp`: every taxi heard of is counted in one town and for one operator,
  the free ones of an operator in a ZUPC are those of its towns, and no page tells
  of more free taxis of all operators than of taxis.
* `CheckDbFindsNothing`: what `check_db` looks for is never there, two rows for one
  licence or a taxi made of another operator's ADS or driver. `TaxiIsComplete`: an
  operator's list shows each of its taxis once, although the list joins the taxi
  with a description nothing keeps there; the taxis inserted between the two
  statements of the removal of orphans may be missing, but are not there twice.
  `RegistrationEnds`: an operator of known places ends with its taxi.
* `CountedUpTo`: every hail up to the date of the last row of `stats_hails`, where
  the next task goes on, was counted, however late it was committed and whatever two
  tasks did at once. `CountedBeforeDeleted`: `delete_old_hails`, which does not look
  at `stats_hails`, deletes nothing it lacks, because it waits a year, and the
  count, a beat entry of its own (4:10, the deletion at 4:04), is not late for that
  long. `NothingOldIsPrecise`: two months after it came in, and the days the tasks
  may be late, the exact places of a hail are forgotten unless they are in no town
  (3.2), and so are its private details and the place of a position.
  `SilentTaxisOnly`: a taxi removed has not reported for a year, unless it did so on
  that very day, or `blur_geotaxi` replaced its last report. `LeftoversGo`: what a
  removal that died left in Redis goes once it is a year old.
* `ReceiptsAreTrue`: a receipt on the server stands for a copy and its proof on
  the PC. `EveryBackupReachesThePC`: a finished backup is pulled with its proof, unless it
  is rotated first or the server refuses to list: for a truncated proof or one without
  its archive, an archive or a backlog above the limits, or more than 64 rows (3.2).
* `NoWriteIsLost`: the volume PostgreSQL serves holds every write made so far, by
  the application or by a job, whatever failed or was rolled back.
  `FrozenCopyIsComplete`: while the new volume is prepared and until it is exposed,
  the PC holds an archive with every write of the application. `JobsAsChosen`: a
  run that passed or was rolled back leaves jobs as they were, unless an abandoned
  run preceded it. `ServiceComesBack`: a web that was stopped is exposed again,
  unless the run died or ended in a review.
* `SessionsAreOneCustomers`: the hails of a session are one customer's, though
  two companies use the same id for theirs. `AnswersCanBeHailed`: what a
  search answered can be hailed for an hour. `NoSecondTaxi`: a customer who hails
  again after a refusal, one hail at a time, is not sent a second taxi by the
  redistribution of the first, as long as that does not lag or overlap and the company
  names no other session meanwhile.
* `MilestonesAreCounted`: rows are matched with milestones by their order, and each
  figure is the one of its milestone all the same, at the end of a month too.
  `FiguresAddUp`: outcomes add up to the hails that have concluded (`HasConcluded`),
  departements and the map to the rows located in one (`Located`), and periods,
  groups, fleets, radii and the hails of each known taxi to all rows; the public
  figures of a conurbation lie between those of the administration for the same
  towns.

**Why the bounds are enough.** Conflicts about hails are between two: two customers
on one taxi, two refusals of one session, a reassignment and a customer. Two taxis
and two hails give each pair; the attempt limit is reached with a limit of two and
refuted, if it were off by one, by a third hail; three taxis leave a candidate that
was not contacted. One hail is enough for its own life cycle, where each status is
visited at most once. In `RowLocks` a circle of waiting transactions needs two hails
of one session (orders of rows) or two transactions about one taxi (rows, key,
description); two hails with every kind of transaction on each give both, and
circles of three as well. In `CustomerBan` a day of three ticks and a clock of five
leave room for a report during, at the end of and after a ban; the second hail lets
a second report come. In `Positions` no key relates two taxis, and two operators of
one taxi share `geoindex` and `timestamps_id`; a freshness of two ticks leaves room
for a position that ages while a cleaner is between two commands. In `Registration`
the two operators meet in the vehicle they share; two workers give every pair of
requests, and the removal of orphans may run beside them. In `Retention` a year is
two ticks: a hail can be counted, blurred and deleted within three, two counting
tasks can overlap, and a second hail can commit after one that was requested later.
Three backups with two kept exercise rotation, and two faults a death and one more
during the repair. A second run of the cutover after one that died meets everything
the first may leave; one write is enough to tell a complete volume from an
incomplete one. In `CustomerSearch` two hails of one customer and one of another
make every session that could be joined wrongly, and with a fourth a company can
name an older session while a refusal waits, the case `LeavesSessions` keeps out. In
`Statistics` two rows of each table can differ in every group; one hail may time
out, in less or more than an hour, in an hour or at no known time, the other be
counted while it still waits, both be declined; and the days are those where the
arithmetic of months and years could go wrong. The theorems of section 4 hold for
any bounds. Symmetry is used only in runs without liveness.

**Fairness.** Customers, drivers, operators and their reports need never act, and
nothing is assumed of crashes. Assumed is weak fairness of what workers do on
their own:

| Module | Fair actions | Why |
|---|---|---|
| `HailDispatch` | `SendBegin`, `SendCommit`, `TimeoutFires`, what follows a commit, a reassignment's end | a queued task starts and ends (`requests` has a time limit), an armed timeout is delivered, a process goes on |
| `Positions` | `CleanBegins`, `CleanGoesOn` | beat sends the task every ten minutes |
| `Registration` | a request ends; operators go on posting, or take a refusal. Strong fairness of `Posts` for an operator that is patient | a free worker comes again and again, for whoever waits in the queue |
| `Retention` | `DeleteTaxisBegins`, `DeleteTaxisGoesOn` | beat sends the deletion task every day |
| `Backups` | `PullBeginsOnce`, `PullGoesOn`, `BackupGoesOn` | the PC's timer, and processes that go on |
| `PostgresCutover` | `GoesOn`, `BackupRuns` | a script that was started goes on |

`CHECK_DEADLOCK FALSE` everywhere: with hails, time and writes bounded and users
free to be idle, a state where nothing remains to do is the normal end.

### 3.2 Disagreements between the code and its documentation

`terminal_overwritten` is a run TLC must find violated: "you cannot change the
status to another one" (`src/APITaxi_models2/hail.py:9`), but a hail cancelled
during the operator's HTTP request becomes `received_by_operator` again
(`operators.py:372`). Its counterexample is the interleaving.

Met on the way, most of them by a counterexample of TLC that a constant, a guard
or an exception named above now keeps out:

*Hails*

* The write behind `terminal_overwritten` also drops an event id logged meanwhile
  (`operators.py:372` writes the whole log), so a replayed `PUT` acts again. Such
  a revived hail can also make a creation on its taxi fail on the unique index.
* "leaving two customers with one cab ... unrepresentable" (migration
  `b1f4c7d2e903`): the index is per taxi id, and two taxis may share a vehicle.
* "Same serialization point as hail creation and transitions." (`taxis.py:312`):
  redistribution creates a hail without that lock; a driver gone off duty is sent it.
* "If hail is still received_by_operator ... after the configured delay, timeout."
  (`operators.py:378`): the worker dies between commit and `apply_async`, and the
  timeout never existed. A reply of an unexpected shape raises (`operators.py:369`)
  with the same effect: nothing closes the hail.
* "A collision must read as a business refusal, not a server error."
  (`test_hail_uniqueness.py:88`): redistribution inserts, then updates the
  description; creation locks it, then inserts: PostgreSQL aborts one, perhaps the
  creation.
* A hail placed while a refusal of the same session is redistributed leaves the
  customer two taxis (`hail_reassignment.py:264`).
* `/sessions` shows the first position of the taxi exactly and at every status
  (`schemas.py:1002`), where the other routes hide the position after the approach;
  and "Consider taxis on a neutral basis for clients" (`schemas.py:1017`) replaces the
  operator's address and name, but leaves its number.
* A hail whose operator has no description of the vehicle any more is in the lists,
  but `GET /hails/:id` joins the description and answers 404 (`views/hails.py:336`).

*Customers*

* "The ban can be cancelled with a false value." (`hails.py:241`): a lift that
  waited for the report's commit sees the report, but the customer as not banned,
  and writes nothing: the ban stays.
* A `false` sent for a hail that was never reported is a change too, from NULL, and
  lifts a ban that another hail's report or the company made (`views/hails.py:438`).
* Two reports at once are both computed from the same ban: one is lost
  (`hails.py:139`; "ban is still ongoing: double the ban time", `hails.py:125`).
* A ban that the company set for less than a day is doubled, which may still be
  less ("prevent them from hailing for the next 24 hours", `hails.py:240`).
* A ban whose end only was set refuses hails, but a report takes the customer for
  not banned and replaces it, perhaps by a shorter one (`hails.py:130`).
* A company that names an older session of its customer while a refused hail of his
  waits for its redistribution (`views/hails.py:755`) gets him a second taxi: the
  redistribution looks at its own session only.
* The identifiers of a search live in one key per company: when it expires just
  between `HSET` and `EXPIRE` it takes new ones along (`redis_backend.py:228`).

*Positions*

* `POST /hails` looks at the taxi's own description, the search at any operator's:
  a taxi listed by another operator's description may be refused.
* The search takes the nearest candidates and drops stale and busy ones after
  (`taxis.py:499`): beyond the limit, free taxis are not shown.
* The comment at `taxis.py:630` speaks of blindly overwriting identifiers; `HSET`
  merges them.
* With a freshness that is not of whole minutes, the statistics ask the index for
  a period it no longer holds.

*Registration and retention*

* The loser of a race to create gets an error 500: SQLAlchemy raises its own
  `IntegrityError`, and the handler expects psycopg2's `UniqueViolation` (`ads.py:121`).
* A taxi inserted between the two statements of `delete_old_orphans` loses its
  description (`clean_db.py:257`), and its operator gets 404 until it posts the
  vehicle again.
* Departements of three digits (974) match nothing in `substr(insee, 0, 3)`
  (`stats.py:70`, 84, 97, 490; see `deploy/REZO_PREPRODUCTION.md:510`).
* A hail where two towns' shapes overlap, which `taxis.py:460` says may be,
  comes twice out of a join, violates the primary key of `stats_hails`, and stops
  the archive for good (`clean_db.py:126`); hails behind it are deleted uncounted.
* "After two months, location is blurred to only point to the geographical center of
  the town" (`clean_db.py:44`): a place that is in no town stays exact, and the hail
  is marked as blurred all the same (`clean_db.py:69`, 73, 81). A `PUT` of an
  administrator may write a place into a blurred hail.
* `blur_geotaxi` replaces a report that came since its scan by a blurred old one.
* A taxi that reports through two operators may be removed though one of its
  reports is recent: the dictionary keeps one per taxi (`clean_db.py:227`).

*Statistics*

* "Only covering the last two months, before hails are anonymised" (`stats.py:300`):
  the average distance is that of all hails since the threshold. The model has it as
  the code does; no property is about it.
* `compute_stats_hails` copies a hail after a day with whatever status it has
  (`clean_db.py:128`, 151): one that is stuck has none of the outcomes. A hail in no
  town has no `insee` ("In case not found", `APITaxi_models2/stats.py:142`) and is in
  no departement; one whose `taxi_hash` is NULL is of no taxi.
* Milestones at the end of a month lag up to three days; a `timeout_taxi` of
  exactly an hour is in neither category of outcomes; milestones of connected
  taxis count `last_update_at`; `_get_hails_growth` raises when a conurbation that had
  hails last month had none in the same month a year before (`answers` in
  `get_hails_growth`); the monthly hails per taxi have no filter on the month; average
  transition times ignore filters; a fleet of size 0 divides by zero.

*Operation*

* A run of the cutover after one that was killed notes the paused jobs as the
  state to put back (`cutover_postgres.py:929`): they stay paused.
* `TimeoutExpired` of the inspection inside the failure handler leaves the run
  without its rollback (`cutover_postgres.py:1112`).
* A truncated proof, or one whose archive was rotated first, makes the server
  refuse every pull until it is rotated too (`backup_taxi_core.py:296`).
* An archive above 512 MiB, or a backlog above 2 GiB after a long absence of the PC,
  makes it refuse every pull as well (`pull_backups_to_operator.py:60`, 65): nothing
  is sent in parts.

## 4. What is proved

For every value of the constants that satisfies the module's `ASSUME` (TLC
evaluates it on each run), TLAPS proves the types of every module's variables and
every invariant and action property of a passing run; only liveness is left to TLC
(4.8).
Some theorems name a further assumption: the environment's choice under which the
property holds at all (2.3, 3.2), which is also what the run has. Inductive
invariants were checked by TLC on the run's instance before they were proved.

### 4.1 `HailDispatchProofs`

| Theorem | Assuming also | States |
|---|---|---|
| `TypeCorrect` | | `TypeOK` |
| `OneActiveHail`, `BookingRefinement` | | `OneActiveHailPerTaxi`, `ImplementsTaxiBooking` |
| `NoneIsForgotten` | | `NoHailIsForgotten` |
| `AttemptsLimited`, `ContactedOnce` | | `AttemptsAreLimited`, `NeverContactedTwice` |
| `AnswersAgree` | | `ReadersAgree` |
| `TerminalStays`, `EventsAppliedOnce`, `SharingEnds` | `~CancelWhileSending` | `TerminalIsFinal`, `EventAppliedOnce`, `SharingEndsForGood` |
| `HailsAdvance` | `~CancelWhileSending` | a status only gives way to a later one |
| `StatusesAgree` | `~CancelWhileSending`, `OwnVehicle` | `TaxiStatusFollowsHail` |

`TypeOK` is inductive as it stands, because it contains `NoDangling`: what the
processes and messages hold are hails that exist. Without it, the type of
`booking[h].vd` in `SendCommit` could not be concluded.

`OneActiveHailPerTaxi` needs `TypeOK` and one fact on steps, `NextHailSteps`:
each step leaves all hails alone, or changes one, and if it makes that one active
or keeps it so, the index allowed it or its row was active already and its
booking is unchanged. In `SendCommit` the index is what carries the proof: the task
may revive a hail its customer cancelled, and nothing but the index knows that the
taxi was booked meanwhile. `BookingRefinement` splits the same fact by what it does
to the changed hail: becomes active (`Book`), ceases to be (`Release`), or neither
(a stutter). `SlotMeaning` says that the `CHOOSE` of the mapping picks the one
active hail.

Finality rests on `UndisturbedRequests`: while a request to the operator is under
way, the hail is received and its log as `SendBegin` read it, so that the write at
the end writes over nothing. That is what `~CancelWhileSending` gives, and 3.2 says
what happens otherwise. `EventsAppliedOnce` adds `LogIsTrue` (an event id in the log
was applied exactly once, others never), `SharingEnds` the two sets of statuses,
past the approach and ended, that no transition leaves.

`HailsAdvance` gives each status a number (`Stage`) that every change of status
raises, whoever makes it, so a hail changes seven times at most. With
`NoneIsForgotten`, which says that an active hail has something that will change it,
this is the safety part of `EveryHailEnds`; what fairness adds is TLC's.

`StatusesAgree` needs `BooksOwnVehicle`: a hail, or a reassignment under way, books
the one description of its taxi, so that two hails of a description (`OwnVehicle`:
taxis do not share them) are two hails of one taxi, which the index excludes.
`StatusAfterPut` compares what a transition writes with what goes with the status
it leads to (`StatusDuring`).

`NoneIsForgotten` needs `ActiveIsWatched`: an active hail is received, or in a
status that has a timeout; nothing reaches `sent_to_operator`, which has none. A
step then changes the hail and leaves a continuation, or takes a continuation and
leaves a message, or takes a message and moves the hail on (`Remembered`). A timer
of an old status does not count, so each change of status must arm its own.

`AttemptsLimited` and `ContactedOnce` need `RedistributionInv`. `ChoiceIsSound`: a
reassignment under way has locked all rows of the session but those that customers
added since, and its taxi is in none of those it locked. `CustomerBegins`: a session
that has hails, or is being redistributed, has one that its customer placed.
`RoomForOneMore`: a session being redistributed has room for one more attempt; it
keeps it, because the only rows that come in meanwhile are customers'.

### 4.2 `RowLocksProofs`

| Theorem | States |
|---|---|
| `TypeCorrect` | `TypeOK`, which includes that no lock has two owners |
| `BookingRefinement` | `ImplementsTaxiBooking` |
| `DeadlocksNeedADescription` | `DeadlocksTakeADescription` |

`HailDispatch` takes it that check, lock and insert of a creation are one step;
here nothing is. What carries the refinement is `KeysAreGood` in the invariant
`TxInv`: whoever has a taxi's key found the index without another active hail of
the taxi, and that stays so, because nobody makes a hail active without the key
(`TakesTheKey`, and `SendCommits` by its own terms) and keys have one owner. The
rest of `TxInv` says which taxi and which hail a transaction is about. The lock on
the description is not used: the index alone protects the booking. Every step ends
a transaction or leaves the hails alone (`StepsEndOrKeep`); `EndsKeeps` and
`BeginsKeeps` treat all ends, and all beginnings, at once.

Absence of other circles is an argument about order. `LocksGoToPlan` says of each
transaction which locks it has at the moment it waits for another: a redistribution
waits for a row with lower rows only, for the key with rows only, and for the
description last; a change waits for the description with one row. So in a circle
without the members the property names nobody has a description, and nobody waits
for one; who has a key waits for a description, so nobody waits for a key; and all
wait for rows. Then whoever has the row that one waits for waits for a greater one
(`CirclesOfRowsClimb`), but one of these rows is the greatest (`GreatestHail`). No
induction along the circle is needed.

### 4.3 `CustomerProofs`

Of `CustomerBan`, in the first part:

| Theorem | Assuming also | States |
|---|---|---|
| `BanTypeCorrect` | | `BanTypeOK`, which includes that a hail's lock has one holder |
| `BanStaysWhole` | `InTurn`, `LongBans` | both dates of a ban or none |
| `ReportsBan`, `ReportsProlong` | `InTurn`, `LongBans` | `ReportBansForADay`, `ReportProlongsTheBan` |

`InTurn` says that requests do not overlap (at most one is open), `LongBans` that
the company sets both dates, a day or more apart. The inductive invariant `TurnInv`
adds to the types that a ban lasts a day at least, that an open request has read
what is still there, and that an edit under way carries a long ban. Without the
first, doubling would not reach 24 hours; without the second, columns of two bans
could mix. `BansForLong` is the arithmetic of `_ban_customer`.

Of `CustomerSearch`, in the second part:

| Theorem | Assuming also | States |
|---|---|---|
| `TypeCorrect` | | `TypeOK` |
| `SessionsCorrect` | | `SessionsAreOneCustomers` |
| `AnswersCorrect` | `~Straddles` | `AnswersCanBeHailed` |
| `OneTaxiAtATime` | `OneAtATime`, `~Overlaps`, `~LeavesSessions`, `MaxLag <= SESSION_AGE` | `NoSecondTaxi` |

`SessionInv` adds that a session is named by a row that exists, and that a request
under way found a session of its own customer. `IdInv`: identifiers stored by a
search that has not answered are in the key, and those answered are while their time
lasts; `EXPIRE` only ever prolongs it. `CustomerInv` is about customers who wait:
one hail of theirs is open at most (`OneIsOpen`); what one did since his open hail
changed, or since a refusal not redistributed yet, is of the same session
(`OpenIsLatest`, `RefusalIsJoined`), and so will be what a request under way inserts
(`PostsJoin`), because the refusal is recent enough (`RefusedRecently`) and a
company that names a session then names this one (`~LeavesSessions`). So
redistribution, when it comes, either precedes the next request or sees its hail in
the session.

### 4.4 `PositionsProofs`

| Theorem | Assuming also | States |
|---|---|---|
| `TypeCorrect` | | `TypeOK` |
| `FreshPositionsAreIndexed` | | `FreshIsIndexed` |
| `CountsAreComplete` | `WholeMinutes` | `MinutesAreComplete` |
| `ListedCanBeHailed` | `InTurn` | `OwnListedCanBeHailed` |
| `GroupsCorrect` | | `GroupsAddUp` |

`IndexInv` relates each date in the hash to the indexes, by what may still come: a
report under way is `MaxDelay` old at most (`ReportsAreTimely`), a cleaner's threshold
is a freshness old at least (`ThresholdsAreOld`), so an entry still fresh has its date
and place (`EntryIsIndexed`), and the keys shared by operators a date that is older
by `MaxDelay` at most (`TaxiIsIndexed`). `WholeMinutes` is a freshness of whole
minutes (3.2). `SearchInv` adds what a search under way has read: under `InTurn`
dates of an entry only grow (`DatesGrow`), so that the hash has every date a search
has read, or a later one (`DatesWereHeard`).

`GroupsCorrect` needs no invariant but types. `Sums` defines the sum of a table as the
size of a disjoint union, `{k} \X (1..count[k])` for each key, so that no induction on
keys is needed: if each key counts the elements of a finite set that have it, a
bijection takes the union to the set (`PartsAddUp`). Each table is such a count, by
town, operator or both; what the dictionary leaves is one entry per taxi
(`LogsAreLogs`). `PagesOfLogsAgree` compares the pages, which add up one town for each
operator, with what is logged of all.

### 4.5 `RegistrationProofs` and `RetentionProofs`

| Theorem | Assuming also | States |
|---|---|---|
| `Registration`: `TypeCorrect` | | `TypeOK`, which includes unique and foreign keys |
| `CheckDbIsSatisfied`, `TaxisStayComplete` | | `CheckDbFindsNothing`, `TaxiIsComplete` |
| `Retention`: `TypeCorrect` | | `TypeOK` |
| `CountsRestartSafely`, `DeletedWereCounted` | `TownsApart` | `CountedUpTo`, `CountedBeforeDeleted` |
| `PlacesAreForgotten` | | `NothingOldIsPrecise` |
| `TaxisAreSilent` | `OneOperatorEach` | `SilentTaxisOnly` |

In `Registration` any number of operators and workers compete. `BaseInv` has the
keys (`OneRowPerId`, `OneRowPerKey`, `RowsReferToRows`) and what an open request
knows (`RequestsHold`: what it has read existed with that id, and ids are
not given again); `HisInv` that a taxi is made of its operator's own ADS and driver, in
rows and in requests; `CompleteInv` that a request about to insert a taxi has seen its
operator's description, and that no description a removal is about to delete is of a
taxi that is not excepted. It also says that a taxi is of one vehicle
(`HasOneVehicle`), and a vehicle has one description per operator: so a list shows
no taxi twice (`IsListedOnce`).

In `Retention`, `RequestsAreShort` (a hail is committed within `MaxDelay`) and
`CountsAreOld` (only hails older than `COUNT_AFTER` are counted) give
`CountersMissNone`: a counting task has read all that is not counted, and what it can
no longer insert another one has inserted with all the rest. `CountKeepsUp`,
`HailBlurKeepsUp` and `PositionBlurKeepsUp` bound what is left to do by the days the
task is behind; `BlurredIsForgotten` says that a hail marked as blurred keeps only
what is in no town, and `NewHailsAreExact` that a hail is committed unmarked. With
`COUNT_AFTER + MaxOutage <= DELETE_AFTER` a hail old enough to
delete has been counted. `SilenceInv` says what the lists of `blur_geotaxi` and of
the deletion still know of the reports (`ListIsRecent`, `SilenceIsRecent`).

### 4.6 `PostgresCutoverProofs`

| Theorem | States |
|---|---|
| `BackupsTypeCorrect`, `ReceiptsCorrect` (of `Backups`) | `BackupsTypeOK`, `ReceiptsAreTrue` |
| `TypeCorrect` | `TypeOK` |
| `WritesAreKept`, `FrozenCopyCorrect`, `JobsCorrect` | `NoWriteIsLost`, `FrozenCopyIsComplete`, `JobsAsChosen` |

`ReceiptsAreTrue` needs `KeepsOrTransfers`: what a pull does not transfer, the PC
has. The invariant `Inv` of the cutover says for each step which flags are set
(`StepsInOrder`), that while the writers are stopped nothing writes (`AtRest`), what
the volumes hold (`VolumesInStep`: the new one is behind the old one until it is
served, level with it until it is exposed, ahead of it after), and what is
remembered of jobs (`JobsAreKnown`, `JobsAreKept`). `CopyIsFrozen`: the archive made
after the writers stopped has every write of the application, and the PC has it once
its receipt came. It is an invariant of any number of jobs, writes, runs and deaths.

### 4.7 `StatisticsProofs`

| Theorem | Assuming also | States |
|---|---|---|
| `TypeCorrect` | | `TypeOK` |
| `MilestonesCorrect` | | `MilestonesAreCounted` |
| `FiguresCorrect` | | `FiguresAddUp` |

For any finite tables, any filters and any days that are dates, and without any
invariant but `TypeOK`. The rows may be anything of their types: with a status that
ends no hail, in no town, of no known taxi, overseas, with an unknown time of timeout or
one of exactly an hour. The code gives some of these no outcome and no departement
(3.2), so the property says what its sums are over: `HasConcluded` and `Located`.

`MilestonesCorrect` is about dates. A milestone keeps the day of today or, after a
shorter month, a day from the 28th on (`IsMilestone`), so it stays in its own month,
months order milestones (`LaterMilestones`), the series stops after five
(`SeriesAreMilestones`), and the figure matched by its rank in the answer is that of
its milestone (`RowsAreOfMilestones`, `MilestonesAgo`). Leap years enter only in that a
month has 28 to 31 days.

`FiguresCorrect` is about sums. A `GROUP BY` counts the rows of each key, and
`GroupedSum` (from `PartsAddUp`, which is proved here as in 4.4) adds them up to the
rows there are. What is left is that every row has one key: one outcome
(`OneOutcome`), one day, week and month of its period (`PartsOfPeriod`), one
departement (`FiltersSplit`), one operator. The public figures count at the first
days of months, which lie between two milestones (`MonthsAndMilestones`), and last
month is one of the current year or of the last (`LastMonth`).

### 4.8 Only model-checked

Liveness under fairness, which the prover does not support: `EveryHailEnds`,
`StaleLeavesIndex`, `RegistrationEnds`, `LeftoversGo`, `EveryBackupReachesThePC`,
`ServiceComesBack`. Of the first, `HailsAdvance` and `NoneIsForgotten` prove the part
that is about single steps.

## 5. Plan

Done: the modules of section 2, their runs, and the theorems of section 4. Left, in
this order:

1. for the other liveness properties what 4.1 has for hails: a measure that every
   step of a cleaner, a pull or a run of the cutover lowers;
2. the release evidence (`operator_migration_proof.py`) as a step of the cutover.

Not modelled, and why:

* geometry (PostGIS, shapely) and the cache of exclusion zones, which never
  expires and of which nothing is promised;
* validation of fields by `schemas.py`, pagination, serialisation;
* authentication, and the editing of users: no state that several steps share;
* activity logs, which commit on their own and are read by nobody; observability
  and redaction;
* the remaining aggregations of the statistics views (searches, heat maps,
  transition times, taxis connected per hour, numbers of users), of the same kind as
  those modelled, and the lists of groups and managers;
* `check_db --remove-orphans`, run by hand; `delete_old_orphans` does the same;
* `validate_release`, which checks on the PC and changes nothing of the service; the
  R2 storage, which no entry point enables;
* imports and migrations run by hand, read-only host checks.
