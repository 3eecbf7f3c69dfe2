# Formal models of the TPU cluster's software

TLA+ modules for the programs of this repository that keep state, run side by
side, or fail half way: the metadata backup and its retention policy, the
dashboard from poll thread to browser tab, the heartbeat daemon, its log and the two
programs that do accounts from it, the metrics sidecar, the shell environment that ties a
job to its chips and its metrics port, the rows in which the readers join what the daemons
wrote, the creation of accounts, the migration of a home with its audit and the repair of
its links, and the health checks under their deadline. TLC checks every model on small
instances; TLAPS proves the main safety properties for every value of the constants: of the
backup for every policy and any number of runs (among them that it implements an abstract
retention promise), of the migration, its audit and `adduser.sh` for any number of nodes,
of the dashboard for any hosts and polls, of the heartbeat's log and the accounts made from
it for any polls and faults, of the metrics sidecar for any jobs, and of the readers' rows.

    tlc -config BackupSolo.cfg MCBackup      # a run (see "Runs")
    tlapm Backup_proofs.tla                  # proofs; likewise the other *_proofs modules

## Inventory

The cluster is four VMs, `tpu0` to `tpu3`, with four TPU chips each, sharing
`/storage` (JuiceFS: data in GCS, metadata in Redis on `tpu0`).

| Part | State | Operations | Talks to |
|---|---|---|---|
| `admin-scripts/juicefs-backup.py` | the dumps in a bucket; one run's clock readings and delete list | dump + upload, list, select, delete | Redis, GCS; an hourly systemd timer, or a person |
| `shared-scripts/tpu-heartbeat.py` (each VM) | `status.json`, `history.csv`; its last logged row, in memory | scan chips, ask `ps`, replace the status, append on change | sysfs, `ps`; files served on :8080 |
| `shared-scripts/tpu-metrics.py` (each VM) | `metrics.json` | find owners, query each job's port, replace the file | libtpu's gRPC service in each job |
| `conf/tpu-defaults.sh`, `shared-scripts/tpu-device.sh` | a process's environment | set defaults; select chips or CPU | libtpu and JAX read the variables |
| `shared-scripts/dashboard/tpu-dashboard.py` | 16 deques, latest rows, node states, in memory | poll all hosts, ingest per host, answer `/api/timeseries?since=` | :8080 of each VM; browser tabs |
| `shared-scripts/dashboard/index.html` | per-chip arrays, one cursor | poll on a timer, merge, trim, plot | the dashboard server |
| `shared-scripts/tpups.py` | none | fetch status and metrics of all hosts, join, print | :8080 of each VM |
| `shared-scripts/tpu-usage.py`, `tpu-heatmap.py` | none | fetch `history.csv`, charge time to users | :8080 of each VM |
| `shared-scripts/tpu-health.py` | none | some fifteen checks, locally or over ssh | systemd, docker, JuiceFS metrics, rclone, Redis |
| `admin-scripts/adduser.sh` | accounts on four VMs, a home on `/storage` | create the account, VM by VM | ssh |
| `admin-scripts/migrate-home.sh` | homes and `passwd` entries on four VMs | preflight, four parallel rsyncs, `usermod` per VM | ssh, rsync |
| `issues/storage/migration-audit-2026-05/` | one-off audit reports; a link repair | read trees, compare, relink | `/storage` |
| the rest (`tpu-warmup.sh`, `tpu-handbook.sh`, `fetch-logs.sh`, benchmarks, unit files, dotfiles) | none | | |

What is hard in each, and what makes it correct:

* **Backup.** A run reads the clock, lists the store and deletes from the list
  one file at a time; another run may upload and delete meanwhile, and either may
  die between any two steps. Correct: every slot of the policy keeps its newest
  backup, a prune that completes leaves exactly the policy's selection, and no
  earlier interruption shows in the result.
* **Heartbeat and accounting.** The log is written on change only, so every reader
  reconstructs time from rows that are not there; a full disk can cut a row short, and
  the next one is glued to it. Correct: in spite of failed writes, crashes and
  restarts, the row in force at a poll names the users that poll saw, the accounts are
  those of the polls, and both tools agree; `status.json` is never partial.
* **Metrics.** The owner of a chip is read first, the job's port queried later; in
  between, jobs exit and start. Correct: a chip's numbers were measured on that
  chip, and a job that serves gets measured.
* **Environment.** Scripts run on top of each other in one inherited environment.
  Correct: port, visible devices and platform agree with each other.
* **Dashboard.** A poll cycle ingests hosts one by one under a lock that is
  released in between; the tab keeps one cursor for sixteen series and polls on
  a timer. Correct: no sample is skipped or doubled and every value is plotted
  at its own time.
* **Accounts** (`adduser.sh`, `migrate-home.sh`). A sequence of remote commands
  under `set -e` that can stop anywhere, with users logging in meanwhile. Correct:
  ids agree on all nodes; no file of a migrated home is lost, or the audit tells.
* **Health, tpups.** Thresholds at their boundaries; a join of two files written
  by two daemons at different times; an inner time budget against an outer one.

`PROJECT.json` lists the hazards with their lines.

## Modules

| Module | What it is |
|---|---|
| `RetentionSlots` | the retention policy as operators: `Bucket`, `InSlots`, `SelectKeep` |
| `Retention` | abstract specification of the store: an archive, a store that forgets only what no slot wants, and the backups excused from this |
| `Backup` | `juicefs-backup.py`: any number of runs over one store; implements `Retention`, with nothing excused when runs do not overlap |
| `Backup_proofs` | TLAPS proofs about `Backup` |
| `Dashboard` | `tpu-dashboard.py`, its HTTP threads, and one tab of `index.html` |
| `Dashboard_proofs` | TLAPS proofs about `Dashboard` |
| `TpuEnv` | what `tpu-defaults.sh` and `tpu-device.sh` do to an environment, along chains of shells and wrappers |
| `Metrics` | `tpu-metrics.py` on one VM, with jobs whose chips and ports come from `TpuEnv` |
| `Metrics_proofs` | TLAPS proofs about `Metrics` and `TpuEnv` |
| `Usage` | `tpu-usage.py` and `tpu-heatmap.py` as functions of one node's `history.csv` |
| `Heartbeat` | `tpu-heartbeat.py` on one VM, which writes the log that `Usage` reads |
| `Heartbeat_proofs` | TLAPS proofs about `Heartbeat`, and about what `Usage` makes of its log |
| `Occupancy` | one chip as `tpups.py` and the dashboard's table show it, over both daemons |
| `Occupancy_proofs` | TLAPS proofs about `Occupancy` |
| `Accounts` | `adduser.sh` over all nodes, with overlapping runs and accounts made by hand |
| `Accounts_proofs` | TLAPS proofs about `Accounts` |
| `Migrate` | `migrate-home.sh` over all nodes, with the user's sessions and writes |
| `Migrate_proofs` | TLAPS proofs about `Migrate` and `Cleanup` |
| `Cleanup` | `migrate-audit.py` and `fix-symlinks.py` as functions of the state `Migrate` leaves |
| `Health` | the checks of `tpu-health.py` on one node, inside the deadline of `fetch_remote` |
| `Health_proofs` | TLAPS proofs about `Health` |
| `MC...` | the instances TLC runs |

Operators whose comment starts with "mutant" are plausible bugs of the definition
below them. No specification uses them: they exist to show that a property
notices them when they take that definition's place.

### Backup

| TLA+ | `juicefs-backup.py` |
|---|---|
| an instant | the timestamp in `dump-<ts>.json.gz`, which is all `select_keep` looks at |
| `SLOTS` | `SLOTS`: (slot count, width) per tier |
| `Start`, `Upload` | the first clock reading in `main`; `dump_and_upload` |
| `ReadClock` | the second clock reading, `prune`'s argument |
| `List` | `list_remote`, `select_keep` and the delete list: one snapshot of the store |
| `Delete` | one `rclone deletefile`, newest first |
| `Abort` | a failing subprocess, or a kill, at any point |

`archive` (every backup ever uploaded) and `ahead` are history variables; the
second holds the backups some run listed while its own clock reading lay in an
earlier bucket of some tier, which is the one situation in which `select_keep`
has no slot for the newest backup. Runs on the same second write the same name,
as in the code. Upload is one step: `rclone copy` of a single object is atomic in
GCS.

`Retention` is what the store promises without runs, listings or failures. Its variable
`excused` holds backups the promise does not cover. `RetentionSpec` substitutes the empty set:
one run at a time keeps the promise in full. `SharedRetentionSpec` substitutes `ahead`:
overlapping runs keep it but for the backups just described.

### Dashboard

A sample is its timestamp, counted in poll cycles. The four chips of a host are
appended under one hold of the lock, so one series stands for them. `StartCycle`
reads the shared `ts`; `Ingest` is `History.ingest` for the next host; between two
of them an HTTP thread may run `Answer` (`History.snapshot`). `SendPoll`, `Merge`
and `PollFails` are the three outcomes of `poll()` around its `await`; `Merge` includes
the trim. A second member of `Polls` is a second `poll()` started by `setInterval`
before the first was answered. `torn` records cycles that a snapshot saw in part.
`overlapped` says whether two polls have been under way at once since the page was loaded.
`Restart` wipes the server, `Reload` the tab, both any number of times. The `except` in `poll_loop` is not an
action: no payload the two daemons write makes `ingest` raise.

### Environment and Metrics

`TpuEnv` has one operator per script. An unset variable is an empty value, and the
repeated `--runtime_metric_service_port` flags are a sequence of which libtpu uses
the last. `EnvAfter(chain)` is the environment at the end of a chain of shells and
wrappers below a login shell. `Metrics` starts each job at the end of such a chain,
hence its chips and its port; `ReadOwners` is the ownership scan,
`QueryAnswered`/`QueryFails` the outcomes of one job's query (with the count check
that turns a wrong number of chips into `warming`), `Publish` the atomic replacement
of `metrics.json`, `Abandon` the `except` of the loop and a crash. libtpu, the kernel
(a chip has one owner; a port bound twice is answered by any of its owners) and
JAX are external. The ownership scan is one step: it reads sysfs only, in far less
time than any of the queries.

### Heartbeat and Usage

`MakeFile` and `WriteHeader` are the start of `main` (`open(..., 'w')` makes the file, the header
reaches it later), `ReadSysfs` and `RunPs` the two passes of `get_device_status` (the scan of the
chips is one step: each chip's state is kept apart from the others'), `OpenTemp`,
`Dump` and `Rename` the write of `status.json`, `AppendRow`/`SkipRow` the decision about
`history.csv`. The processes are no variable: a scan may find any of them on any chip, and
`ps` may miss any. A poll takes no tick. `Fail` is the `except` of the loop at any of
these points; `TearRow(k)` is an append cut short in column `k` (0 is the timestamp); `Crash`
and `Restart` are what systemd sees. The log is its header, its lines and at most one line
without a newline; `LineOf` glues the next row to that. `polled` is a history of the polls that
got as far as their row, `torn` of the rows cut short.

`Usage` reads the file: `Rows` is what `csv.DictReader` yields (a file without its header
loses its first line), `Readable` whether the tools come to the end, `Daily` and `Forever` are
`tpu-usage.py`'s sums, `HeatTotal` and `HeatUsed` `tpu-heatmap.py`'s. An interval belongs to the
day and the users of the row it starts with.

### Occupancy

The steps of a daemon's poll are in `Heartbeat` and `Metrics`; here a poll is the file it
ends with, constrained by what those modules show of it. `WriteStatus`: the heartbeat
scans first and calls `time.time()` last, so a user it names was seen alive at most
`PsLag` before the stamp. `WriteMetrics`: the sidecar stamps first and measures after, so
a job it reports was alive after the stamp, which may be old by the time the file
appears. `NoJob` stands for FREE, EXIT and "?", and for a metrics entry without
numbers. A daemon that stops, or hangs for any time, is one whose write never comes.

`Begin`, `FetchStatus` and `FetchMetrics` are a reader's fetches, in any order, each of which
may fail (`{}`; also a payload of another schema). One fetch at a time stands for any
number, because a reader writes nothing another reader reads. `Ingest` is
`History.ingest` for the host: both answers count only while fresh at the cycle's `ts`
(`DashboardRow`), and the age of the node is that of the older one (`OldestLast`).
`TpupsRow` is the row `collect` makes, `TpupsAge` the age it prints below the table, `Snapshot` what
a tab gets at any later time.

### Accounts

`passwd[t]` and `group[t]` are a node's tables, `home[u]` the home on `/storage` with its numeric
owner and what its `.ssh` has. Each command of `adduser.sh` that changes one of them is an
action: `CheckId` (node by node), `CheckHome`, `Origin` (`useradd -m` on tpu0, which chooses the
numbers), `GroupAdd` and `UserAdd` (the two halves of the `&&` on each other node), `SshStep`. `Fail`
is `set -e` before any of them; after `LinkLost` the script is over as well, but what it
started on that node may still be done. `useradd -m` is one step: an entry whose home could not
be made is not a state of the model. `useradd` and `groupadd` are external: the next free number, and a
refusal if a name or number is taken. `ByHand` is anybody else's `useradd` or `groupadd` on one
node at any time. `byHand` and `stopped` are histories.

### Migrate and Cleanup

A place is a file of the new home: `<<0, n>>` at its root, `<<t, n>>` under `tpu<t>`. A file is the
set of writes that made it what it is, with the last of them as its mtime (`rsync -a` keeps
it); a file deleted and made again has only its new writes, and `Absent` is a file that is not there.
`Preflight`, `Who` (node by node), `PreCreate`, `WaitAll`, `Chown`, `Usermod` (node by node) and
`Verify` are the script. `RsyncList` and `RsyncCopy` are each of its background rsyncs, file by file,
and `RsyncVanished` a file of the list that is no longer there (exit status 24); `RsyncFails` ends an
rsync anywhere, `LinkLost` only its ssh, so that the script counts it as failed while it goes on.
`Fail` is `set -e` or an interrupt anywhere: the rsyncs go on without their script, as they do in
bash. The tests of ids and of the mount are part of it. `DeletePartial` is the admin doing what the
script advises, only when it did. An rsync that still runs then is left in a directory that is gone.

Meanwhile the user logs in and out, and writes, makes and deletes files: in `/home` from any session
(a new session may still use the old path, as the audit found), in the new home from a session
that lives there. `usermod`'s refusal to change a user with running processes is external. `seen` is
a history, each home when `who` found nobody on its node; so is `gone`, the writes that went with a
deleted file. Times: the clocks of the nodes agree, no two changes are within the two seconds
that the audit tolerates, and the user does not set mtimes back.

`Cleanup` has no variables. Both scripts of the audit only read what a migration left (links
apart), so they are operators over `Migrate`'s state, and their properties are checked in every
state in which an admin may run them. `Source` and `Dest` are the two `find`s, `Missing` and `Older`
the two reports; what a difference in size would add is not counted on. `AuditTells` goes both ways.
A reported file is no fault of the migration: the user wrote it to `/home` since the check, or
deleted it from the copy, the two explanations the audit's own README found (lines 26-36).
A file that is not reported may be deleted with `/home`, with one exception: if the copy was
written later than a write to `/home`, the times do not show the latter. `LinksFrom(t)` has, in
every directory of node `t`'s home, an absolute link to every file of that home; `NewTarget` is
where `fix-symlinks.py` would point it, `Rewritten` the links it does rewrite: those whose
new target exists. A link to a file that was deleted from the copy is left as it is.

### Health

`CheckList` is `run_local`'s sequence on a node, with each check's calls: the service a
call needs, its timeout, what the check returns if the call fails, and if it hangs.
During an outage of one service (`/storage` also needs Redis and GCS) every affected call may hang,
fail or be answered, and `docker` without `sudo` may fail for lack of access at any time. A call that
hangs ends in one of two ways. `Hung`: the kill at its timeout ends the child, and the timeout is
added to `elapsed`. `Outlives`: `subprocess.run` waits for the child it killed, with no bound. The
admin's process may not kill a child of `sudo` (`kill` raises `PermissionError`), and one
stuck in a call below `/storage` may not die; both cost any time more (`Waits`). The check then
returns what it makes of the exception (`Outlived`), but `check_needrestart` does not catch this
one: `run_local` dies, and its node shows "ssh fail" (`Escaped`). An answered or failed call
takes no time. A child of `sudo` is affected by the outages of what it asks and of "sudo", which
stands for whatever blocks it or its program by itself. Once `elapsed` reaches the deadline of
`fetch_remote`, `Timeout` replaces the node's column by the one row "ssh". A verdict that
depends on a reading is "level": the thresholds are not modelled.

## Runs

Each cfg names its bounds; small ones suffice where noted.

| Run | Instance | Shows |
|---|---|---|
| `BackupSolo` | one run, three tiers of two slots, widths 1, 2, 4, ten ticks | `SoloPruneExact` and `RetentionSpec`: the store implements `Retention`. Ten ticks pass all slots of the widest tier (8), so backups expire from every tier. |
| `BackupOverlap` | two interchangeable runs, two tiers whose buckets coincide at tick 4, five ticks | `SlotsKeepNewest`, `DeleteJustified`, and `SharedRetentionSpec`: the store implements `Retention` with `ahead` excused. Two ticks per narrow bucket let one bucket hold two backups; five ticks cross the common boundary. |
| `BackupByHand` | two runs | **violated**: `SafeByHand` |
| `Dashboard` | two hosts, two polls at once, deques of 2, window of 1, three cycles, restarts and reloads at any time, with fairness | `SharedGrid`, `BuffersSorted`, `ReferenceComplete`, `OnlyTornCyclesLost`, `EventuallyPlotted`. Three cycles turn the deque over and empty the window; two hosts are enough for a cycle to be seen in part, and two polls for answers to come out of order. |
| `DashboardTorn` | one poll at a time | **violated**: `PlottedAtItsTime` |
| `Metrics` | two jobs on the four chips, each started by `tpu-device` with any documented list below up to two shells or wrappers, or from a shell with no `tpu-device` above, with fairness | `MeasuredOnThisChip`, `EventuallyMeasured`. A wrong attribution needs the job scanned and the job that answers: two. Above the wrapper, two steps suffice for a flag to be inherited through a further shell. |
| `MetricsProfile` | two jobs, started by `tpu-device 0`, `tpu-device 2` or from a plain shell, below one of these | **violated**: `NeverMisattributed` |
| `Heartbeat` | two chips, one user, clock up to 5, days of 2, `MAX_LOG_WAIT` of one poll, two crashes or torn rows | `StatusWhole`, `LogFaithful`, `LogNeverSilent`, `UsageFromLogExact`, `DayOffByOneRow`, `HeatmapIsUsage`, `AccountsNeverShrink`. The decision to log compares whole lists of users, and a glued row moves users by one column: two chips show both. Five ticks hold a change, a failed append, a forced row, a torn row and the row that ends it, and two midnights. |
| `Occupancy` | two interchangeable jobs, one chip, staleness limit 1, no ps delay, two ticks | `DashboardUserRecent`, `UnflaggedIsRecent`, `NumbersRecent`, `PrintedAgeTells`. Two jobs put one's numbers beside the other's name; two ticks are one more than the limit, so files, rows and tables become stale. The proofs cover all other values. |
| `Accounts` | three nodes, two interchangeable users, two interchangeable runs, one foreign name, two accounts or groups made by hand | `KeyMeansEverywhere`, `NodesAgree`, `HalfMadeStays`. Two runs and two users overlap in every way; two things made by hand take a number on a node before or after a run has it, and a name. |
| `Migrate` | three nodes, one file name, a directory `tpu1` in tpu0's home, tpu2's home empty at first, three inputs: starts of the script and changes to files, in any mixture | `MovedMeansCopied`, `DeleteLosesNothing`; of `Cleanup` `AuditTells`, `RelinkedReachesCopy`. A third node leaves a `usermod` to fail after one that succeeded beside one not yet tried. Three inputs are a start with two changes (a file made or written in both places, written and deleted, deleted and made again), two starts with one change, or three starts; with them the audit meets missing and older files of each kind. A second attempt follows a failed, deleted or interrupted first. |
| `Health` | every check and timeout as in the code, deadline 15, every single outage, both kinds of node, children that outlive their kill by nothing or by the whole deadline | `FaultShown`, `LostOnlyIfOutlived` |

Every module's type invariant is checked by one of its runs. Bounds on clocks, crashes
and attempts, and the end of the health checks, stop those runs in states without
successors, hence `CHECK_DEADLOCK FALSE` there; `Metrics` and the backup runs check for
deadlock.

### What the violated properties mean

* `SafeByHand` ("also safe to run by hand", `juicefs-backup.py:23`). Run A reads
  the clock just before a bucket boundary; run B uploads just after it; A lists. B's
  backup lies in no slot as A counts them, and A deletes it although it is the
  newest of its bucket. `SlotsKeepNewest` says this is the only way to lose one.
* `PlottedAtItsTime` (`index.html:236`). A snapshot between two ingests holds the cycle for
  the first hosts only. The tab's cursor passes it, the other hosts' rows of that
  cycle are never sent, and `rebuild`, which pairs rows by index, plots all their later
  values one cycle early until the window has moved on.
* `NeverMisattributed` (`tpu-metrics.py:89-91`, `tpu-defaults.sh:10`). In a shell opened
  below `tpu-device 2`, the profile sets device 0 again, but the inherited flag keeps
  port 8433. A job of that shell on chip 0 and a job under `tpu-device 2` then share
  8433; whichever answers is measured for chip 2, and the counts agree.

Further disagreements of the same kind have no run of their own.

* Dashboard: two polls under way carry the same cursor, and both answers are pushed, so
  samples appear twice, contrary to `index.html:298-299`.
* Environment: `tpu-device 3,2,1,0` is accepted and pins 8434 while the sidecar tries 8431
  (`tpu-metrics.py:7-9`); with `TPU_VISIBLE_DEVICES=1` exported by hand, as the handbook
  suggests, a job keeps port 8431; and `tpu-device <ids>` below `tpu-device cpu` leaves
  `JAX_PLATFORMS=cpu` set (`tpu-device.sh:53-56`).
* Occupancy: `tpups.py:114` tests the age of the metrics but not of the status, so it can
  print the user a dead heartbeat last saw beside fresh numbers of another job. The
  dashboard tests both. This is why the first two properties are about the dashboard only;
  for tpups, `PrintedAgeTells` says what the line "Updates ago" is worth.
* Migrate: if tpu0's home has a directory `tpu1`, it and tpu1's home are copied to one
  place (`migrate-home.sh:5-9`). `MovedMeansCopied` promises one of the two files there. The audit
  then reports tpu0's files below `tpu1` as missing for ever, and `fix-symlinks.py
  --include-backups` takes tpu0's links there for links of tpu1's home: both `Cleanup` properties
  except these. A link to `/home/$U` itself is not found by its `-lname "/home/$U/*"`.
* Heartbeat: a crash between the creation of `history.csv` and its header leaves a log whose
  first row the readers take for the header, and whose columns they then do not find; a row
  cut inside its timestamp can make `float()` fail. `AccountsNeverShrink` names both as the only
  ways to lose what had been charged.
* Accounts: a run that stops after tpu0's `useradd` leaves a user whom no later run completes
  (`HalfMadeStays`), because the first thing a run looks for is the name on tpu0.
* Health: rclone's timeout equals the deadline of the node (15 s), so the row that says
  that the listing timed out never reaches the cluster table: an unreachable GCS
  costs the backup node its column, and so may systemd. On any node a `sudo` child that hangs cannot
  be killed at its timeout (`tpu-health.py:132`, `310`, `432`, `456`), so a stuck dockerd can cost the
  column of every node; in `check_needrestart` the `PermissionError` ends the program. `show`'s exit status is
  ignored and an empty `Result` counts as success. With `cache-size=0` in `storage.mount`,
  `check_cache_size` divides by zero. `gc fresh` warns from 14 days on "one missed run" of a
  weekly timer, but the run after a missed one comes just before that age is reached.

## Fairness

Safety runs use `Init /\ [][Next]_vars`. Two specifications add fairness.

* `Dashboard!FairSpec`: weak fairness of `Ingest` (the poll thread continues the cycle
  it began) and of sending some poll (`setInterval` keeps firing); strong fairness of some
  answer and of some merge: polls may fail any number of times, but not all of them for
  ever. New cycles, restarts and reloads are not fair: nothing has to happen, and a server
  that restarts for ever keeps no sample that would have to be plotted.
* `Metrics!FairSpec`: weak fairness of the sidecar's own steps (`while True`, and
  `Restart=always` in `tpu-metrics.service`), and from some time on no crash and no
  failing query of a port that a job serves. Jobs are under no obligation.

## Proofs

`Backup_proofs` holds for every `SLOTS` with positive counts and widths, every set of
runs, and every value of `MaxTime`.

1. `TypeCorrect`. Besides types: `stored`, `ahead` and every delete list are subsets
   of `archive`, and a run that is not pruning has an empty delete list.
2. `PastCorrect`: no reading is later than the clock.
3. `DeleteJustifiedCorrect`: whatever is in a delete list is, in each tier, out of the
   window, superseded in its bucket, or was ahead of the lister's clock. It stays so
   because the archive only grows and the clock only advances (`BucketMonotone`,
   `ExpiredForever`).
4. `SlotsKeepNewestCorrect`. `SlotsKeepNewest` alone is not inductive: a `Delete` could
   remove anything. With 1 to 3 it is, since a justified deletion is never of the newest
   backup of a live slot unless that backup is in `ahead` (`PendingNotWanted`).
5. For one run (`ASSUME OneRun`) the invariant is stronger: nothing is ever ahead and
   everything any slot wants is stored (`SoloInvCorrect`, `SoloKeptCorrect`). It gives
   `SoloImplementsRetention`, step by step: `Tick` is `RTick`, `Upload` is `RStore`, `Delete`
   is `RForget`, all else stutters; and `SoloPruneExactCorrect`.
6. `SharedImplementsRetention`, for any number of runs: `List` is `RExcuse`, since it is the one
   step that adds to `ahead`; `Delete` is `RForget` (`DeleteForgets`) because by 3 and 4 a justified
   deletion is either excused or not wanted; `Upload` is `RStore` (`UploadStores`).

`Occupancy_proofs` holds for every set of jobs, staleness limit, ps delay and clock bound,
from `OccupancyAssumption` alone. `DashboardUserRecent` says nothing of the files or of a fetch under way, so it is
not inductive. `Inv` adds that every payload is honest wherever it is: in a
file, in the reader's hands, or gone into the table. A status names a job alive at most
`PsLag` before its stamp, metrics name one alive at or after theirs, and the table's user was
alive at most `PsLag` before *every* time the table gives as the node's age.

1. `AliveKept`: no step makes a job that was alive at a time up to now one that was not;
   hence `HonestKept`, `ReaderKept`, `TableKept` for the steps that leave them alone.
2. `WriteStatusInv` and `WriteMetricsInv`: the daemons' writes are honest.
3. `IngestInv`: a row names a user only if an answer that counts does (`RowFromAnswers`);
   that answer's stamp is within the limit of the cycle, and no older than the age
   the table shows (`OldestIsOldest`; with the newer of the two times it would fail).
4. `InvInductive` puts these together, one step per variable; `InvCorrect` follows, and from it
   `DashboardUserRecentCorrect`, `UnflaggedIsRecentCorrect`, `NumbersRecentCorrect` and
   `PrintedAgeTellsCorrect`.

`Migrate_proofs` holds for any number of nodes, file names, nested directories and files lacking
at first, and any number of changes and attempts, from `MigrateAssumption`. The properties are about
states in which something has already happened (an entry moved, advice was given), so none is
inductive. `Inv` says how the script gets there:

1. `Dates`: a file's mtime is the last of its writes. `Ages`: what `seen` has is in the home still,
   or the user has deleted it.
2. `Order`: tpu0's entry moves first; before the `usermod`s none has moved, nobody lives in
   the new home, and from `chown` on no rsync runs, not even one left behind by an earlier
   attempt or a lost link. The advice to delete is only given when no entry moved.
3. `Existence`: an rsync only runs where the new home exists. This is what makes a second
   attempt stop while rsyncs of an interrupted one run on. `Lists`: an rsync whose link was lost
   counts as failed.
4. `Progress`: what an rsync of this attempt is through with is `Delivered`: all the writes that were
   seen are in the new home but for the deleted ones, and the file is there if nothing was deleted.
   `Complete`: so is everything, once all exit statuses were 0 (`WaitAllInv`).
5. `OnlyCopies`: until an entry moves, all there is in the new home is in an old one.
6. `Lineage`: a copy that has one write of the file it came from has all the earlier ones. The audit
   compares two times only; this is why an mtime that is not newer tells of the whole content.

`InvInductive` has one lemma per action. `MovedMeansCopiedCorrect` is `Complete`,
`DeleteLosesNothingCorrect` is `OnlyCopies` with `Order`. `AuditTellsCorrect` and
`RelinkedReachesCopyCorrect` need in addition `SaidComplete`: after a migration that said so,
every entry has moved and the new home is complete (`CopyOf`). A missing or older file then has
a write the copy lacks, which by `Complete` the script has not seen or the user has deleted; for
one that is not reported, equal times mean the same last write, and `Lineage` gives the rest.

`Accounts_proofs` holds for any nodes, users, runs and things made by hand.

1. `Tables`: names and numbers are unique in each node's tables, and each has a highest number
   (`HasMax`), so that the next free number is free. That the tables are finite would need an
   induction; that they have a highest number every step preserves.
2. `Passing`: a run past tpu0 carries the numbers of its user's home, and every node it has
   passed has the user, and before `useradd` the group, with just these (`Done`).
3. `Homes`: tpu0 has every user with a home, and all nodes have one with a key.
4. `Alone`: no two runs are past tpu0 for one user, and none for a user whose run stopped. Only one
   can win `useradd` there, because accounts stay (`DoneStays`). A run whose link is lost counts as
   past tpu0 for as long as its remote command goes on.

`KeyMeansEverywhereCorrect` is 3 with 1, `HalfMadeStaysCorrect` is 4; `NodesAgree` is part of the
invariant, because a `useradd` on one more node agrees with the rest only by 2 and 4.

`Dashboard_proofs` holds for any hosts, polls, cycles and retention.

1. `Types`, `Timely` (no sample is later than the cycle), `SharedGrid`: the deques differ by
   the push the current cycle has made or not made yet.
2. `Cursor` and `SeenTorn`: an answer's cursor was the tab's, and what a snapshot saw in part is
   in `torn`.
3. `AnswersComplete` and `TabComplete`: an answer under way has everything of the reference chip
   after the cursor it was asked with, and the tab everything up to its cursor. This, and not
   the tab alone, is what survives an answer that overtakes another.
4. `OnePoll`: unless polls overlapped, an answer under way starts where the tab ends. From it
   `BuffersSortedCorrect`; `OnlyTornCyclesLostCorrect` combines 1 to 3.

`Heartbeat_proofs` holds for any processes, chips, `MAX_LOG_WAIT` and number of polls and faults.
`Atomic` (what is at `status.json` is whole; the temporary file is not) gives `StatusWholeCorrect`.
`LogFaithful` speaks of all past polls; the step that could break it is the one that writes
nothing, and there it is `Remembered` that helps: what the daemon remembers is what the last row
says, unless a torn row came after. With `Past` (rows, polls and torn rows are in order of time,
none later than the clock) and `AllKept` (faithful and recent at every earlier poll) this is
inductive.

The second half of `Heartbeat_proofs`, from *Sums* on, is about the same state as the readers of
`history.csv` see it, for the same constants. A sum over the intervals of a log is a `Charge`, linear in the weights of its
rows; `ChargeMore` says what one more row adds. Every step is one of three for a reader
(`FileStep`, `StepShape`): nothing changes, a poll with a row, a poll without one. The property
is about the log up to its last row, so it is not inductive: a row that comes later settles all
the time since the last one. `UsageInv` says what is still owed: `Exact`, the log's charge and
that of *all* polls balance once the time since the last row is charged to its users (a torn
last row may be off by all chips for that time), and `Cover`, they balance up to the last row.
`BooksRow` and `BooksPoll` preserve this, over `Timeline` (rows and polls in order of time, each
row at a poll with the users of that poll unless torn). Hence `UsageFromLogExactCorrect` and,
because no step lowers a charge (`ChargeGrows`), `AccountsNeverShrinkCorrect`.

Daily figures are charges as well, with the weights of the rows of that day (`DailyIsCharge`,
`HeatIsCharge`), and charges add (`ChargeOver`). For `HeatmapIsUsageCorrect` the sum over a
leaderboard is taken name by name: its partial sums are what the users among the first k names
hold (`LeaderboardSum`), whatever order the names come in; idle chips are the rest (`IdleIsRest`).

`DayOffByOneRowCorrect` needs an invariant of its own, `DayInv`. What is charged up to a day
is what the rows before the next midnight are charged (`ThroughIsCharge`). `Midnight` says, for
every user, every midnight and every bound on the gaps between polls, where the log stands against
the polls: as long as the last row is from before midnight, the two balance once that row's users
are charged up to the first poll after midnight (or the last poll, if there is none yet); after
that, the log is ahead by a surplus that no step changes again. The row that settles it comes at
most `MAX_LOG_WAIT` and one gap after midnight (`NewDayArithmetic`), hence the bound. All
of it supposes that nothing is torn, as the property does: a torn row may name anybody.

`Metrics_proofs` holds for any jobs and any chains of shells and wrappers. What makes a
measurement belong to its chip is that a job's port and the number of its chips tell which
they are. `TpuEnv` does not give that (`NeverMisattributed` is violated, and so would be a
list of ids in another order); it does for a `Conventional` chain: what runs on the TPU runs
directly under `tpu-device`, its ids in ascending order, or has no `tpu-device` above it at
all (`ConventionalFacts`). The theorem has `Convention`, that all launches are such, as
its hypothesis. `MCMetrics` assumes it of the launches of the run `Metrics`, where TLC checks
it. The invariant follows a poll: `Launched`, whoever holds chips has the chips and port of some
environment; `Polled`, so had every pid when the owners were read, whatever it has
by now; and `AllMeasured`, which is about the entries to be published too.

`Health_proofs` holds for every outage, both kinds of node and, but for its last theorem, any
timeout of `fetch_remote`. None of the three properties is inductive: all are about what the
result, or a row, says of checks that are over.

1. `Sound`, for each of the eighteen checks (`AllSound`): which verdict a call that fails, hangs or
   is outlived leaves, after which ends a check goes on, what it asks and with which kind of child
   (`Asked`). The rows of a list have different names, and only the backup node has those of
   the timers (`ListFacts`).
2. `InOrder` and `RowsMade`: what is left of the list is its end, what is left of a check's
   calls is theirs, and there is a row for every check that is over and for no other. Hence the
   check under way has none (`UnderWay`), and `TypeCorrect`: a result that is delivered is whole.
3. Every step is the end of a call, a reading, the death of the program (`Dies`) or the end of the
   whole (`StepKinds`). `Honest` says what the verdict then owes to how the call ended.
4. `Shown` adds to `FaultShown` the check under way: only `services` and `healthAgent` go on
   after a fault, and `services` only with a verdict that keeps it.
5. `InTime`: unless a child outlived its kill (`Outlasted`) or systemd is down on the backup node,
   the time that has passed is at most the `Share`s of the checks that are over and `SoFar` of
   `services`, in which two calls may hang. No outage has more than 13 seconds of shares
   (`Within13`): systemd's 3 for the cache cap and 10 for the two units. `GivenUp`: before its
   time a node is only given up when the program died.

So `LostOnlyIfOutlivedCorrect` asks for more than 13 seconds, where the code has 15. No less will
do: with `SshTimeout = 13` in `Health.cfg` TLC finds the rows of another node lost while systemd
hangs. Nor can the exception go: with a stuck dockerd, plain `docker` fails for lack of access, its
`sudo` fallback hangs and cannot be killed, and no deadline helps.

The provers cannot use the library's induction theorems. Where an argument over rows, nodes
or summands needs one, it takes the least counterexample instead: the theorem
`LeastNat`, from the library's `NatLessThanWellFounded` and `WFMin`.

Only model-checked: all liveness (`EventuallyPlotted`, `EventuallyMeasured`), because fairness
is beyond the prover. Every other property of a passing run is a theorem.

## Plan

Done, in the order of importance: the backup (policy, runs, abstract store, refinement for one
and for several runs, proofs), the dashboard from poll thread to plot, environment and metrics
sidecar, heartbeat and both accounting tools, occupancy and home migration with proofs,
accounts, the audit and the links of a migrated home, health checks. Every safety property and
action property of a passing run has a proof.

Left, in order:

1. The schedule of the gc timer against the thresholds of its row.
2. Steps of the clock in `Dashboard`.

## Not modelled

* Rendering and wording everywhere; the plots' layout; the states of a tpups cell without a
  number (blank, `?`, `err`), which are one value in `Occupancy`.
* The readings and thresholds of `tpu-health.py`: each is one comparison, and its unit is a
  test's business.
* The sum of `tpu-usage.py` and `tpu-heatmap.py` over the nodes that answered: a node that does
  not is left out, with a message.
* File modes and owners in `migrate-home.sh`, modes and the text of keys in `adduser.sh`.
* The three `ross-*` scripts of the audit, which sort one user's report; nodes the audit
  cannot reach, which count as having no files, with a warning; sizes, which can only add to
  its report; links made while `fix-symlinks.py` runs.
* Host clocks that step back or differ. After a step the dashboard's deques are out of order,
  and a tab gets nothing until the clock has passed its cursor; the code has no answer to it.
* The contents of backups and of `/storage`; benchmarks, viewers, `tpu-warmup.sh`, `fetch-logs.sh`
  and the unit files, which keep no state between steps; `reproducer.c`, which shows a bug of
  OpenSSH.
