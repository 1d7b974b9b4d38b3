# nxs-backup, specified

TLA+ models of nxs-backup, the backup program in `src/`: what a run of a backup
job does to the copies it makes, how rotation lets them go, how dumps are made
and delivered over ftp, how the process around a job ends, and how several
processes share a host. TLC checks the models on small instances; TLAPS proves
the main results about a job's run, its dumps, the rotations, the ftp connection, the process
and the host for every number of storages, targets, days, runs, notifiers and processes.

## The system

One process runs one command. `start` performs backup jobs, `server` exposes
metrics, `list`, `test`, `generate` and `update` are short. All paths are below
`src/`.

| Component | State | Operations | Talks to |
|---|---|---|---|
| process (`main.go`, `routines/`) | contexts and their cancellation cause, wait groups, `EventCh`, `Done` | `main`, `cmd_handler.Runtime`, `notification.Runtime`, `handle_signals` | the command's handler through `Done` and `EventCh`, the notifiers through goroutines |
| notifiers (`modules/notifier/`) | one `MessageBuffer` each: lines, lowest level | `TakeEvent`, `SendBuffer`, `RetriveAndClear` | mail and web servers |
| start-up (`ctx/`) | the application context, jobs, storages, errors | `AppCtxInit`, `jobsInit`, `storagesInit` | everything |
| start command (`modules/cmd_handler/start_backup`) | lock file, metrics of this run, errors | `Run` | jobs, metrics file, other processes |
| other commands (`list_backups`, `test_config`, `self_update`) | a downloaded archive, the new program | `Run` | storages, the release server, the program's own file |
| metrics (`modules/metrics`) | a file shared by processes | `SaveFile` | |
| job (`modules/backup/`) | targets, temporary files, `dumpedObjects` with `Delivered`, metrics | `Init`, `Perform`, `DoBackup`, `createTmpBackup`, `CleanupTmpData` | its storages, dump programs, database servers |
| archiver (`modules/backend/`) | files | `targz.Tar`, `targz.GZip`, `files.CreateTmpMysqlAuthFile`, ... | |
| storages (`interfaces/storage.go`) | the list, local ones last | `Delivery`, `DeleteOldBackups` | each storage |
| a storage (`modules/storage/*`) | files in `monthly`, `weekly`, `daily`; a connection | `DeliverBackup`, `DeleteOldBackups`, `ListBackups` | a file server or the disk |
| retention (`modules/storage/common.go`) | none (reads the clock) | `IsNeedToBackup`, `GetRetention`, `GetBackupDstList`, `GetBackupDstAndLinks`, `DGetRotatedObjects` | |
| ftp client (`lib/ftp`) | control connection, data connection | `Dial`, `Login`, `Stor`, `List`, ... | an ftp server |

What is hard: the clock is read again and again while a job runs (at start-up to
decide whether a backup is due, at each delivery to choose directories, at each
rotation); every external call may fail, some after having done their work; a
delivery that failed is repeated; the local storage *moves* the archive the
others copy, and links its copies to one another; the goroutines of the process
hand over through unbuffered channels and end in an order signals can change;
cron and people start processes at the same time, and any of them may be killed;
on an ftp connection a reply that is not read answers the next command.

What makes each part correct:

* *job*: what is reported as delivered is stored, and complete; what is not
  delivered is kept for another attempt; no failure destroys the last archive;
  errors reach the caller; nothing is delivered before it should, or twice.
* *dumps*: the archive of a target has its data and nobody else's; passwords,
  dump directories and stopped replicas do not outlive the dump.
* *retention and rotation*: a copy lives its term and not longer; by count, the
  newest remain, as many as the rule says, whether rotation runs first or last;
  on a local storage no link loses its file.
* *ftp*: replies answer what was asked; a success has stored a whole file.
* *process and notifiers*: every event reaches every notifier whose level it
  has, once; the exit status tells the result; the process ends.
* *host*: one process at a time performs jobs; nothing that is left out goes
  unnoticed; metrics of jobs that did not run survive; an update leaves a program.

## Modules

| Module | Models | Kind |
|---|---|---|
| `Retention` | `modules/storage/common.go` | operators |
| `Delivery` | `DeliverBackup` of the seven storages | operators, extends `Retention` |
| `BackupJob` | one run of one job | state machine, extends `Delivery` |
| `BackupStore` | what such a run promises | abstract state machine, implemented by `BackupJob` |
| `StorageRotation` | one target on one file server or s3 over many runs | state machine, extends `Delivery` |
| `LocalRotation` | one target on a local storage over many runs | state machine, extends `Delivery` |
| `DatabaseJob` | `Init`, `DoBackup`, `createTmpBackup` of all types that call programs | state machine |
| `FtpConnection` | the ftp storage, its client library, a server | state machine |
| `Runtime` | the goroutines of one process | state machine |
| `Host` | processes, lock, metrics, start-up, update | state machine |
| `MC...` | instances for TLC | constants only |
| `DeliveryProofs`, `BackupJobProofs` | theorems about `Delivery` and `BackupJob` | proofs |
| `StorageRotationProofs`, `LocalRotationProofs`, `RuntimeProofs`, `HostProofs`, `FtpConnectionProofs`, `DatabaseJobProofs` | theorems about the module named | proofs |

How they compose: `Retention` and `Delivery` are the common ground of the three
modules about copies. `BackupJob` sees one run in detail, with its retries and
midnights; the two rotation modules see many runs and take a delivery as one of
the outcomes that `Delivery` lists. `DatabaseJob` refines the dump step of
`BackupJob` and takes a delivery as one step. `FtpConnection` refines one ftp
call. `Host` takes a job as performed well or not; `Runtime` takes the whole
command as a sequence of events with a result.

Operators whose comment begins with "Broken:" are variants of the definition
below them with a plausible mistake in it. Each checked property is known to fail
when one of them takes the definition's place; no specification uses them.

### Retention
Days are numbers; `FirstDays` and `Sundays` are constants, as weekly copies are
made on Sundays and monthly ones on the first. `InEffect` is the condition that
four functions of `common.go` repeat. `RotatedObjects` is `DGetRotatedObjects`
behind its callers' check of `GetRetention`. It looks only at names that end in `.tar` or
`.tar.gz`. The copies of one target all end alike, so of names the models keep one bit, `tar`:
true for files, mongodb, xtrabackup and pg_basebackup jobs, false for mysql (`.sql`),
postgresql (`.sql`) and redis (`.rdb`), either for external jobs. Copies with other names are
never deleted by a local storage or a file server; s3 has no such filter.

### Delivery
The copies of one target on one storage are a function from the three period
directories to `none`, `cut`, `archive` or `link`, with a day.
`DeliverBackup(kind, ...)` is the set of all outcomes of a call: the copies left,
whether the temporary archive is still there, and whether it returned nil. For
each backend a `...Failure` operator says what its `copy` can leave in the place
of the old file, following the order in which it removes, creates and opens;
`StoppedAt` gives the directories before the failing one their copies. The local
storage moves the archive to the first due directory and links the others; when
rename fails it copies, through a symlink if one is in the way (`Behind`).

### BackupJob and BackupStore
`pc` follows `Perform`: `start`, `prepare` (temporary directory), `dump`,
`deliver` (after one target), `deliverAll` (the last call of `Delivery`),
`cleanup`, `rotate` (safe rotation), `done`. `VisitObject`, `DeliverTo` and
`EndVisit` are the loops of `Storages.Delivery`; map iteration order and the
unstable sort make the order of targets, and of storages of one class, arbitrary.
`Midnight` may come between any two steps. `store` holds the copies of this run
only: rotation touches those through `Outdated`, and older copies are the subject
of the rotation modules. A restriction: rotation by count never counts this run's
copies out here, and the assumption `MaxNights <= 6` keeps their expiry to daily
directories, where the local rotation does no more than remove.

`BackupStore` knows neither calls nor directories. A target is `waiting`,
`archived`, `stored` or `missing`; `held` says which storage can give it back;
nothing is given up, or stored on fewer than all storages, without a complaint;
copies change only while their archive is on its way or when the rules are
applied. `KeepsPromise` is its specification under the mapping at the end of
`BackupJob`: a target is `stored` when it is in `delivered`, `held` is where any
complete copy is. The instance has a daily rule on every storage, so that some directory is
due on every day: without one the promise is broken at midnight, which is what
`BackupJob_midnight` shows.

### StorageRotation
One action per step of the rotation loop: `RotatePeriod` deletes what
`RotatedObjects` names, any part of it when removals fail; `ListingFails` ends
the loop early as the `return err` does. Each run adds a file per due directory
(whole or not) with its place in time. s3 lists once and deletes all periods
together (`RotateObjects`); one failed removal, or one failed batch, lets any of
the others stay. It guards monthly copies with `weeks` (`S3Serves`). The properties that bound
what is there are about copies that are rotated at all (`IsRotated`).

### LocalRotation
A copy is known by its directory and the run that made it, as the names of a run
are the same in all directories. `Dump` notes the day on which the archive is made (`archived`),
which a file that is moved keeps as its modification time; `Deliver` asks for the date again and
makes file and links for the directories due then. `ListFiles` is the first loop of
`deleteDiscBackup`: which directories are looked at (`listed`), which links lead to
which listed files (`linked`, the code's `filesMap`), what is to go (`doomed`). The loop asks for
the date once for each directory, so each has a reading of its own (`Readings`): with
`LateRuns` midnight may come between two of them, at most once in one listing. Elsewhere `Midnight` may come
between any two steps of a run, and `late` remembers that one has. A delivery reads its date once:
a midnight between two of its own readings, microseconds apart, is left out.
`NextFile`, `MoveToWeekly`, `Relink`, `MoveToDaily` and `RemoveFile` are the second
loop, one system call or pair at a time; the `break` after a daily link that
cannot be removed, also one that does not exist, is `BreakLoop`. A system call
may fail, and the process may be killed between any two.

What a rule still wants is `IsWanted`: by date a copy until its term is over, counted from the
day its archive was made for a daily copy; by count the newest, as many as the rule says. Unsafe
rotation makes room for the copy that the run is about to make; when midnight comes before the
delivery that copy may belong to another directory, and the room stays empty. `IsRecent` takes this
into account: it asks for one copy less once midnight has fallen into a run.

### DatabaseJob
`Init` turns what the server has into targets; each type's `createTmpBackup` is
the list of its steps (`MongodumpSteps`, `MysqldumpSteps`, ...) and of what it
defers. An action per kind of step says what it does to the archive, to the raw
dump, to the file with the password or to the replica, and how it may fail. `Tar` packs what is in
the dump directory, if anything: `--ignore-failed-read` makes an empty archive of an absent one.
`RunDeferred` undoes in reverse order. Failures that the code does not report
are collected in `ignored`: a property that has to except one names it.

### FtpConnection
The control connection is two queues, `requests` and `replies`; a reply carries
the command it answers. `client` is the place in a call of the storage
(`deliver`, `rotate`, `list`) and in the library's function that it has called:
`SendCommand` and `ReadReply` are `cmd`, `OpenDataConn` is `openDataConn` with
`EPSV` and its fallback, `Upload` and `Download` move the data, and the step `shut`
is the end of a `Stor` or of a listing, which closes and reads the last reply.
`Dial` is `updateConn`, which tries the old connection with `NOOP` first. The
server may refuse, close an idle connection (421), break off a transfer; the network
may fail; the disk may.

### Runtime
A send on an unbuffered channel and its receive are one action; a send nobody
receives stays where it is. The handler is abstracted to the events it sends and
the result. `flushers` are the goroutines started by `flushNotifier` that have not
reached `RetriveAndClear`, `sending` the messages they hold. An event is its
place in the sequence received, so lost and doubled lines can be seen.

### Host
`proc[p]` is a process with its place in `AppCtxInit` and the command's `Run`:
which storages and jobs are ready, the queue of jobs (each with the part of the command
that put it there: external, databases, files, or one by name), how each went, the metrics in
memory, what was logged and what was collected. The lock file names its owner and
can be taken over when that process does not run; that is the library's behaviour
as the code relies on it. Metrics are read, merged, truncated and written after
the lock is released, in the order of the deferred calls. `update` downloads,
extracts and renames.

## Runs

`CHECK_DEADLOCK FALSE` is set in all: jobs, calls, processes and the bounded days
end, and a process hit by a signal may block.

| Run | Instance | Shows |
|---|---|---|
| `BackupJob_targets` | local + smb, 2 targets, a daily rule or a weekly one, one midnight into a Sunday; fairness | the archive of each target survives every failure, retry and midnight; the run ends |
| `BackupJob_links` | local + ftp, 2 targets, daily and weekly on a Sunday, one midnight | metrics, errors and copies agree; nothing is delivered twice; `BackupStore` is implemented, symlinks included |
| `Rotation_rules` | nfs or s3, 3 runs in 12 days, two rules by date and two by count, both orders of rotation, midnight inside runs | by count as many copies as the rule says, the newest; by date every copy lives its term, and no longer |
| `LocalRotation_links` | 3 runs in 10 days with two Sundays that are firsts of month; six rules by date and two by count; one failure or kill at any system call or, with two of the rules, midnights anywhere in a run | every copy still wanted can be read, wherever midnights fall; with an accident anywhere, the last file of a backup goes only with all that is read from it |
| `DatabaseJob_types` | all eight types with their options, two databases or sources with two tables, two failures | what is stored without an error is all and only the data wanted; password and stopped replica do not stay, nor the dump of a target that is registered |
| `FtpConnection_calls` | 3 kinds of servers, 2 calls, 2 failures, 2 directories; fairness | replies stay in step, success means a whole file, no data connection is leaked, no error without a cause, every call ends |
| `Runtime_process` | mailer (errors; its SMTP server may be away) + webhook (info), all commands, 2 events, 2 signals; fairness | no event lost or doubled, no quiet message, exit status, the process ends by itself |
| `Host_commands` | two processes with several commands, three jobs, one more storage, one failure or kill; fairness | the lock excludes and survives its owner's death; a quiet start has done all jobs; an update leaves a whole program; commands end |

The bounds are enough for the cases that matter. Two storages give every mixture
of success and failure, and a local and a remote one their order; two targets
give a delivery that comes again for the first after the second was dumped; one
midnight separates the decision from each delivery. Three runs exceed rules of one
and two, so that rotation in both orders has something to delete; twelve and
ten days hold two Sundays or firsts of month at the distance that a rule of one or two
needs. One failure of a local rotation is the bound of what can be promised, not only of
the instance: with two, a link may come to lead to a link and be moved where the loop does not
see it, and `LastFileGoesLast` is violated (with rule 40/3/1 and months of two weeks, in thirty
days). Two databases show one leaking into the other, two
failures a failing step followed by a failing undo. Two ftp failures lose a
connection and then its replacement; two calls use a connection that the first
has left in some state. Two notifiers of different level and two events make flushes
overlap; two processes contend for the lock, and one crash is enough to leave it.

The constraint of `LocalRotation_links` (`LateOrFailing`) keeps apart midnights inside runs and
failures, as both together are too many states, and gives such midnights to rules that `WeeksFit`
allows with them (see Proofs). Its ten days hold a rotation of each directory before and after
a midnight.

Bounds by name: `MaxNights` (midnights in a run), `MaxAge` (midnights between a dump and its
delivery to a local storage, fewer than a week), `LastDay` and `MaxRuns` (days and
runs of the rotations), `MaxFaults` (failures and kills), `Depth` and `MaxOld`
(directories and outdated files met by an ftp call), `MaxCalls`, `MaxEvents` and
`MaxSignals` (`Runtime`).

### Disagreements found
Each has a run that stops at a violation, and an entry in `PROJECT.json`.

* `Runtime_smtp`: an SMTP server that cannot be reached makes the mailer close a
  nil connection; the panic takes the other notifiers' messages along.
* `BackupJob_midnight`: with weekly or monthly rules a run that passes midnight
  delivers to no directory, successfully, and removes the archive.
* `LocalRotation_weekly`: a weekly copy that is a link to a monthly file is left
  dangling when the monthly file is outdated on a first of month that is no Sunday: the
  weekly directory is not listed on such a day.
* `Host_metrics`: metrics of jobs that did not run are overwritten with blanks, as every
  configured job is registered at start-up.

`LocalRotation_weekly` finds a second one with the rule 2/2/1 by count and
`MaxRuns = 3`. When the monthly file is moved to the weekly directory its daily link is made
anew (local.go:204), with the modification time of the rotation. Rotation by count orders by that
time: of three backups, two of them made on a Sunday that is a first of month, the daily copy of
the second is deleted and the older one of the first stays.
The passing run has for this reason no rule by count whose weekly copies outlive the
monthly ones; its rule 2/1/1 takes the other branches.

Two more are in what the properties except, and have no run of their own:

* docs/3.5:72 say that a directory "will strictly hold" as many copies as a rule by count says.
  Copies whose names end in neither `.tar` nor `.tar.gz` are never rotated on a local storage or a file
  server (common.go:170): `HoldsItsCount` is violated with `tar` false by three runs on nfs with
  rule 2/1/1. `CountIsBounded` and `WindowIsBounded` are about the others (`IsRotated`).
* docs/3.5:90 speak of a number of weekly copies "created on sunday". Unsafe rotation on a Sunday takes
  the oldest one away to make room; when the dump passes midnight the new copy is a daily one only,
  and with rule 2/1/0 by count no weekly copy is left. TLC finds this, without any failure, when
  `IsRecent` is `Newer(p, r) < RetentionCount(rule, p)`.

More can be read in the models without a run of their own: with months but no weeks, as in the
example of docs/3.5, s3 never deletes a monthly copy (`S3Serves`); `targz.Tar` and the
deferred `Close` lose errors (`ignored` in `DatabaseJob`); a failed dump leaves its
temporary file behind (`DumpFails` before `CleanupTmpData`); safe rotation deletes after
a run that created nothing (`StorageRotation!DumpFails`); a local delivery that
fails after its rename leaves nothing to upload when it is repeated, and with links
the repetition truncates the copy (`Delivery!Behind`); when the rotation of a local storage cannot
remove a daily link in order to make it anew, the link stays with nothing behind it, is not known to the next
rotation, and the weekly file goes although the daily copy is in its term (`Relink`); a broken ftp connection makes
`DeleteOldBackups` dereference a nil error (the result `panic`); an update whose
archive lacks the program damages the old one (`release = "other"`).

## Fairness

`BackupJob!FairSpec` has weak fairness of the program's steps together: the job
is one goroutine, and the assumption says that each external call returns, with
or without an error (ssh, smb and ftp dial with timeouts; a dump command is assumed to
end). Nothing is assumed of `Midnight`. `Runtime!FairSpec` has weak fairness of
each goroutine, which the Go scheduler gives, and of the sends, which assumes that
mail and web servers answer: the webhook's client has no timeout of its own, so
without that assumption a process may wait for it for ever. Signals and the
failure of the server's listener need not happen. `FtpConnection!FairSpec` has weak
fairness of the client and of a server whose connection is open: the library
sets no deadline for reading, so a server that neither answers nor closes stops the
call. `Host!FairSpec` has weak fairness of each process; being killed is never
forced. The lock is retried at intervals for a limited time, so a start that does
not get it ends as well. The other specifications state no fairness: they
check safety alone.

## Proofs

`DeliveryProofs` states once what an outcome of `DeliverBackup` is: well typed;
nil only if every due directory can be read; the archive disappears only by a move
that leaves a complete copy. It also has the facts about the calendar that both rotations
need: what `Firsts`, `MonthsBack` and the retention dates of `Retention` are, how they relate to
numbers of Sundays and firsts of month (`ManySundays`, `FewFirsts` and others), and that a copy
which a rule by date deletes is past its term (`TermIsOver`). For these `SundayAssumption`, of
`Retention`, says that Sundays are seven days apart. `BackupJobProofs` builds on it an inductive invariant

    TypeOK /\ Phases /\ Dates /\ Stored /\ Collected

`DeliveryOkIsStored` is not inductive alone. A later rotation could remove what is
stored, unless the copies are known not to be older than the run (`Dates`); the
visit in progress must be related to the storages it has passed (`Stored`: those
in neither `todo` nor `failed` are complete); and the error flag has to be related
to what is undumped and undelivered at each place of `Perform` (`Collected`,
`Phases`) before an end without errors says anything. The theorems, for every
value of the constants that meets `JobAssumption` and `CalendarAssumption`:

* `TypeCorrect`, `DeliveryMetricIsStored`, `SilenceIsSuccess`: invariants;
* `DeliveredStaysAlone`, `DeferredDeliveryWaits`: action properties, the second of
  which no run checks;
* `RemoteAlwaysFindsArchive`, `PendingArchiveIsKept`, `LastCopyAlwaysSurvives`: under
  the further assumption `OnePeriodLocally` that no local storage has two due
  directories on one day, hence makes no symlink. Without it they are false, for
  the repeated local delivery named above; `BackupJob_targets` checks an instance with
  it. Their invariant is `TypeOK /\ Phases /\ Archived`, which says for each dumped
  object whether its archive is in the temporary directory or a complete copy is on
  a storage that took it.

`PromiseIsKept` is the refinement: every step of `BackupJob` is one of `BackupStore` or a
stutter. Its hypothesis `SomethingDueDaily` is that every storage's rule has a due directory on every day;
`BackupJob_midnight` shows what happens otherwise. The mapping is followed along
`TypeOK /\ Phases /\ Collected /\ Apart /\ Taken`: `Apart` says that no
target is both dumped and still to be dumped, `Taken` that every storage the visit in progress
has passed holds a copy of the object, unless it refused.

Each of the other components has an inductive invariant of its own, in its `...Proofs`
module. TLC has found no reachable state outside of it on the instance of the component's run.

`RuntimeProofs`: `TypeOK /\ Offers /\ Ends /\ Lines`. `Ends` relates the places of the
four routines to what the handler has returned and who has cancelled the contexts: the
exit status is decided by a `cancel` that raced with signals long before `main` reads it.
`Lines` follows a line through buffer, goroutine and server. `NoLineTwice` needs only
itself, but `EveryNotifierServed` needs that the level kept with a buffer is that of its
loudest line (`Lowest`, or the buffer would be cleared with a loud line in it), that nothing is
lost (`Accounted`), and that a goroutine is there for a full buffer after the last flush
(`Drained`). Theorems: `TypeCorrect`, `ExitCodeIsTrue`, `LinesAreSentOnce`,
`QuietMessagesStay`, `NotifiersAreServed`.

`HostProofs`: `Locked`, `Updated` and `Quiet`, each inductive with `TypeOK`, `Quiet` with
`Updated` as well. `Quiet` says of a start that has logged nothing what of its jobs is
in the queue, done, or still ready to be queued, at each place between the configuration and
its end; the queue is a set of jobs with the part of the command that put them there, so that
what is left of it needs no counting. Theorems: `TypeCorrect`, `JobsOneAtATime`,
`ProgramStaysWhole`, `QuietStartsAreClean`, and the lemmas `LockIsHeld` and `UpdatesKeepOrder`.
They assume with `HostAssumption` that names of jobs are unique, as docs/3.2 demand, and
that no job has the name of another command of the model.

`FtpConnectionProofs`: `TypeOK /\ Course /\ Dialled /\ Exchanges /\ Uploads`. That the next
reply answers the last command is true because exactly so many replies are outstanding as
`Exchange` says for the client's place: none, one, or the two of a transfer in one of five
states (`Asked`, `Answered`, `Transfers`, `Goes`, `Transferred`). A login on a new
connection abandons whatever is outstanding on the old one, so the exchange is said of the connection
in use (`Course`) and all others are idle; `Dialled` bounds the connections by
the failures. `Uploads` adds what of the file has been carried and what the server has
said of it. `Unharmed` is inductive with all that: as long as nothing has failed, and the
server announces MLST, every reply on the way is the good one for its place (`GoodReplies`), the
directories are asked for and made one below the other (`LevelsFit`), and a transfer ends only when it
is complete (`TransferRuns`). Theorems: `TypeCorrect`, `NoReplyIsMistaken`, `NoConnectionLeaks`,
`SuccessIsTrue`, `ErrorsHaveCauses`.

`DatabaseJobProofs`: `createTmpBackup` is a list of steps, right by its order. `Ordered`
(in `Course`) says which step must, or must not, have which others behind it; it is
proved once for the eight lists (`Planned`) and holds of every suffix. With it the other
parts speak of the steps ahead, and of the calls deferred, as sets: the archive
is whole once no writer is ahead (`Progress`, `Completeness`); a dump, a password or a
stopped replica that still exists has its undoing ahead or deferred, or an ignored error
to explain it (`Dumps`, `Secrets`, `Replication`); archives and copies have only what
their target wants (`Copies`, `Rightful`). Theorems: `TypeCorrect`, `SilenceIsTrue`,
`TargetsAreApart` (as long as no removal of a dump has failed), `SecretsAreShort`,
`ReplicaGoesOn`, `DumpsAreFreed` (of targets that are registered for delivery; a dump that fails
before its `RemoveAll` does stay). The assumption that `None`
is no dump only makes the marker for "no file" different from every content.

`StorageRotationProofs`: `TypeOK /\ Dated /\ OnePerRun /\ Older /\ Trimmed`. That `NewestStay` and
`CopiesLiveTheirTerm` hold is a matter of one step, once the copies are known to be ordered by
their runs and days (`Dated`, `OnePerRun`). `CountsAreKept` and `WindowsAreKept` bound what is
there after a clean rotation, in whichever order rotation and delivery come: `Trimmed` says
for each place of a run which directories have been brought within the rule, or within
the rule less the copy that is to come, and `Older` that this copy is newer than all of them. Both are about copies that pass the
filter of names, or are on s3 (`IsRotated`). The
lemmas `EnoughStay` and `FewStay` count what the operators of `Retention` leave. Both theorems have the
hypothesis `S3HasWeeks`: on s3, rules with months have weeks. Without it they are false:
with rule 1/0/1 TLC finds two monthly copies after the second first of month.

`LocalRotationProofs`: `Base /\ LinksAreKnown /\ LinksStayLinks /\ LinksLeadToFiles /\
KeptForLinks`, where `Base` is `TypeOK`, the course of a run (`Course`: a run has no copies
before its delivery, the loops leave nothing behind) and the direction of links (`LinksLeadBack`).
The loop decides by `linked` and `doomed`, which were read before it began to move and
remove files; the other parts say what of them is still true for the names that it has not come
to. A link to a file that is to go is known or could not be read (`LinksAreKnown`); where a link
is to be replaced by its file there is still a link, or nothing (`LinksStayLinks`), so that moving a
file overwrites no archive; a file with a link that is to stay is `kept` when the loop
comes to its removal (`KeptForLinks`). `LastFileIsLast` has the hypothesis
`MaxFaults <= 1`: a second accident can strand a link that leads to a link (`LinksLeadToFiles`, whose
exception lasts from `Relink` to `MoveToDaily` because there has been a fault).

`WantedIsReadable` needs far more, as it speaks of days and runs long after the rotation that could
have harmed it. `WantedInv` is inductive while nothing has failed (`faults = 0`):

* `Needed` is what no rotation of the current run may take. By count it is less than
  `IsWanted`: a rotation before the backup makes room (`Room`) for the copy to come, which after
  a midnight in the run may not come to that directory (`late`). What
  is needed after a step was needed before it, or is made by it (`NeededWas`), and is never in
  `doomed` (`DoomedAreDone`). By date that is `TermIsOver`, for each directory with the date that the listing read for it,
  and what was not listed is done with all the same (`UnlistedAreDone`); by count it needs that the
  modification times by which the code orders copies order them by their runs as well
  (`CopiesAreMade`, `CopiesInOrder`, `MadeInOrder`).
* What is needed is readable (`NeededAreReadable`), except between `MoveToWeekly` and `Relink`, when
  a daily link leads to the place that the file has left.
* For the names ahead of the loop, the file and its links are where the listing saw them
  (`LinksWait`), so no removal of a link fails unnoticed; the file moved over its weekly
  link is no more in its old place (`FileIsMoved`). `WeeklyGoesToo`: by count, a weekly link is
  doomed with its monthly file, so that no link is made anew with a time that breaks the order.

`WantedStaysReadable` has the hypothesis `WeeksFit` about rules that have both weeks and months. A
rule by date must keep no weekly copy beyond the first of month on which its monthly file
is outdated, if the weekly directory may not be listed then: if that day is no Sunday, or
whenever midnight may come between the two (`Unmatched`). On a real calendar four Sundays lie
between, so `weeks <= 4 * months` is enough.
A rule by count must have `weeks <= months`, and no such day after
a first of month that is a Sunday: however few weekly copies it keeps, runs on such firsts of month alone push the monthly
file out and leave the weekly link, which is the newest. On a real calendar that excludes, in
the long run, every rule by count with both. Each part is needed: in the calendar of `LocalRotation_weekly`
TLC finds `WantedIsReadable` violated by rule 7/5/1 by date and by rule 3/1/1 by count, and in that of
`LocalRotation_links` by rule 2/2/1 by count. `MonthAssumption`, that more than `MaxAge` days lie
between firsts of month, keeps an archive that is delivered on a first of month from being dated on the
one before, or earlier. Theorems: `TypeCorrect`,
`LastFileIsLast`, `WantedStaysReadable`.

No invariant is only model-checked. Liveness under fairness (`Terminates`, `EndsByItself`, `CallsEnd`, `StartsEnd`) and ENABLED
are beyond the prover; so is induction over data, and RECURSIVE operators, of
which no module has one.

## Not modelled

* `generate_config`, `conf/`, the reading and checking of YAML, `list`'s layout: text in,
  text out, without state.
* The metrics exporter: formats the values of the file on request.
* The WebDAV client and the database connections (`ds/`): one request or connection
  per call; what a failure leaves behind is in `Delivery` and `DatabaseJob`.
* Lists of collections to dump (`target_collections` of mongodb) and the arguments of
  the programs.
* The names of files, but for whether they pass the filter for `.tar`, and how s3 guesses a
  period from the text of a key.
* Commands of the ftp library that the storage never sends, TLS, the parsing of listings.
* Rate limits and compression, message layout.
* The goroutine that feeds s3's deletion and stays behind when the loop returns early:
  it ends with the process.
* A kill between truncation and writing of the metrics file has its states in `Host`
  and no property, as the code promises nothing then.
