-------------------------------- MODULE Host --------------------------------
(***************************************************************************)
(* The processes of nxs-backup on one host, started by cron or by hand:    *)
(* what each makes of the configuration (AppCtxInit, storagesInit,         *)
(* jobsInit), the start command with the lock file they share, the file    *)
(* with the metrics, and the commands that test, list and update.          *)
(* A process may be killed at any time.                                    *)
(*                                                                         *)
(* The lock file is a library's (nightlyone/lockfile): it holds the owner  *)
(* and may be taken over when that process does not run any more.          *)
(***************************************************************************)
EXTENDS Integers

CONSTANTS Processes,
          Commands,    \* per process, the commands it may be started with
          Config,      \* the jobs: name, group and the names of the storages
          Connections, \* the storages of the configuration, beside "local"
          None,        \* no process
          MaxFaults    \* bound: failures and crashes

Groups == {"external", "databases", "files"}
Entries == DOMAIN Config
JobNames == {Config[i].name : i \in Entries}
StartNames == JobNames \cup Groups \cup {"all"}
Values == {"absent", "blank", "good", "bad"} \* metrics of a job; blank: it is only registered

ASSUME HostAssumption ==
    /\ \A i \in Entries : Config[i].group \in Groups \cup {"unknown"}
    /\ \A i, j \in Entries : Config[i].name = Config[j].name => i = j \* docs/3.2: "Job unique name"
    /\ Commands \in [Processes -> SUBSET (StartNames \cup {"test", "ls", "update"})]
    /\ JobNames \cap {"test", "ls", "update"} = {} \* told apart from the other commands
    /\ None \notin Processes /\ MaxFaults \in Nat

VARIABLES enabled,   \* metrics.enabled of the configuration
          listed,    \* the jobs of Config that the configuration lists
          proc,      \* the processes, see Process
          lock,      \* the owner named in the lock file, or None
          metrics,   \* the file: is "empty", "cut" or "whole", and what it says
          exe,       \* the program's file: "old", "new", "empty" or "part" of it
          tmp,       \* what self_update has beside it: "tgz", and the next program
          release,   \* what self_update has found to download: "program", "other", "page"
          faults

vars == <<enabled, listed, proc, lock, metrics, exe, tmp, release, faults>>

\* avail, ready: storages and jobs that could be initialised; queue: jobs
\* still to be performed, with the part of Run that does it; done: per job, how
\* it went; mem: md.Job; logged: an error was logged; errs: one was collected;
\* mixed: another process writes the metrics at the same time.
Process ==
    [cmd : StartNames \cup {"none", "test", "ls", "update"},
     pc : {"idle", "storages", "jobs", "run", "lock", "perform", "unlock", "read", "open", "write", "rest",
           "exit", "check", "download", "extract", "rename", "ended", "killed"},
     avail : SUBSET (Connections \cup {"local"}), ready : SUBSET Entries, queue : SUBSET ((1 .. 4) \X Entries),
     done : [Entries -> {"none", "good", "bad", "notDue"}],
     mem : [JobNames -> Values], logged : BOOLEAN, errs : BOOLEAN, mixed : BOOLEAN,
     result : {"none", "ok", "error"}]

Idle ==
    [cmd |-> "none", pc |-> "idle", avail |-> {}, ready |-> {}, queue |-> {},
     done |-> [i \in Entries |-> "none"], mem |-> [n \in JobNames |-> "absent"],
     logged |-> FALSE, errs |-> FALSE, mixed |-> FALSE, result |-> "none"]

\* Not for names that stand for a group, nor for unknown types.
IsAcceptable(i) == Config[i].name \notin Groups /\ Config[i].group # "unknown"

Init ==
    /\ enabled \in BOOLEAN /\ listed \in {Entries, {i \in Entries : IsAcceptable(i)}}
    /\ proc = [p \in Processes |-> Idle]
    /\ lock = None
    /\ metrics \in {[is |-> "empty", of |-> [n \in JobNames |-> "absent"]],
                    [is |-> "whole", of |-> [n \in JobNames |-> "good"]]}
    /\ exe = "old" /\ tmp = {} /\ release = "none"
    /\ faults = 0

Fault == faults < MaxFaults /\ faults' = faults + 1
NoFault == UNCHANGED faults
config == <<enabled, listed>>
updating == <<exe, tmp, release>>

At(p, pc) == proc[p].pc = pc
To(p, next) == proc' = [proc EXCEPT ![p] = next]
Alive(p) == proc[p].pc \notin {"idle", "ended", "killed"}
Ended(a, result) == [a EXCEPT !.pc = "ended", !.result = result]
Failed(a) == [a EXCEPT !.logged = TRUE, !.errs = TRUE]

-----------------------------------------------------------------------------
(***************************************************************************)
(* AppCtxInit.                                                             *)
(***************************************************************************)
\* Without a readable configuration or a log file the process ends at once;
\* updating does without them.
AppCtxInit(p, c) ==
    /\ At(p, "idle")
    /\ \/ To(p, [proc[p] EXCEPT !.cmd = c, !.pc = IF c = "update" THEN "check" ELSE "storages"]) /\ NoFault
       \/ c # "update" /\ To(p, Ended([proc[p] EXCEPT !.cmd = c], "error")) /\ Fault
    /\ UNCHANGED <<config, lock, metrics, updating>>

\* What cannot be connected, or has a wrong option, is left out: an error of
\* notifiersInit or storagesInit ends up in initErr, which start only logs.
StoragesInit(p) ==
    /\ At(p, "storages")
    /\ \E found \in SUBSET Connections, wellFormed \in BOOLEAN :
          /\ IF found = Connections /\ wellFormed THEN NoFault ELSE Fault
          /\ To(p, [proc[p] EXCEPT !.avail = found \cup {"local"}, !.pc = "jobs",
                                   !.logged = found # Connections \/ ~wellFormed])
    /\ UNCHANGED <<config, lock, metrics, updating>>

\* Broken: only a storage that is not there counts as an error.
WellConfiguredIfStored(p, i, ready) == Config[i].storages \subseteq proc[p].avail

\* All its storages are there and its sources, too.
WellConfigured(p, i, ready) == i \in ready /\ Config[i].storages \subseteq proc[p].avail

\* A job whose sources cannot be reached may be registered for the metrics
\* already; it is not among the jobs then.
JobsInit(p) ==
    /\ At(p, "jobs")
    /\ LET acceptable == {i \in listed : IsAcceptable(i)}
       IN \E ready, registered \in SUBSET acceptable :
             /\ ready \subseteq registered
             /\ IF ready = acceptable THEN NoFault ELSE Fault
             /\ To(p, [proc[p] EXCEPT
                   !.ready = ready,
                   !.mem = [n \in JobNames |->
                               IF \E i \in registered : Config[i].name = n THEN "blank" ELSE "absent"],
                   !.logged = @ \/ \E i \in listed : ~WellConfigured(p, i, ready),
                   !.pc = "run"])
    /\ UNCHANGED <<config, lock, metrics, updating>>

\* test_config ends with initErr.
TestConfig(p) ==
    /\ At(p, "run") /\ proc[p].cmd = "test"
    /\ To(p, Ended(proc[p], IF proc[p].logged THEN "error" ELSE "ok"))
    /\ UNCHANGED <<config, lock, metrics, updating, faults>>

\* list_backups collects also the errors that are none, and fails in any case.
ListBackups(p) ==
    /\ At(p, "run") /\ proc[p].cmd = "ls"
    /\ To(p, Ended(proc[p], "error"))
    /\ UNCHANGED <<config, lock, metrics, updating, faults>>

-----------------------------------------------------------------------------
(***************************************************************************)
(* The start command.                                                      *)
(***************************************************************************)
Selected(cmd, group) == cmd = group \/ cmd = "all"

\* Broken: a job that could not be initialised is there, but it is nil.
JobsOfWithNil(ready, group) ==
    {IF i \in ready THEN i ELSE 0 : i \in {i \in Entries : Config[i].group = group}}

JobsOf(ready, group) == {i \in ready : Config[i].group = group}

\* The parts of Run: the groups, and the job that is called like the argument.
Parts == 1 .. 4
Part(k, a) ==
    CASE k = 1 -> IF Selected(a.cmd, "external") THEN JobsOf(a.ready, "external") ELSE {}
      [] k = 2 -> IF Selected(a.cmd, "databases") THEN JobsOf(a.ready, "databases") ELSE {}
      [] k = 3 -> IF Selected(a.cmd, "files") THEN JobsOf(a.ready, "files") ELSE {}
      [] k = 4 -> {i \in a.ready : Config[i].name = a.cmd}

Plan(a) == UNION {{k} \X Part(k, a) : k \in Parts}

\* One part after the other, the jobs of each as the configuration lists them.
Precedes(x, y) == x[1] < y[1] \/ (x[1] = y[1] /\ x[2] < y[2])

StartBackup(p) ==
    /\ At(p, "run") /\ proc[p].cmd \in StartNames
    /\ To(p, [proc[p] EXCEPT !.pc = "lock"])
    /\ UNCHANGED <<config, lock, metrics, updating, faults>>

\* Broken: the file is not looked at.
IsFreeAlways == TRUE

IsFree == lock \notin {q \in Processes : Alive(q)}

TryLock(p) ==
    /\ At(p, "lock")
    /\ IsFree
    /\ lock' = p
    /\ To(p, [proc[p] EXCEPT !.queue = Plan(proc[p]), !.pc = "perform"])
    /\ UNCHANGED <<config, metrics, updating, faults>>

\* At once, or when waiting_timeout is over (until then the process tries
\* again).  The error is logged, but the deferred function overwrites it.
LockRefused(p) ==
    /\ At(p, "lock")
    /\ ~IsFree
    /\ To(p, [proc[p] EXCEPT !.logged = TRUE, !.pc = "read"])
    /\ UNCHANGED <<config, lock, metrics, updating, faults>>

\* backup.Perform: no storage, or none with a rule for today, and nothing is due.
Outcomes(p, i) ==
    {"notDue"} \cup (IF Config[i].storages \cap proc[p].avail = {} THEN {} ELSE {"good", "bad"})

Collect(a, outcome) == IF outcome = "bad" THEN Failed(a) ELSE a

\* Broken: the list of jobs is not shortened.
JobsLeftAgain(queue, x) == queue

JobsLeft(queue, x) == queue \ {x}

Perform(p) ==
    /\ At(p, "perform")
    /\ \E x \in proc[p].queue :
          /\ \A y \in proc[p].queue \ {x} : Precedes(x, y)
          /\ LET i == x[2]
             IN \E o \in Outcomes(p, i) :
                   To(p, [Collect(proc[p], o) EXCEPT
                      !.queue = JobsLeft(@, x), !.done[i] = o,
                      !.mem[Config[i].name] = IF o \in {"good", "bad"} THEN o ELSE @])
    /\ UNCHANGED <<config, lock, metrics, updating, faults>>

JobsDone(p) ==
    /\ At(p, "perform") /\ proc[p].queue = {}
    /\ To(p, [proc[p] EXCEPT !.pc = "unlock"])
    /\ UNCHANGED <<config, lock, metrics, updating, faults>>

\* Deferred last, it is done first: SaveFile runs without the lock.
Unlock(p) ==
    /\ At(p, "unlock")
    /\ lock' = IF lock = p THEN None ELSE lock
    /\ To(p, [proc[p] EXCEPT !.pc = "read"])
    /\ UNCHANGED <<config, metrics, updating, faults>>

-----------------------------------------------------------------------------
(***************************************************************************)
(* Data.SaveFile.                                                          *)
(***************************************************************************)
Writing(p) == At(p, "write") \/ At(p, "rest")

\* readFile takes a file that ends at once for one without jobs.
Readable == metrics.is # "cut"

SkipMetrics(p) ==
    /\ At(p, "read") /\ ~enabled
    /\ To(p, [proc[p] EXCEPT !.pc = "exit"])
    /\ UNCHANGED <<config, lock, metrics, updating, faults>>

\* "reuse old metrics for not run jobs": for those that are not registered.
ReadMetrics(p) ==
    /\ At(p, "read") /\ enabled
    /\ \/ /\ Readable /\ NoFault
          /\ To(p, [proc[p] EXCEPT !.pc = "open", !.mem = [n \in JobNames |->
                       IF proc[p].mem[n] = "absent" THEN metrics.of[n] ELSE proc[p].mem[n]]])
       \/ To(p, [Failed(proc[p]) EXCEPT !.pc = "exit"]) /\ (IF Readable THEN Fault ELSE NoFault)
    /\ UNCHANGED <<config, lock, metrics, updating>>

\* O_TRUNC.
OpenMetrics(p) ==
    /\ At(p, "open")
    /\ LET others == {q \in Processes \ {p} : Writing(q)}
       IN \/ /\ proc' = [q \in Processes |->
                   CASE q = p -> [proc[p] EXCEPT !.pc = "write", !.mixed = others # {}]
                     [] q \in others -> [proc[q] EXCEPT !.mixed = TRUE]
                     [] OTHER -> proc[q]]
             /\ metrics' = [is |-> "empty", of |-> [n \in JobNames |-> "absent"]] /\ NoFault
          \/ /\ To(p, [Failed(proc[p]) EXCEPT !.pc = "exit"])
             /\ Fault /\ UNCHANGED metrics
    /\ UNCHANGED <<config, lock, updating>>

\* The encoder writes piece by piece.
WriteMetrics(p) ==
    /\ At(p, "write")
    /\ \/ metrics' = [metrics EXCEPT !.is = "cut"] /\ To(p, [proc[p] EXCEPT !.pc = "rest"]) /\ NoFault
       \/ UNCHANGED metrics /\ To(p, [Failed(proc[p]) EXCEPT !.pc = "exit"]) /\ Fault
    /\ UNCHANGED <<config, lock, updating>>

\* What two processes have written at a time may be no metrics at all.
WriteRest(p) ==
    /\ At(p, "rest")
    /\ metrics' \in {[is |-> "whole", of |-> proc[p].mem]}
                    \cup (IF proc[p].mixed THEN {[metrics EXCEPT !.is = "cut"]} ELSE {})
    /\ To(p, [proc[p] EXCEPT !.pc = "exit"])
    /\ UNCHANGED <<config, lock, updating, faults>>

Done(p) ==
    /\ At(p, "exit")
    /\ To(p, Ended(proc[p], IF proc[p].errs THEN "error" ELSE "ok"))
    /\ UNCHANGED <<config, lock, metrics, updating, faults>>

-----------------------------------------------------------------------------
(***************************************************************************)
(* self_update.  Whatever it has made beside the program is removed when   *)
(* it ends; that is all that is left of a failure.                         *)
(***************************************************************************)
UpdateEnds(p, result) == To(p, Ended(proc[p], result)) /\ tmp' = {}

\* CheckNewVersionAvailable: none, an error, or a newer one.
CheckVersion(p) ==
    /\ At(p, "check")
    /\ \/ To(p, Ended(proc[p], "ok")) /\ NoFault /\ UNCHANGED release
       \/ To(p, Ended(proc[p], "error")) /\ Fault /\ UNCHANGED release
       \/ /\ To(p, [proc[p] EXCEPT !.pc = "download"]) /\ NoFault
          /\ release' \in {"program", "other", "page"}
    /\ UNCHANGED <<config, lock, metrics, exe, tmp>>

\* The answer's status is not looked at, but a page is no gzip.
Download(p) ==
    /\ At(p, "download")
    /\ \/ To(p, Ended(proc[p], "error")) /\ Fault /\ UNCHANGED tmp
       \/ /\ To(p, Ended(proc[p], "error")) /\ tmp' = tmp \ {"tgz"}
          /\ IF release = "page" THEN NoFault ELSE Fault
       \/ /\ release # "page"
          /\ To(p, [proc[p] EXCEPT !.pc = "extract"]) /\ tmp' = {"tgz", "empty"} /\ NoFault
    /\ UNCHANGED <<config, lock, metrics, exe, release>>

\* Broken: what there is of the program will do.
ExtractedAnyway(p) ==
    /\ To(p, [proc[p] EXCEPT !.pc = "rename"])
    /\ \/ NoFault /\ tmp' = {"tgz", IF release = "program" THEN "new" ELSE "empty"}
       \/ Fault /\ tmp' = {"tgz", "part"}

\* An archive without the program is read to its end: the new file stays empty.
Extracted(p) ==
    \/ /\ To(p, [proc[p] EXCEPT !.pc = "rename"]) /\ NoFault
       /\ tmp' = {"tgz", IF release = "program" THEN "new" ELSE "empty"}
    \/ UpdateEnds(p, "error") /\ Fault

Extract(p) ==
    /\ At(p, "extract")
    /\ Extracted(p)
    /\ UNCHANGED <<config, lock, metrics, exe, release>>

Rename(p) ==
    /\ At(p, "rename")
    /\ \/ UpdateEnds(p, "ok") /\ exe' \in tmp \ {"tgz"} /\ NoFault
       \/ UpdateEnds(p, "error") /\ UNCHANGED exe /\ Fault
    /\ UNCHANGED <<config, lock, metrics, release>>

-----------------------------------------------------------------------------
\* What a process has written, the lock and its temporary files stay.
Kill(p) ==
    /\ Alive(p) /\ Fault
    /\ To(p, [proc[p] EXCEPT !.pc = "killed"])
    /\ UNCHANGED <<config, lock, metrics, updating>>

\* Bound: one update at a time.
Updating == \E p \in Processes : Alive(p) /\ proc[p].cmd = "update"

\* Without a program nothing starts any more.
Start(p) == exe \in {"old", "new"} /\ \E c \in Commands[p] : (c = "update" => ~Updating) /\ AppCtxInit(p, c)

Run(p) ==
    \/ StoragesInit(p) \/ JobsInit(p) \/ TestConfig(p) \/ ListBackups(p)
    \/ StartBackup(p) \/ TryLock(p) \/ LockRefused(p) \/ Perform(p) \/ JobsDone(p) \/ Unlock(p)
    \/ SkipMetrics(p) \/ ReadMetrics(p) \/ OpenMetrics(p) \/ WriteMetrics(p) \/ WriteRest(p) \/ Done(p)
    \/ CheckVersion(p) \/ Download(p) \/ Extract(p) \/ Rename(p)

Next == \E p \in Processes : Start(p) \/ Run(p) \/ Kill(p)

Spec == Init /\ [][Next]_vars

\* Every step of a process is one of a thread that runs until it ends.
FairSpec == Spec /\ \A p \in Processes : WF_vars(Run(p))

-----------------------------------------------------------------------------
\* Type invariant of the processes and of the files they share.
TypeOK ==
    /\ enabled \in BOOLEAN /\ listed \subseteq Entries
    /\ proc \in [Processes -> Process]
    /\ lock \in Processes \cup {None}
    /\ metrics \in [is : {"empty", "cut", "whole"}, of : [JobNames -> Values]]
    /\ exe \in {"old", "new", "empty", "part"}
    /\ tmp \subseteq {"tgz", "new", "empty", "part"}
    /\ release \in {"none", "program", "other", "page"}
    /\ faults \in 0 .. MaxFaults

\* The lock of start_backup.go:84-104: two processes never perform jobs at the
\* same time, though one may take over the lock of a process that was killed.
OneAtATime ==
    \A p, q \in Processes : At(p, "perform") /\ At(q, "perform") => p = q

\* A start that has logged no error and exits with 0 has done every job that the
\* configuration lists and the argument stands for: it went well or was not due.
\* Neither a storage nor a job that is left out at the start
\* (storages_init.go:28-85, jobs_init.go:37-392) goes unnoticed, nor a lock
\* that is taken.
QuietExitIsClean ==
    \A p \in Processes : \A i \in listed :
        LET a == proc[p]
        IN /\ a.cmd \in {"all", Config[i].group, Config[i].name}
           /\ a.result = "ok" /\ ~a.logged
           => a.done[i] \in {"good", "notDue"} /\ Config[i].storages \subseteq a.avail

\* self_update.go:31-130 puts a whole program in the place of the old one,
\* whatever fails, as long as the archive has one; it leaves nothing beside the
\* program unless it is killed.
ProgramIsWhole ==
    /\ exe \in {"old", "new"} \/ release = "other"
    /\ tmp # {} => \E p \in Processes : proc[p].cmd = "update" /\ proc[p].pc # "ended"

\* Every command ends, also one that waits for the lock.
StartsEnd ==
    \A p \in Processes : proc[p].cmd # "none" ~> proc[p].pc \in {"ended", "killed"}

\* "reuse old metrics for not run jobs" (metrics.go:90): before it writes the
\* file, a start has taken over what the file says of the jobs it has not run.
MetricsOfOthersKept ==
    \A p \in Processes : \A i \in listed :
        At(p, "open") /\ proc[p].done[i] = "none" /\ metrics.of[Config[i].name] # "absent"
        => proc[p].mem[Config[i].name] = metrics.of[Config[i].name]

=============================================================================
