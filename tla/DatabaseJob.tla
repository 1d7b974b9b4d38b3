----------------------------- MODULE DatabaseJob -----------------------------
(***************************************************************************)
(* The jobs that call other programs for their dumps: Init, which asks the *)
(* servers what there is to dump, the loop of DoBackup, and createTmpBackup*)
(* of each type, written as the list of its steps with what it defers.     *)
(* Any step may fail.  Storages.Delivery is the subject of BackupJob: here *)
(* an object is delivered or is not.                                       *)
(*                                                                         *)
(* A target is a database for mongodb, mysql and postgresql, else a source *)
(* of the job.  The data of a target is a set of tables (collections).     *)
(***************************************************************************)
EXTENDS Integers, Sequences

CONSTANTS Names,      \* databases of the server, or sources of the job
          Tables,     \* tables or collections
          JobChoices, \* configurations of the job
          All,        \* the target "all"
          None,       \* no target, no file
          MaxFaults   \* bound: steps that fail

DatabaseTypes == {"mongodb", "mysql", "postgresql"}
SourceTypes == {"mysql_xtrabackup", "postgresql_basebackup", "redis"}
Types == DatabaseTypes \cup SourceTypes \cup {"external"}

\* excludes holds databases and pairs of a database and a table.
Jobs == [type : Types, gzip : BOOLEAN, isSlave : BOOLEAN, prepare : BOOLEAN, deferred : BOOLEAN,
         forbidden : BOOLEAN, targets : SUBSET (Names \cup {All}),
         excludes : SUBSET (Names \cup (Names \X Tables))]

ASSUME DatabaseJobAssumption ==
    /\ JobChoices \subseteq Jobs
    /\ All \notin Names /\ None \notin Names
    /\ \A dump \in SUBSET (Names \X Tables) : dump # None
    /\ MaxFaults \in Nat

Pairs == Names \X Tables
Contents == {None} \cup SUBSET Pairs \* of a file: None if there is none

VARIABLES job,
          server,   \* the tables of each database or source
          targets,  \* j.targets: what is to be dumped of each
          undumped, \* targets the loop has not come to
          cur,      \* the target createTmpBackup works on
          pc,
          steps,    \* what createTmpBackup has still to do
          defers,   \* what it has deferred, the last one first
          failing,  \* it returns an error
          archive,  \* the tmpBackupFile of each target
          raw,      \* per directory, what a program has dumped before it is packed
          auth,     \* targets whose file with the password is there
          replica,  \* "runs" or "stopped"
          dumped,   \* the keys of dumpedObjects
          stored,   \* what a storage has taken of each target
          errs,     \* the job reports an error
          ignored,  \* failures that it does not report, with their target
          faults

files == <<archive, raw, auth>>
loop == <<job, server, targets, undumped, cur>>
body == <<steps, defers, failing>>
vars == <<loop, pc, body, files, replica, dumped, stored, errs, ignored, faults>>

Fault == faults < MaxFaults /\ faults' = faults + 1
NoFault == UNCHANGED faults
Ignore(what) == ignored' = ignored \cup {<<what, cur>>}

\* The dump directory of mongodump is the same for all databases of a source.
Dir(n) == IF job.type = "mongodb" THEN None ELSE n

Init ==
    /\ job \in JobChoices
    /\ server \in [Names -> SUBSET Tables]
    /\ targets = <<>> /\ undumped = {} /\ cur = None
    /\ pc = "init" /\ steps = <<>> /\ defers = <<>> /\ failing = FALSE
    /\ archive = [n \in Names |-> None] /\ raw = [d \in Names \cup {None} |-> None] /\ auth = {}
    /\ replica = "runs"
    /\ dumped = {} /\ stored = [n \in Names |-> None]
    /\ errs = FALSE /\ ignored = {} /\ faults = 0

-----------------------------------------------------------------------------
(***************************************************************************)
(* Init of each type: the targets of the job.                              *)
(***************************************************************************)
Databases == (IF All \in job.targets THEN Names ELSE job.targets) \ job.excludes

Wanted(n) == {x \in {n} \X server[n] : x \notin job.excludes}

\* mongodump is called once for each collection that is not excluded.
MongodumpTargets == [n \in Databases |-> Wanted(n)]

\* mysqldump is told the tables to leave out with --ignore-table.
MysqldumpTargets == [n \in Databases |-> Wanted(n)]

\* An extra key may not redirect pg_dump's output.
PgDumpTargets == IF job.forbidden THEN {} ELSE {[n \in Databases |-> Wanted(n)]}

\* xtrabackup leaves out databases: here they are the tables of a source.
XtrabackupTargets == [n \in Names |-> Wanted(n)]

PgBasebackupTargets == IF job.forbidden THEN {} ELSE {[n \in Names |-> {n} \X server[n]]}

RedisTargets == [n \in Names |-> {n} \X server[n]]

\* The job has one target, which its script dumps.
ExternalTargets == {[n \in {m} |-> {n} \X server[n]] : m \in Names}

TargetChoices ==
    CASE job.type = "mongodb" -> {MongodumpTargets}
      [] job.type = "mysql" -> {MysqldumpTargets}
      [] job.type = "postgresql" -> PgDumpTargets
      [] job.type = "mysql_xtrabackup" -> {XtrabackupTargets}
      [] job.type = "postgresql_basebackup" -> PgBasebackupTargets
      [] job.type = "redis" -> {RedisTargets}
      [] job.type = "external" -> ExternalTargets

InitJob ==
    /\ pc = "init"
    /\ targets' \in TargetChoices
    /\ undumped' = DOMAIN targets'
    /\ pc' = "loop"
    /\ UNCHANGED <<job, server, cur, body, files, replica, dumped, stored, errs, ignored, faults>>

\* The program is not installed, a server cannot be asked, or a key is forbidden.
InitFails ==
    /\ pc = "init"
    /\ IF TargetChoices = {} THEN NoFault ELSE Fault
    /\ pc' = "done" /\ errs' = TRUE
    /\ UNCHANGED <<loop, body, files, replica, dumped, stored, ignored>>

-----------------------------------------------------------------------------
(***************************************************************************)
(* createTmpBackup of each type.                                           *)
(***************************************************************************)
Option(enabled, step) == IF enabled THEN <<step>> ELSE <<>>

\* Broken: the directory with the collections is not removed.
MongodumpStepsLeavingDump == <<"mongodump", "Tar">>

MongodumpSteps == <<"defer RemoveAll", "mongodump", "Tar">>

MysqldumpSteps ==
    <<"GetGZipFileWriter">> \o Option(job.isSlave, "STOP SLAVE")
        \o <<"CreateTmpMysqlAuthFile", "dump to archive">>

\* Broken: the dump stays beside the archive.
XtrabackupStepsLeavingDump ==
    <<"CreateTmpMysqlAuthFile", "dump to directory">> \o Option(job.prepare, "prepare") \o <<"Tar">>

XtrabackupSteps ==
    <<"CreateTmpMysqlAuthFile", "dump to directory">> \o Option(job.prepare, "prepare")
        \o <<"Tar", "RemoveAll">>

PgDumpSteps == <<"GetGZipFileWriter", "dump to archive">>

PgBasebackupSteps == <<"dump to directory", "Tar", "RemoveAll">>

\* Without gzip the dump is the archive.
RedisSteps ==
    (IF job.gzip THEN <<"dump to directory", "GZip", "RemoveAll">> ELSE <<"dump to archive">>)
        \o <<"register">>

\* The script tells on its output where its dump is.
ExternalSteps ==
    (IF job.gzip THEN <<"dump to directory", "parse", "GZip", "RemoveAll">>
                 ELSE <<"dump to archive", "parse">>)
        \o <<"register", "Stat">>

Steps ==
    CASE job.type = "mongodb" -> MongodumpSteps
      [] job.type = "mysql" -> MysqldumpSteps
      [] job.type = "mysql_xtrabackup" -> XtrabackupSteps
      [] job.type = "postgresql" -> PgDumpSteps
      [] job.type = "postgresql_basebackup" -> PgBasebackupSteps
      [] job.type = "redis" -> RedisSteps
      [] job.type = "external" -> ExternalSteps

\* Broken: the target stays in the list.
BeginTargetUncounted(n) ==
    /\ pc = "loop" /\ n \in undumped
    /\ cur' = n
    /\ steps' = Steps /\ defers' = <<>> /\ failing' = FALSE
    /\ pc' = "run"
    /\ UNCHANGED <<job, server, targets, undumped, files, replica, dumped, stored, errs, ignored, faults>>

\* The loop of DoBackup takes the targets in any order.
BeginTarget(n) ==
    /\ pc = "loop" /\ n \in undumped
    /\ undumped' = undumped \ {n}
    /\ cur' = n
    /\ steps' = Steps /\ defers' = <<>> /\ failing' = FALSE
    /\ pc' = "run"
    /\ UNCHANGED <<job, server, targets, files, replica, dumped, stored, errs, ignored, faults>>

\* MkdirAll for tmpBackupFile fails: the next target.
MkdirFails(n) ==
    /\ pc = "loop" /\ n \in undumped /\ job.type # "external"
    /\ undumped' = undumped \ {n}
    /\ errs' = TRUE /\ Fault
    /\ UNCHANGED <<job, server, targets, cur, pc, body, files, replica, dumped, stored, ignored>>

At(step) == pc = "run" /\ steps # <<>> /\ Head(steps) = step
Proceed == steps' = Tail(steps) /\ UNCHANGED failing
Return == steps' = <<>> /\ failing' = TRUE
Outside == UNCHANGED <<loop, pc, stored, errs>>

\* Broken: nothing is deferred.
DeferNothing(what) == UNCHANGED defers

Defer(what) == defers' = <<what>> \o defers

DeferRemoveAll ==
    /\ At("defer RemoveAll")
    /\ Proceed /\ Defer("RemoveAll")
    /\ Outside /\ UNCHANGED <<files, replica, dumped, ignored, faults>>

GetGZipFileWriter ==
    /\ At("GetGZipFileWriter")
    /\ \/ archive' = [archive EXCEPT ![cur] = {}] /\ Proceed /\ Defer("Close") /\ NoFault
       \/ Return /\ Fault /\ UNCHANGED <<archive, defers>>
    /\ Outside /\ UNCHANGED <<raw, auth, replica, dumped, ignored>>

StopSlave ==
    /\ At("STOP SLAVE")
    /\ \/ replica' = "stopped" /\ Proceed /\ Defer("START SLAVE") /\ NoFault
       \/ Return /\ Fault /\ UNCHANGED <<replica, defers>>
    /\ Outside /\ UNCHANGED <<files, dumped, ignored>>

\* A failing write leaves the file: its removal is not deferred yet.
CreateTmpMysqlAuthFile ==
    /\ At("CreateTmpMysqlAuthFile")
    /\ \/ auth' = auth \cup {cur} /\ Proceed /\ Defer("DeleteTmpMysqlAuthFile")
          /\ NoFault /\ UNCHANGED ignored
       \/ Return /\ Fault /\ UNCHANGED <<auth, defers, ignored>>
       \/ auth' = auth \cup {cur} /\ Ignore("auth") /\ Return /\ Fault /\ UNCHANGED defers
    /\ Outside /\ UNCHANGED <<archive, raw, replica, dumped>>

\* mysqldump, pg_dump, redis-cli and a script write a file of their own accord.
DumpToArchive ==
    /\ At("dump to archive")
    /\ \/ archive' = [archive EXCEPT ![cur] = targets[cur]] /\ Proceed /\ NoFault
       \/ Return /\ Fault /\ archive' \in {archive, [archive EXCEPT ![cur] = {}]}
    /\ Outside /\ UNCHANGED <<defers, raw, auth, replica, dumped, ignored>>

\* What is in the directory of the target's dump.
Held == IF raw[Dir(cur)] = None THEN {} ELSE raw[Dir(cur)]

\* One collection after the other; the first that fails ends it.
Mongodump ==
    /\ At("mongodump")
    /\ \/ /\ raw' = [raw EXCEPT ![None] = IF targets[cur] = {} THEN @ ELSE Held \cup targets[cur]]
          /\ Proceed /\ NoFault
       \/ /\ \E part \in SUBSET targets[cur] :
                 part # {} /\ raw' = [raw EXCEPT ![None] = Held \cup part]
          /\ Return /\ Fault
    /\ Outside /\ UNCHANGED <<defers, archive, auth, replica, dumped, ignored>>

DumpToDirectory ==
    /\ At("dump to directory")
    /\ \/ raw' = [raw EXCEPT ![cur] = targets[cur]] /\ Proceed /\ NoFault
       \/ Return /\ Fault /\ raw' \in {raw, [raw EXCEPT ![cur] = {}]}
    /\ Outside /\ UNCHANGED <<defers, archive, auth, replica, dumped, ignored>>

\* prepare; the output of a script and its file: may fail, and leave all as it is.
MayFail(step) ==
    /\ At(step)
    /\ (Proceed /\ NoFault) \/ (Return /\ Fault)
    /\ Outside /\ UNCHANGED <<defers, files, replica, dumped, ignored>>

\* Broken: a failure to read or write is never an error.
PackedAnyway(packed) ==
    /\ archive' \in {[archive EXCEPT ![cur] = packed], [archive EXCEPT ![cur] = {}]}
    /\ Proceed /\ NoFault /\ UNCHANGED ignored

\* It fails, or the end of the archive is lost when the writer is closed.
Packed(packed) ==
    \/ archive' = [archive EXCEPT ![cur] = packed] /\ Proceed /\ NoFault /\ UNCHANGED ignored
    \/ archive' \in {archive, [archive EXCEPT ![cur] = {}]} /\ Return /\ Fault /\ UNCHANGED ignored
    \/ archive' = [archive EXCEPT ![cur] = {}] /\ Proceed /\ Fault /\ Ignore("write")

\* --ignore-failed-read: what was never dumped makes an empty archive.  A tar
\* killed by a signal, or unable to write, ends with a status that is not taken
\* for an error.
Tar ==
    /\ At("Tar")
    /\ Packed(Held)
    /\ Outside /\ UNCHANGED <<defers, raw, auth, replica, dumped>>

GZip ==
    /\ At("GZip")
    /\ Packed(raw[cur])
    /\ Outside /\ UNCHANGED <<defers, raw, auth, replica, dumped>>

\* Its error is not looked at.
RemoveAll ==
    /\ At("RemoveAll")
    /\ Proceed
    /\ \/ raw' = [raw EXCEPT ![cur] = None] /\ NoFault /\ UNCHANGED ignored
       \/ UNCHANGED raw /\ Fault /\ Ignore("raw")
    /\ Outside /\ UNCHANGED <<defers, archive, auth, replica, dumped>>

Register ==
    /\ At("register")
    /\ dumped' = dumped \cup {cur}
    /\ Proceed
    /\ Outside /\ UNCHANGED <<defers, files, replica, ignored, faults>>

\* Broken: what is deferred is done only if all went well.
DeferredUnlessFailing == defers # <<>> /\ ~failing

Deferred == defers # <<>>

\* The return value is already computed: a failure here goes to the log only.
RunDeferred ==
    /\ pc = "run" /\ steps = <<>> /\ Deferred
    /\ defers' = Tail(defers)
    /\ LET what == Head(defers)
       IN \/ /\ raw' = IF what = "RemoveAll" THEN [raw EXCEPT ![Dir(cur)] = None] ELSE raw
             /\ replica' = IF what = "START SLAVE" THEN "runs" ELSE replica
             /\ auth' = IF what = "DeleteTmpMysqlAuthFile" THEN auth \ {cur} ELSE auth
             /\ UNCHANGED <<archive, ignored>> /\ NoFault
          \/ /\ archive' = IF what = "Close" THEN [archive EXCEPT ![cur] = {}] ELSE archive
             /\ Ignore(CASE what = "Close" -> "write" [] what = "RemoveAll" -> "raw"
                          [] what = "START SLAVE" -> "replica" [] OTHER -> "auth")
             /\ UNCHANGED <<raw, replica, auth>> /\ Fault
    /\ Outside /\ UNCHANGED <<steps, failing, dumped>>

-----------------------------------------------------------------------------
(***************************************************************************)
(* DoBackup after createTmpBackup, and the end of Perform.                 *)
(***************************************************************************)
\* A target that failed is passed over; redis and external have registered
\* theirs already.
CreatedTmpBackup ==
    /\ pc = "run" /\ steps = <<>> /\ ~Deferred
    /\ cur' = None
    /\ errs' = (errs \/ failing)
    /\ dumped' = IF failing \/ job.type \in {"redis", "external"} THEN dumped ELSE dumped \cup {cur}
    /\ pc' = IF failing \/ job.deferred THEN "loop" ELSE "deliver"
    /\ job.type # "external"
    /\ UNCHANGED <<job, server, targets, undumped, body, files, replica, stored, ignored, faults>>

\* An external job returns its error, or delivers: whatever it had registered.
ExternalDone ==
    /\ pc = "run" /\ steps = <<>> /\ ~Deferred
    /\ job.type = "external"
    /\ cur' = None
    /\ errs' = (errs \/ failing)
    /\ pc' = IF failing THEN "cleanup" ELSE "deliverAll"
    /\ UNCHANGED <<job, server, targets, undumped, body, files, replica, dumped, stored, ignored, faults>>

TargetsDone ==
    /\ pc = "loop" /\ undumped = {}
    /\ pc' = "deliverAll"
    /\ UNCHANGED <<loop, body, files, replica, dumped, stored, errs, ignored, faults>>

\* Storages.Delivery takes every object that is not delivered, or fails.
Delivery ==
    /\ pc \in {"deliver", "deliverAll"}
    /\ LET waiting == {n \in dumped : stored[n] = None}
       IN \E taken \in SUBSET waiting :
             /\ stored' = [n \in Names |-> IF n \in taken THEN archive[n] ELSE stored[n]]
             /\ IF taken = waiting THEN NoFault /\ UNCHANGED errs ELSE Fault /\ errs' = TRUE
    /\ pc' = IF pc = "deliver" THEN "loop" ELSE "cleanup"
    /\ UNCHANGED <<loop, body, files, replica, dumped, ignored>>

\* CleanupTmpData removes the archives of the dumped objects, and no other.
CleanupTmpData ==
    /\ pc = "cleanup"
    /\ archive' = [n \in Names |-> IF n \in dumped THEN None ELSE archive[n]]
    /\ pc' = "done"
    /\ UNCHANGED <<loop, body, raw, auth, replica, dumped, stored, errs, ignored, faults>>

CreateTmpBackup ==
    \/ DeferRemoveAll \/ GetGZipFileWriter \/ StopSlave \/ CreateTmpMysqlAuthFile
    \/ DumpToArchive \/ Mongodump \/ DumpToDirectory
    \/ MayFail("prepare") \/ MayFail("parse") \/ MayFail("Stat")
    \/ Tar \/ GZip \/ RemoveAll \/ Register \/ RunDeferred

Next ==
    \/ InitJob \/ InitFails
    \/ \E n \in Names : BeginTarget(n) \/ MkdirFails(n)
    \/ CreateTmpBackup \/ CreatedTmpBackup \/ ExternalDone
    \/ TargetsDone \/ Delivery \/ CleanupTmpData

Spec == Init /\ [][Next]_vars

-----------------------------------------------------------------------------
(***************************************************************************)
(* Properties.                                                             *)
(***************************************************************************)
StepNames ==
    {"defer RemoveAll", "GetGZipFileWriter", "STOP SLAVE", "CreateTmpMysqlAuthFile", "dump to archive",
     "mongodump", "dump to directory", "prepare", "parse", "Stat", "Tar", "GZip", "RemoveAll", "register"}

\* Type invariant of the job, the files and the replica.
TypeOK ==
    /\ job \in JobChoices /\ server \in [Names -> SUBSET Tables]
    /\ DOMAIN targets \subseteq Names /\ \A n \in DOMAIN targets : targets[n] \subseteq Pairs
    /\ undumped \subseteq DOMAIN targets
    /\ pc \in {"init", "loop", "run", "deliver", "deliverAll", "cleanup", "done"}
    /\ IF pc = "run" THEN cur \in DOMAIN targets \ undumped ELSE cur = None
    /\ steps \in Seq(StepNames)
    /\ defers \in Seq({"Close", "START SLAVE", "DeleteTmpMysqlAuthFile", "RemoveAll"})
    /\ failing \in BOOLEAN /\ errs \in BOOLEAN /\ replica \in {"runs", "stopped"}
    /\ archive \in [Names -> Contents] /\ raw \in [Names \cup {None} -> Contents]
    /\ stored \in [Names -> Contents]
    /\ auth \subseteq Names /\ dumped \subseteq DOMAIN targets \ undumped
    /\ ignored \subseteq {"write", "raw", "replica", "auth"} \X Names
    /\ faults \in 0 .. MaxFaults

Ignored(what) == {n \in Names : <<what, n>> \in ignored}

\* A job that reports no error has stored every target as Init has found it,
\* complete, unless writing the archive failed in one of the ways that
\* createTmpBackup does not notice (targz.Tar, the deferred Close).
SilentRunIsWhole ==
    pc = "done" /\ ~errs =>
        \A n \in DOMAIN targets :
            /\ stored[n] # None
            /\ targets[n] \subseteq stored[n] \/ n \in Ignored("write")

\* No storage receives what the configuration excludes, nor one database in
\* the archive of another: mongodump's directory is that of all databases and
\* must be gone before the next dump.
NothingForeign ==
    \A n \in Names : stored[n] # None /\ Ignored("raw") = {} =>
        /\ job.type \in DatabaseTypes => n \notin job.excludes
        /\ stored[n] \subseteq {n} \X Tables
        /\ job.type \in DatabaseTypes \cup {"mysql_xtrabackup"} => stored[n] \cap job.excludes = {}

\* Whichever step of createTmpBackup fails, the file with the password does
\* not outlive it, unless it could not be written or removed.
PasswordRemoved == auth \ {cur} \subseteq Ignored("auth")

\* A replica that was stopped for a dump runs again when the next target, the
\* delivery or the end of the job comes, unless START SLAVE failed.
ReplicaRunsAgain == pc # "run" /\ replica = "stopped" => Ignored("replica") # {}

\* The uncompressed dump of a target that is registered for delivery is gone,
\* whatever other targets have met, unless just its removal failed.  (A step
\* that fails before RemoveAll leaves it, and its target unregistered.)  The
\* directory of mongodump is gone after every target, registered or not.
DumpGoesWhenRegistered ==
    /\ \A n \in dumped : raw[n] = None \/ n \in Ignored("raw")
    /\ pc # "run" => raw[None] = None \/ Ignored("raw") # {}
=============================================================================
