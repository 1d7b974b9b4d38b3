----------------------------- MODULE HostProofs -----------------------------
(***************************************************************************)
(* Proofs about Host, for all processes, commands and configurations and   *)
(* any number of failures and kills.                                       *)
(*                                                                         *)
(* Beside the types the inductive invariant has three parts: Locked (who   *)
(* performs jobs is the owner of the lock), Updated (the one update that   *)
(* runs, its files and the program) and Quiet (what a start that has       *)
(* logged nothing has still to do, has done and can rely on); only the     *)
(* last needs another, Updated, for an update that ends is no start.       *)
(***************************************************************************)
EXTENDS Host, TLAPS

Locked == \A p \in Processes : proc[p].pc \in {"perform", "unlock"} => lock = p

\* A start with this argument is expected to do job i.
Expected(a, i) == a.cmd \in {"all", Config[i].group, Config[i].name}

IsDone(a, i) == a.done[i] \in {"good", "notDue"}

\* After the jobs and before the end of a start.
Saving == {"unlock", "read", "open", "write", "rest", "exit"}

\* A start that has logged no error will do, or has done, what is expected.
QuietStart(a) ==
    /\ a.result # "none" => a.pc = "ended"
    /\ \A i \in listed : Expected(a, i) /\ ~a.logged =>
          /\ a.pc \in {"run", "lock"} => i \in a.ready /\ IsAcceptable(i)
          /\ a.pc = "perform" => IsDone(a, i) \/ \E k \in Parts : <<k, i>> \in a.queue
          /\ a.pc \in Saving \/ a.result = "ok" => IsDone(a, i)
          /\ a.pc \in Saving \cup {"run", "lock", "perform"} \/ a.result = "ok" =>
                Config[i].storages \subseteq a.avail

Quiet == \A p \in Processes : QuietStart(proc[p])

UpdatePlaces == {"check", "download", "extract", "rename"}

\* One process updates; what it has beside the program and what it has found
\* agree with its place; without a whole program there is no update.
Updated ==
    /\ \A p \in Processes : proc[p].pc \in UpdatePlaces => proc[p].cmd = "update"
    /\ \A p, q \in Processes : proc[p].pc \in UpdatePlaces /\ proc[q].pc \in UpdatePlaces => p = q
    /\ \A p \in Processes :
          /\ At(p, "download") => release # "none"
          /\ At(p, "extract") => release \in {"program", "other"}
          /\ At(p, "rename") =>
                /\ release \in {"program", "other"}
                /\ tmp = {"tgz", IF release = "program" THEN "new" ELSE "empty"}
    /\ exe \in {"old", "new"} \/ (release = "other" /\ \A p \in Processes : proc[p].pc \notin UpdatePlaces)
    /\ tmp # {} => \E p \in Processes :
          proc[p].cmd = "update" /\ proc[p].pc \in {"extract", "rename", "killed"}

-----------------------------------------------------------------------------
\* A step of p gives p another record and leaves the others theirs, except
\* that OpenMetrics marks those that write at the same time.
LEMMA OthersStay ==
    ASSUME TypeOK, NEW p \in Processes, Start(p) \/ Run(p) \/ Kill(p)
    PROVE  /\ proc' = [q \in Processes |-> proc'[q]]
           /\ \A q \in Processes \ {p} : proc'[q] \in {proc[q], [proc[q] EXCEPT !.mixed = TRUE]}
<1> USE DEF To, TypeOK
<1>1. CASE OpenMetrics(p)
  BY <1>1 DEF OpenMetrics
<1>2. CASE Start(p)
  BY <1>2 DEF Start, AppCtxInit
<1>3. CASE Kill(p)
  BY <1>3 DEF Kill
<1>4. CASE StoragesInit(p) \/ JobsInit(p) \/ TestConfig(p) \/ ListBackups(p) \/ StartBackup(p)
  BY <1>4 DEF StoragesInit, JobsInit, TestConfig, ListBackups, StartBackup
<1>5. CASE TryLock(p) \/ LockRefused(p) \/ Perform(p) \/ JobsDone(p) \/ Unlock(p)
  BY <1>5 DEF TryLock, LockRefused, Perform, JobsDone, Unlock
<1>6. CASE SkipMetrics(p) \/ ReadMetrics(p) \/ WriteMetrics(p) \/ WriteRest(p) \/ Done(p)
  BY <1>6 DEF SkipMetrics, ReadMetrics, WriteMetrics, WriteRest, Done
<1>7. CASE CheckVersion(p) \/ Download(p) \/ Extract(p) \/ Rename(p)
  BY <1>7 DEF CheckVersion, Download, Extract, Extracted, Rename, UpdateEnds
<1> QED
  BY <1>1, <1>2, <1>3, <1>4, <1>5, <1>6, <1>7 DEF Run

\* Records of other processes keep their type, so it is enough to look at p's.
LEMMA ProcessesKeepType ==
    ASSUME TypeOK, NEW p \in Processes, Start(p) \/ Run(p) \/ Kill(p), proc'[p] \in Process
    PROVE  proc' \in [Processes -> Process]
<1>1. ASSUME NEW q \in Processes \ {p}
      PROVE  proc'[q] \in Process
  <2>1. proc[q] \in Process
    BY DEF TypeOK
  <2>2. [proc[q] EXCEPT !.mixed = TRUE] \in Process
    BY <2>1 DEF Process
  <2> QED
    BY <2>1, <2>2, OthersStay
<1> QED
  BY <1>1, OthersStay

LEMMA TypeInit == Init => TypeOK
<1> SUFFICES ASSUME Init
             PROVE  TypeOK
  OBVIOUS
<1>1. Idle \in Process
  BY DEF Idle, Process, Values
<1>2. metrics \in [is : {"empty", "cut", "whole"}, of : [JobNames -> Values]]
  BY DEF Init, Values
<1>3. listed \subseteq Entries
  BY DEF Init
<1> QED
  BY <1>1, <1>2, <1>3, HostAssumption DEF Init, TypeOK

\* The record of the process that takes a step keeps its type.
LEMMA RecordType ==
    ASSUME TypeOK, NEW p \in Processes, Start(p) \/ Run(p) \/ Kill(p)
    PROVE  proc'[p] \in Process
<1> DEFINE a == proc[p]
<1>1. a \in Process
  BY DEF TypeOK
<1>2. ASSUME NEW next, To(p, next)
      PROVE  proc'[p] = next
  BY <1>2 DEF To, TypeOK
<1>3. ASSUME NEW b \in Process, NEW result \in {"ok", "error"}
      PROVE  Ended(b, result) \in Process
  BY <1>3 DEF Ended, Process
<1>4. Failed(a) \in Process
  BY <1>1 DEF Failed, Process
<1>5. ASSUME NEW b \in Process,
             NEW pc \in {"storages", "jobs", "run", "lock", "perform", "unlock", "read", "open", "write",
                         "rest", "exit", "check", "download", "extract", "rename", "killed"}
      PROVE  [b EXCEPT !.pc = pc] \in Process
  BY <1>5 DEF Process
<1>6. CASE Start(p)
  <2>1. PICK c \in Commands[p] : AppCtxInit(p, c)
    BY <1>6 DEF Start
  <2>2. c \in StartNames \cup {"test", "ls", "update"}
    BY HostAssumption
  <2>3. [a EXCEPT !.cmd = c] \in Process
    BY <1>1, <2>2 DEF Process
  <2>4. [a EXCEPT !.cmd = c, !.pc = IF c = "update" THEN "check" ELSE "storages"] \in Process
    BY <1>1, <2>2 DEF Process
  <2>5. \/ To(p, [a EXCEPT !.cmd = c, !.pc = IF c = "update" THEN "check" ELSE "storages"])
        \/ To(p, Ended([a EXCEPT !.cmd = c], "error"))
    BY <2>1 DEF AppCtxInit
  <2> QED
    BY <1>2, <1>3, <2>3, <2>4, <2>5
<1>7. CASE Kill(p)
  BY <1>1, <1>2, <1>5, <1>7 DEF Kill
<1>8. CASE StoragesInit(p)
  <2>1. PICK found \in SUBSET Connections, wellFormed \in BOOLEAN :
            To(p, [a EXCEPT !.avail = found \cup {"local"}, !.pc = "jobs",
                            !.logged = found # Connections \/ ~wellFormed])
    BY <1>8 DEF StoragesInit
  <2>2. [a EXCEPT !.avail = found \cup {"local"}, !.pc = "jobs",
                  !.logged = found # Connections \/ ~wellFormed] \in Process
    BY <1>1 DEF Process
  <2> QED
    BY <1>2, <2>1, <2>2
<1>9. CASE JobsInit(p)
  <2> DEFINE registers(registered) ==
                 [n \in JobNames |-> IF \E i \in registered : Config[i].name = n THEN "blank" ELSE "absent"]
             misses(ready) == a.logged \/ \E i \in listed : ~WellConfigured(p, i, ready)
             after(ready, registered) ==
                 [a EXCEPT !.ready = ready, !.mem = registers(registered), !.logged = misses(ready), !.pc = "run"]
             acceptable == {i \in listed : IsAcceptable(i)}
  <2>1. PICK ready \in SUBSET acceptable, registered \in SUBSET acceptable : To(p, after(ready, registered))
    BY <1>9, Zenon DEF JobsInit
  <2>5. misses(ready) \in BOOLEAN
    BY <1>1 DEF Process
  <2>2. registers(registered) \in [JobNames -> Values]
    BY DEF Values
  <2>3. ready \subseteq Entries
    BY DEF TypeOK
  <2> HIDE DEF registers, misses
  <2>4. after(ready, registered) \in Process
    BY <1>1, <2>2, <2>3, <2>5 DEF Process
  <2> QED
    BY <1>2, <2>1, <2>4
<1>10. CASE TestConfig(p) \/ ListBackups(p)
  BY <1>1, <1>2, <1>3, <1>10 DEF TestConfig, ListBackups
<1>11. CASE StartBackup(p) \/ JobsDone(p) \/ Unlock(p) \/ SkipMetrics(p) \/ WriteRest(p)
  BY <1>1, <1>2, <1>5, <1>11 DEF StartBackup, JobsDone, Unlock, SkipMetrics, WriteRest
<1>12. CASE LockRefused(p)
  <2>1. [a EXCEPT !.logged = TRUE, !.pc = "read"] \in Process
    BY <1>1 DEF Process
  <2> QED
    BY <1>2, <1>12, <2>1 DEF LockRefused
<1>13. CASE TryLock(p)
  <2>1. a.ready \subseteq Entries
    BY <1>1 DEF Process
  <2>2. \A k \in Parts : Part(k, a) \subseteq Entries
    BY <2>1 DEF Part, JobsOf, Parts
  <2>3. Plan(a) \in SUBSET ((1 .. 4) \X Entries)
    BY <2>2 DEF Plan, Parts
  <2>4. [a EXCEPT !.queue = Plan(a), !.pc = "perform"] \in Process
    BY <1>1, <2>3 DEF Process
  <2> QED
    BY <1>2, <1>13, <2>4 DEF TryLock
<1>14. CASE Perform(p)
  <2> DEFINE after(x, o) ==
                [Collect(a, o) EXCEPT
                    !.queue = JobsLeft(@, x), !.done[x[2]] = o,
                    !.mem[Config[x[2]].name] = IF o \in {"good", "bad"} THEN o ELSE @]
  <2>1. PICK x \in a.queue : \E o \in Outcomes(p, x[2]) : To(p, after(x, o))
    BY <1>14 DEF Perform
  <2>2. PICK o \in Outcomes(p, x[2]) : To(p, after(x, o))
    BY <2>1
  <2>3. o \in {"good", "bad", "notDue"}
    BY DEF Outcomes
  <2>4. Collect(a, o) \in Process
    BY <1>1, <1>4 DEF Collect
  <2>5. ASSUME NEW b \in Process
        PROVE  [b EXCEPT !.queue = JobsLeft(@, x), !.done[x[2]] = o,
                         !.mem[Config[x[2]].name] = IF o \in {"good", "bad"} THEN o ELSE @] \in Process
    <3>1. /\ b.queue \in SUBSET ((1 .. 4) \X Entries) /\ b.mem \in [JobNames -> Values]
          /\ b.done \in [Entries -> {"none", "good", "bad", "notDue"}]
      BY <2>5 DEF Process
    <3>2. JobsLeft(b.queue, x) \in SUBSET ((1 .. 4) \X Entries)
      BY <3>1 DEF JobsLeft
    <3>3. [b.done EXCEPT ![x[2]] = o] \in [Entries -> {"none", "good", "bad", "notDue"}]
      BY <2>3, <3>1
    <3>4. [b.mem EXCEPT ![Config[x[2]].name] = IF o \in {"good", "bad"} THEN o ELSE @] \in [JobNames -> Values]
      BY <3>1 DEF Values
    <3> QED
      BY <2>5, <3>2, <3>3, <3>4 DEF Process
  <2> QED
    BY <1>2, <2>2, <2>4, <2>5
<1>15. CASE ReadMetrics(p)
  <2> DEFINE merged == [n \in JobNames |-> IF a.mem[n] = "absent" THEN metrics.of[n] ELSE a.mem[n]]
  <2>1. To(p, [a EXCEPT !.pc = "open", !.mem = merged]) \/ To(p, [Failed(a) EXCEPT !.pc = "exit"])
    BY <1>15 DEF ReadMetrics
  <2>2. merged \in [JobNames -> Values]
    BY <1>1 DEF Process, TypeOK
  <2> HIDE DEF merged
  <2>3. [a EXCEPT !.pc = "open", !.mem = merged] \in Process
    BY <1>1, <2>2 DEF Process
  <2> QED
    BY <1>2, <1>4, <1>5, <2>1, <2>3
<1>16. CASE OpenMetrics(p)
  <2>1. \/ proc'[p] \in {[a EXCEPT !.pc = "write", !.mixed = mixed] : mixed \in BOOLEAN}
        \/ To(p, [Failed(a) EXCEPT !.pc = "exit"])
    BY <1>16 DEF OpenMetrics
  <2>2. \A mixed \in BOOLEAN : [a EXCEPT !.pc = "write", !.mixed = mixed] \in Process
    BY <1>1 DEF Process
  <2> QED
    BY <1>2, <1>4, <1>5, <2>1, <2>2
<1>17. CASE WriteMetrics(p) \/ Done(p)
  BY <1>1, <1>2, <1>3, <1>4, <1>5, <1>17 DEF WriteMetrics, Done
<1>18. CASE CheckVersion(p) \/ Download(p) \/ Extract(p) \/ Rename(p)
  BY <1>1, <1>2, <1>3, <1>5, <1>18 DEF CheckVersion, Download, Extract, Extracted, Rename, UpdateEnds
<1> QED
  BY <1>6, <1>7, <1>8, <1>9, <1>10, <1>11, <1>12, <1>13, <1>14, <1>15, <1>16, <1>17, <1>18 DEF Run

\* So do the files the processes share, and the lock.
LEMMA FilesKeepType ==
    ASSUME TypeOK, NEW p \in Processes, Start(p) \/ Run(p) \/ Kill(p)
    PROVE  /\ enabled' \in BOOLEAN /\ listed' \subseteq Entries
           /\ lock' \in Processes \cup {None}
           /\ metrics' \in [is : {"empty", "cut", "whole"}, of : [JobNames -> Values]]
           /\ exe' \in {"old", "new", "empty", "part"}
           /\ tmp' \subseteq {"tgz", "new", "empty", "part"}
           /\ release' \in {"none", "program", "other", "page"}
           /\ faults' \in 0 .. MaxFaults
<1> USE DEF TypeOK, config, updating
<1>1. enabled' \in BOOLEAN /\ listed' \subseteq Entries
  <2>1. UNCHANGED config
    BY DEF Start, Run, Kill, AppCtxInit, StoragesInit, JobsInit, TestConfig, ListBackups, StartBackup, TryLock,
           LockRefused, Perform, JobsDone, Unlock, SkipMetrics, ReadMetrics, OpenMetrics, WriteMetrics, WriteRest,
           Done, CheckVersion, Download, Extract, Rename
  <2> QED
    BY <2>1
<1>2. ASSUME NoFault \/ Fault \/ UNCHANGED faults
      PROVE  faults' \in 0 .. MaxFaults
  BY <1>2, HostAssumption DEF NoFault, Fault
<1>3. faults' \in 0 .. MaxFaults
  <2>1. NoFault \/ Fault \/ UNCHANGED faults
    BY DEF Start, Run, Kill, AppCtxInit, StoragesInit, JobsInit, TestConfig, ListBackups, StartBackup, TryLock,
           LockRefused, Perform, JobsDone, Unlock, SkipMetrics, ReadMetrics, OpenMetrics, WriteMetrics, WriteRest,
           Done, CheckVersion, Download, Extract, Extracted, Rename
  <2> QED
    BY <1>2, <2>1
<1>4. lock' \in Processes \cup {None}
  BY DEF Start, Run, Kill, AppCtxInit, StoragesInit, JobsInit, TestConfig, ListBackups, StartBackup, TryLock,
         LockRefused, Perform, JobsDone, Unlock, SkipMetrics, ReadMetrics, OpenMetrics, WriteMetrics, WriteRest,
         Done, CheckVersion, Download, Extract, Rename
<1>5. metrics' \in [is : {"empty", "cut", "whole"}, of : [JobNames -> Values]]
  <2>1. CASE WriteRest(p)
    <3>1. proc[p].mem \in [JobNames -> Values]
      BY DEF Process
    <3>2. [metrics EXCEPT !.is = "cut"] \in [is : {"empty", "cut", "whole"}, of : [JobNames -> Values]]
      OBVIOUS
    <3>3. [is |-> "whole", of |-> proc[p].mem] \in [is : {"empty", "cut", "whole"}, of : [JobNames -> Values]]
      BY <3>1
    <3> QED
      BY <2>1, <3>2, <3>3 DEF WriteRest
  <2>2. CASE OpenMetrics(p) \/ WriteMetrics(p)
    <3>1. [metrics EXCEPT !.is = "cut"] \in [is : {"empty", "cut", "whole"}, of : [JobNames -> Values]]
      OBVIOUS
    <3>2. [is |-> "empty", of |-> [n \in JobNames |-> "absent"]]
              \in [is : {"empty", "cut", "whole"}, of : [JobNames -> Values]]
      BY DEF Values
    <3> QED
      BY <2>2, <3>1, <3>2 DEF OpenMetrics, WriteMetrics
  <2>3. CASE UNCHANGED metrics
    BY <2>3
  <2>4. WriteRest(p) \/ OpenMetrics(p) \/ WriteMetrics(p) \/ UNCHANGED metrics
    BY DEF Start, Run, Kill, AppCtxInit, StoragesInit, JobsInit, TestConfig, ListBackups, StartBackup, TryLock,
           LockRefused, Perform, JobsDone, Unlock, SkipMetrics, ReadMetrics, Done, CheckVersion, Download, Extract,
           Rename
  <2> QED
    BY <2>1, <2>2, <2>3, <2>4
<1>6. /\ exe' \in {"old", "new", "empty", "part"}
      /\ tmp' \subseteq {"tgz", "new", "empty", "part"}
      /\ release' \in {"none", "program", "other", "page"}
  <2>1. CASE CheckVersion(p) \/ Download(p)
    BY <2>1 DEF CheckVersion, Download
  <2>2. CASE Extract(p) \/ Rename(p)
    BY <2>2 DEF Extract, Extracted, Rename, UpdateEnds
  <2>3. CASE UNCHANGED updating
    BY <2>3
  <2>4. CheckVersion(p) \/ Download(p) \/ Extract(p) \/ Rename(p) \/ UNCHANGED updating
    BY DEF Start, Run, Kill, AppCtxInit, StoragesInit, JobsInit, TestConfig, ListBackups, StartBackup, TryLock,
           LockRefused, Perform, JobsDone, Unlock, SkipMetrics, ReadMetrics, OpenMetrics, WriteMetrics, WriteRest, Done
  <2> QED
    BY <2>1, <2>2, <2>3, <2>4
<1> QED
  BY <1>1, <1>3, <1>4, <1>5, <1>6

LEMMA TypeNext == TypeOK /\ [Next]_vars => TypeOK'
<1> SUFFICES ASSUME TypeOK, [Next]_vars
             PROVE  TypeOK'
  OBVIOUS
<1>1. CASE UNCHANGED vars
  BY <1>1 DEF vars, TypeOK
<1>2. CASE Next
  <2>1. PICK p \in Processes : Start(p) \/ Run(p) \/ Kill(p)
    BY <1>2 DEF Next
  <2> QED
    BY <2>1, RecordType, ProcessesKeepType, FilesKeepType DEF TypeOK
<1> QED
  BY <1>1, <1>2

\* The types of the processes and of the files they share.
THEOREM TypeCorrect == Spec => []TypeOK
BY TypeInit, TypeNext, PTL DEF Spec

-----------------------------------------------------------------------------
\* What Perform makes of the record: one job leaves the queue and has an
\* outcome, and a bad one is logged.
LEMMA Performed ==
    ASSUME TypeOK, NEW p \in Processes, Perform(p)
    PROVE  /\ proc'[p].pc = "perform"
           /\ proc'[p].cmd = proc[p].cmd /\ proc'[p].avail = proc[p].avail /\ proc'[p].result = proc[p].result
           /\ \E x \in proc[p].queue, o \in {"good", "bad", "notDue"} :
                 /\ x[2] \in Entries
                 /\ proc'[p].queue = proc[p].queue \ {x}
                 /\ proc'[p].done = [proc[p].done EXCEPT ![x[2]] = o]
                 /\ o = "bad" => proc'[p].logged
                 /\ proc[p].logged => proc'[p].logged
<1> DEFINE a == proc[p]
           after(x, o) ==
              [Collect(a, o) EXCEPT
                  !.queue = JobsLeft(@, x), !.done[x[2]] = o,
                  !.mem[Config[x[2]].name] = IF o \in {"good", "bad"} THEN o ELSE @]
<1>1. a \in Process /\ a.pc = "perform"
  BY DEF TypeOK, Perform, At
<1>2. PICK x \in a.queue : \E o \in Outcomes(p, x[2]) : To(p, after(x, o))
  BY DEF Perform
<1>3. PICK o \in Outcomes(p, x[2]) : To(p, after(x, o))
  BY <1>2
<1>4. proc'[p] = after(x, o)
  BY <1>3 DEF To, TypeOK
<1>5. o \in {"good", "bad", "notDue"} /\ x[2] \in Entries
  BY <1>1 DEF Outcomes, Process
<1>6. PICK b \in Process :
          /\ b = Collect(a, o) /\ b.logged = (a.logged \/ o = "bad")
          /\ b.pc = a.pc /\ b.cmd = a.cmd /\ b.avail = a.avail /\ b.result = a.result
          /\ b.queue = a.queue /\ b.done = a.done
  <2>1. CASE o = "bad"
    <3>1. Failed(a) \in Process
      BY <1>1 DEF Failed, Process
    <3>2. Failed(a).logged = TRUE
      BY <1>1 DEF Failed, Process
    <3>3. LET b == Failed(a)
          IN /\ b.pc = a.pc /\ b.cmd = a.cmd /\ b.avail = a.avail /\ b.result = a.result
             /\ b.queue = a.queue /\ b.done = a.done
      BY <1>1 DEF Failed, Process
    <3> QED
      BY <2>1, <3>1, <3>2, <3>3 DEF Collect
  <2>2. CASE o # "bad"
    <3>1. a.logged = (a.logged \/ o = "bad")
      BY <1>1, <2>2 DEF Process
    <3> QED
      BY <1>1, <2>2, <3>1 DEF Collect
  <2> QED
    BY <2>1, <2>2
<1> DEFINE left == b.queue \ {x}
           doneNow == [b.done EXCEPT ![x[2]] = o]
           memNow == [b.mem EXCEPT ![Config[x[2]].name] = IF o \in {"good", "bad"} THEN o ELSE @]
<1>7. after(x, o) = [b EXCEPT !.queue = left, !.done = doneNow, !.mem = memNow]
  BY <1>6 DEF JobsLeft
<1> HIDE DEF left, doneNow, memNow
<1>8. LET c == [b EXCEPT !.queue = left, !.done = doneNow, !.mem = memNow]
      IN /\ c.pc = b.pc /\ c.cmd = b.cmd /\ c.avail = b.avail /\ c.result = b.result
         /\ c.queue = left /\ c.done = doneNow /\ c.logged = b.logged
  BY DEF Process
<1>9. left = a.queue \ {x} /\ doneNow = [a.done EXCEPT ![x[2]] = o]
  BY <1>6 DEF left, doneNow
<1> HIDE DEF after
<1> QED
  BY <1>1, <1>4, <1>5, <1>6, <1>7, <1>8, <1>9

\* Where each step takes the process, with the command and the result; only a
\* start changes the command.
LEMMA Places ==
    ASSUME TypeOK, NEW p \in Processes
    PROVE  /\ Start(p) => /\ proc'[p].pc \in {"check", "storages", "ended"}
                          /\ proc'[p].pc = "check" => proc'[p].cmd = "update" /\ ~Updating
           /\ Kill(p) => proc'[p].pc = "killed"
           /\ StoragesInit(p) => proc'[p].pc = "jobs"
           /\ JobsInit(p) => proc'[p].pc = "run"
           /\ TestConfig(p) \/ ListBackups(p) \/ Done(p) => proc'[p].pc = "ended"
           /\ StartBackup(p) => proc'[p].pc = "lock"
           /\ TryLock(p) => proc'[p].pc = "perform"
           /\ LockRefused(p) \/ Unlock(p) => proc'[p].pc = "read"
           /\ Perform(p) => proc'[p].pc = "perform"
           /\ JobsDone(p) => proc'[p].pc = "unlock"
           /\ SkipMetrics(p) \/ WriteRest(p) => proc'[p].pc = "exit"
           /\ ReadMetrics(p) => proc'[p].pc \in {"open", "exit"}
           /\ OpenMetrics(p) => proc'[p].pc \in {"write", "exit"}
           /\ WriteMetrics(p) => proc'[p].pc \in {"rest", "exit"}
           /\ CheckVersion(p) => proc'[p].pc \in {"download", "ended"}
           /\ Download(p) => proc'[p].pc \in {"extract", "ended"}
           /\ Extract(p) => proc'[p].pc \in {"rename", "ended"}
           /\ Rename(p) => proc'[p].pc = "ended"
           /\ Run(p) \/ Kill(p) => proc'[p].cmd = proc[p].cmd
<1> DEFINE a == proc[p]
<1>1. a \in Process
  BY DEF TypeOK
<1>2. ASSUME NEW next, To(p, next)
      PROVE  proc'[p] = next
  BY <1>2 DEF To, TypeOK
<1>3. ASSUME Start(p)
      PROVE  /\ proc'[p].pc \in {"check", "storages", "ended"}
             /\ proc'[p].pc = "check" => proc'[p].cmd = "update" /\ ~Updating
  BY <1>1, <1>3, <1>2 DEF Start, AppCtxInit, Ended, Process
<1>4. ASSUME Kill(p)
      PROVE  proc'[p].pc = "killed" /\ proc'[p].cmd = a.cmd
  BY <1>1, <1>4, <1>2 DEF Kill, Process
<1>5. ASSUME StoragesInit(p)
      PROVE  proc'[p].pc = "jobs" /\ proc'[p].cmd = a.cmd
  BY <1>1, <1>5, <1>2 DEF StoragesInit, Process
<1>6. ASSUME JobsInit(p)
      PROVE  proc'[p].pc = "run" /\ proc'[p].cmd = a.cmd
  <2> DEFINE registers(registered) ==
                 [n \in JobNames |-> IF \E i \in registered : Config[i].name = n THEN "blank" ELSE "absent"]
             misses(ready) == a.logged \/ \E i \in listed : ~WellConfigured(p, i, ready)
             after(ready, registered) ==
                 [a EXCEPT !.ready = ready, !.mem = registers(registered), !.logged = misses(ready), !.pc = "run"]
             acceptable == {i \in listed : IsAcceptable(i)}
  <2>1. PICK ready \in SUBSET acceptable, registered \in SUBSET acceptable : To(p, after(ready, registered))
    BY <1>6, Zenon DEF JobsInit
  <2> HIDE DEF registers, misses
  <2>2. after(ready, registered).pc = "run" /\ after(ready, registered).cmd = a.cmd
    BY <1>1 DEF Process
  <2> QED
    BY <1>2, <2>1, <2>2
<1>7. ASSUME TestConfig(p) \/ ListBackups(p) \/ Done(p)
      PROVE  proc'[p].pc = "ended" /\ proc'[p].cmd = a.cmd
  BY <1>1, <1>7, <1>2 DEF TestConfig, ListBackups, Done, Ended, Process
<1>8. ASSUME StartBackup(p)
      PROVE  proc'[p].pc = "lock" /\ proc'[p].cmd = a.cmd
  BY <1>1, <1>8, <1>2 DEF StartBackup, Process
<1>9. ASSUME TryLock(p)
      PROVE  proc'[p].pc = "perform" /\ proc'[p].cmd = a.cmd
  BY <1>1, <1>9, <1>2 DEF TryLock, Process
<1>10. ASSUME LockRefused(p) \/ Unlock(p)
       PROVE  proc'[p].pc = "read" /\ proc'[p].cmd = a.cmd
  BY <1>1, <1>10, <1>2 DEF LockRefused, Unlock, Process
<1>11. ASSUME Perform(p)
       PROVE  proc'[p].pc = "perform" /\ proc'[p].cmd = a.cmd
  BY <1>11, Performed
<1>12. ASSUME JobsDone(p)
       PROVE  proc'[p].pc = "unlock" /\ proc'[p].cmd = a.cmd
  BY <1>1, <1>12, <1>2 DEF JobsDone, Process
<1>13. ASSUME SkipMetrics(p) \/ WriteRest(p)
       PROVE  proc'[p].pc = "exit" /\ proc'[p].cmd = a.cmd
  BY <1>1, <1>13, <1>2 DEF SkipMetrics, WriteRest, Process
<1>14. ASSUME ReadMetrics(p)
       PROVE  proc'[p].pc \in {"open", "exit"} /\ proc'[p].cmd = a.cmd
  BY <1>1, <1>14, <1>2 DEF ReadMetrics, Failed, Process
<1>15. ASSUME OpenMetrics(p)
       PROVE  proc'[p].pc \in {"write", "exit"} /\ proc'[p].cmd = a.cmd
  <2>1. \/ proc'[p] \in {[a EXCEPT !.pc = "write", !.mixed = mixed] : mixed \in BOOLEAN}
        \/ To(p, [Failed(a) EXCEPT !.pc = "exit"])
    BY <1>15 DEF OpenMetrics
  <2>2. \A mixed \in BOOLEAN : LET b == [a EXCEPT !.pc = "write", !.mixed = mixed]
                              IN b.pc = "write" /\ b.cmd = a.cmd
    BY <1>1 DEF Process
  <2>3. LET b == [Failed(a) EXCEPT !.pc = "exit"] IN b.pc = "exit" /\ b.cmd = a.cmd
    BY <1>1 DEF Failed, Process
  <2> QED
    BY <1>2, <2>1, <2>2, <2>3
<1>16. ASSUME WriteMetrics(p)
       PROVE  proc'[p].pc \in {"rest", "exit"} /\ proc'[p].cmd = a.cmd
  BY <1>1, <1>16, <1>2 DEF WriteMetrics, Failed, Process
<1>17. ASSUME CheckVersion(p)
       PROVE  proc'[p].pc \in {"download", "ended"} /\ proc'[p].cmd = a.cmd
  BY <1>1, <1>17, <1>2 DEF CheckVersion, Ended, Process
<1>18. ASSUME Download(p)
       PROVE  proc'[p].pc \in {"extract", "ended"} /\ proc'[p].cmd = a.cmd
  BY <1>1, <1>18, <1>2 DEF Download, Ended, Process
<1>19. ASSUME Extract(p)
       PROVE  proc'[p].pc \in {"rename", "ended"} /\ proc'[p].cmd = a.cmd
  BY <1>1, <1>19, <1>2 DEF Extract, Extracted, UpdateEnds, Ended, Process
<1>20. ASSUME Rename(p)
       PROVE  proc'[p].pc = "ended" /\ proc'[p].cmd = a.cmd
  BY <1>1, <1>20, <1>2 DEF Rename, UpdateEnds, Ended, Process
<1> QED
  BY <1>3, <1>4, <1>5, <1>6, <1>7, <1>8, <1>9, <1>10, <1>11, <1>12, <1>13, <1>14, <1>15, <1>16, <1>17, <1>18,
     <1>19, <1>20 DEF Run

\* Only a process that runs is the owner of the lock in earnest: the lock of
\* one that was killed is free.
LEMMA LockedNext == TypeOK /\ Locked /\ [Next]_vars => Locked'
<1> SUFFICES ASSUME TypeOK, Locked, [Next]_vars
             PROVE  Locked'
  OBVIOUS
<1>1. CASE UNCHANGED vars
  BY <1>1 DEF vars, Locked
<1>2. CASE Next
  <2>1. PICK p \in Processes : Start(p) \/ Run(p) \/ Kill(p)
    BY <1>2 DEF Next
  <2>2. ASSUME NEW q \in Processes \ {p}
        PROVE  proc'[q].pc = proc[q].pc
    <3>1. proc[q] \in Process
      BY DEF TypeOK
    <3>2. [proc[q] EXCEPT !.mixed = TRUE].pc = proc[q].pc
      BY <3>1 DEF Process
    <3> QED
      BY <2>1, <3>2, OthersStay
  <2>3. CASE TryLock(p)
    <3>1. \A q \in Processes : proc[q].pc \in {"perform", "unlock"} => Alive(q) /\ lock = q
      BY DEF Alive, Locked
    <3>2. \A q \in Processes \ {p} : proc[q].pc \notin {"perform", "unlock"}
      BY <2>3, <3>1 DEF TryLock, IsFree
    <3> QED
      BY <2>2, <2>3, <3>2 DEF TryLock, Locked
  <2>4. CASE Unlock(p)
    <3>1. lock = p /\ \A q \in Processes \ {p} : proc[q].pc \notin {"perform", "unlock"}
      BY <2>4 DEF Unlock, At, Locked
    <3>2. proc'[p].pc = "read"
      BY <2>4 DEF Unlock, To, TypeOK, Process
    <3> QED
      BY <2>2, <3>1, <3>2 DEF Locked
  <2>5. ASSUME ~TryLock(p), ~Unlock(p)
        PROVE  /\ UNCHANGED lock
               /\ proc'[p].pc \in {"perform", "unlock"} => proc[p].pc \in {"perform", "unlock"}
    <3>1. UNCHANGED lock
      BY <2>1, <2>5 DEF Start, Run, Kill, AppCtxInit, StoragesInit, JobsInit, TestConfig, ListBackups, StartBackup,
             LockRefused, Perform, JobsDone, SkipMetrics, ReadMetrics, OpenMetrics, WriteMetrics, WriteRest,
             Done, CheckVersion, Download, Extract, Rename
    <3>2. CASE Perform(p) \/ JobsDone(p)
      BY <3>1, <3>2 DEF Perform, JobsDone, At
    <3>3. CASE ~Perform(p) /\ ~JobsDone(p)
      BY <2>1, <2>5, <3>1, <3>3, Places DEF Run
    <3> QED
      BY <3>2, <3>3
  <2> QED
    BY <2>2, <2>3, <2>4, <2>5 DEF Locked
<1> QED
  BY <1>1, <1>2

THEOREM LockIsHeld == Spec => []Locked
<1>1. Init => Locked
  BY DEF Init, Idle, Locked
<1> QED
  BY <1>1, TypeCorrect, LockedNext, PTL DEF Spec

\* OneAtATime: two processes never perform jobs at the same time, because the
\* one that does is the owner that the lock file names.
THEOREM JobsOneAtATime == Spec => []OneAtATime
<1>1. Locked => OneAtATime
  BY DEF Locked, OneAtATime, At
<1> QED
  BY <1>1, LockIsHeld, PTL

-----------------------------------------------------------------------------
LEMMA OtherPlaces ==
    ASSUME TypeOK, NEW p \in Processes, Start(p) \/ Run(p) \/ Kill(p), NEW q \in Processes \ {p}
    PROVE  proc'[q].pc = proc[q].pc /\ proc'[q].cmd = proc[q].cmd
<1>1. proc[q] \in Process
  BY DEF TypeOK
<1>2. LET b == [proc[q] EXCEPT !.mixed = TRUE] IN b.pc = proc[q].pc /\ b.cmd = proc[q].cmd
  BY <1>1 DEF Process
<1> QED
  BY <1>2, OthersStay

\* One step of the update: the one process in these places is p, so nobody else
\* depends on what it changes.
LEMMA UpdatedStep ==
    ASSUME TypeOK, Updated, NEW p \in Processes,
           CheckVersion(p) \/ Download(p) \/ Extract(p) \/ Rename(p)
    PROVE  Updated'
<1>1. Run(p)
  BY DEF Run
<1>8. ASSUME NEW result, To(p, Ended(proc[p], result))
      PROVE  proc'[p].pc = "ended"
  BY <1>8 DEF To, Ended, TypeOK, Process
<1>9. ASSUME To(p, [proc[p] EXCEPT !.pc = "rename"])
      PROVE  proc'[p].pc = "rename"
  BY <1>9 DEF To, TypeOK, Process
<1>2. /\ proc[p].pc \in UpdatePlaces /\ proc[p].cmd = "update"
      /\ proc'[p].pc \in UpdatePlaces \cup {"ended"} /\ proc'[p].cmd = "update"
      /\ exe \in {"old", "new"}
  BY <1>1, Places DEF Updated, UpdatePlaces, CheckVersion, Download, Extract, Rename, At
<1>3. \A q \in Processes \ {p} :
         /\ proc[q].pc \notin UpdatePlaces /\ proc'[q].pc = proc[q].pc /\ proc'[q].cmd = proc[q].cmd
  BY <1>1, <1>2, OtherPlaces DEF Updated
<1>4. CASE CheckVersion(p)
  <2>1. proc[p].pc = "check" /\ proc'[p].pc \in {"download", "ended"}
    BY <1>4, Places DEF CheckVersion, At
  <2>2. proc'[p].pc = "download" => release' # "none"
    BY <1>4, <1>8 DEF CheckVersion
  <2>3. UNCHANGED <<exe, tmp>>
    BY <1>4 DEF CheckVersion
  <2>4. tmp # {} => \E q \in Processes \ {p} :
            proc[q].cmd = "update" /\ proc[q].pc \in {"extract", "rename", "killed"}
    BY <2>1 DEF Updated
  <2> QED
    BY <1>2, <1>3, <2>1, <2>2, <2>3, <2>4 DEF Updated, At, UpdatePlaces
<1>5. CASE Download(p)
  <2>1. proc[p].pc = "download" /\ proc'[p].pc \in {"extract", "ended"} /\ UNCHANGED <<exe, release>>
    BY <1>5, Places DEF Download, At
  <2>2. proc'[p].pc = "extract" => release \in {"program", "other"}
    <3>1. release \in {"program", "other", "page"}
      BY <2>1 DEF Updated, At, TypeOK
    <3>2. release # "page" \/ proc'[p].pc = "ended"
      BY <1>5, <1>8 DEF Download
    <3> QED
      BY <3>1, <3>2
  <2>3. tmp' # {} => \/ proc'[p].pc = "extract"
                     \/ \E q \in Processes \ {p} :
                           proc[q].cmd = "update" /\ proc[q].pc \in {"extract", "rename", "killed"}
    <3>1. proc'[p].pc = "extract" \/ tmp' \subseteq tmp
      BY <1>5 DEF Download, To, TypeOK, Process
    <3>2. tmp # {} => \E q \in Processes \ {p} :
              proc[q].cmd = "update" /\ proc[q].pc \in {"extract", "rename", "killed"}
      BY <2>1 DEF Updated
    <3> QED
      BY <3>1, <3>2
  <2> QED
    BY <1>2, <1>3, <2>1, <2>2, <2>3 DEF Updated, At, UpdatePlaces
<1>6. CASE Extract(p)
  <2>1. proc[p].pc = "extract" /\ release \in {"program", "other"} /\ UNCHANGED <<exe, release>>
    BY <1>6 DEF Extract, At, Updated
  <2>2. \/ proc'[p].pc = "rename" /\ tmp' = {"tgz", IF release = "program" THEN "new" ELSE "empty"}
        \/ proc'[p].pc = "ended" /\ tmp' = {}
    BY <1>6, <1>8, <1>9 DEF Extract, Extracted, UpdateEnds
  <2> QED
    BY <1>2, <1>3, <2>1, <2>2 DEF Updated, At, UpdatePlaces
<1>7. CASE Rename(p)
  <2>1. /\ proc[p].pc = "rename" /\ proc'[p].pc = "ended" /\ tmp' = {} /\ UNCHANGED release
        /\ exe' \in tmp \ {"tgz"} \/ UNCHANGED exe
    BY <1>7, Places DEF Rename, UpdateEnds, At
  <2>2. exe' \in {"old", "new"} \/ (exe' = "empty" /\ release = "other")
    BY <1>2, <2>1 DEF Updated, At
  <2> QED
    BY <1>2, <1>3, <2>1, <2>2 DEF Updated, At, UpdatePlaces
<1> QED
  BY <1>4, <1>5, <1>6, <1>7

LEMMA UpdatedNext == TypeOK /\ Updated /\ [Next]_vars => Updated'
<1> SUFFICES ASSUME TypeOK, Updated, [Next]_vars
             PROVE  Updated'
  OBVIOUS
<1>1. CASE UNCHANGED vars
  BY <1>1 DEF vars, Updated, At
<1>2. ASSUME NEW p \in Processes, Start(p)
      PROVE  Updated'
  <2>1. /\ UNCHANGED <<exe, tmp, release>> /\ exe \in {"old", "new"} /\ proc[p].pc = "idle"
        /\ proc'[p].pc \in {"check", "storages", "ended"}
        /\ proc'[p].pc = "check" => proc'[p].cmd = "update" /\ ~Updating
    BY <1>2, Places DEF Start, AppCtxInit, At, updating
  <2>2. \A q \in Processes \ {p} : proc'[q].pc = proc[q].pc /\ proc'[q].cmd = proc[q].cmd
    BY <1>2, OtherPlaces
  <2>3. ~Updating => \A q \in Processes : proc[q].pc \notin UpdatePlaces
    BY DEF Updating, Alive, Updated, UpdatePlaces
  <2>4. tmp # {} => \E q \in Processes \ {p} :
            proc[q].cmd = "update" /\ proc[q].pc \in {"extract", "rename", "killed"}
    BY <2>1 DEF Updated
  <2> QED
    BY <2>1, <2>2, <2>3, <2>4 DEF Updated, At, UpdatePlaces
<1>3. ASSUME NEW p \in Processes, Kill(p)
      PROVE  Updated'
  <2>1. UNCHANGED <<exe, tmp, release>> /\ proc'[p].pc = "killed" /\ proc'[p].cmd = proc[p].cmd
    BY <1>3, Places DEF Kill, updating
  <2>2. \A q \in Processes \ {p} : proc'[q].pc = proc[q].pc /\ proc'[q].cmd = proc[q].cmd
    BY <1>3, OtherPlaces
  <2> QED
    BY <2>1, <2>2 DEF Updated, At, UpdatePlaces
<1>4. ASSUME NEW p \in Processes, Run(p), ~CheckVersion(p), ~Download(p), ~Extract(p), ~Rename(p)
      PROVE  Updated'
  <2>1. UNCHANGED <<exe, tmp, release>>
    BY <1>4 DEF Run, StoragesInit, JobsInit, TestConfig, ListBackups, StartBackup, TryLock, LockRefused, Perform,
           JobsDone, Unlock, SkipMetrics, ReadMetrics, OpenMetrics, WriteMetrics, WriteRest, Done, updating
  <2>2. proc[p].pc \notin UpdatePlaces \cup {"killed"}
    BY <1>4 DEF Run, StoragesInit, JobsInit, TestConfig, ListBackups, StartBackup, TryLock, LockRefused, Perform,
           JobsDone, Unlock, SkipMetrics, ReadMetrics, OpenMetrics, WriteMetrics, WriteRest, Done, At, UpdatePlaces
  <2>3. proc'[p].pc \notin UpdatePlaces
    BY <1>4, Places DEF Run, UpdatePlaces
  <2>4. \A q \in Processes \ {p} : proc'[q].pc = proc[q].pc /\ proc'[q].cmd = proc[q].cmd
    BY <1>4, OtherPlaces
  <2>5. tmp # {} => \E q \in Processes \ {p} :
            proc[q].cmd = "update" /\ proc[q].pc \in {"extract", "rename", "killed"}
    BY <2>2 DEF Updated, UpdatePlaces
  <2> QED
    BY <2>1, <2>3, <2>4, <2>5 DEF Updated, At, UpdatePlaces
<1> QED
  BY <1>1, <1>2, <1>3, <1>4, UpdatedStep DEF Next

THEOREM UpdatesKeepOrder == Spec => []Updated
<1>1. Init => Updated
  BY DEF Init, Idle, Updated, UpdatePlaces, At
<1> QED
  BY <1>1, TypeCorrect, UpdatedNext, PTL DEF Spec

\* ProgramIsWhole: what self_update puts in the place of the program is a whole
\* one, whatever fails, as long as the archive has one; what it leaves beside
\* it is a killed update's.
THEOREM ProgramStaysWhole == Spec => []ProgramIsWhole
<1>1. Updated => ProgramIsWhole
  BY DEF Updated, ProgramIsWhole
<1> QED
  BY <1>1, UpdatesKeepOrder, PTL

-----------------------------------------------------------------------------
\* After the jobs a start only saves the metrics: it may log an error more.
LEMMA SavingIsQuiet ==
    ASSUME NEW a, NEW b, QuietStart(a), a.pc \in Saving, b.pc \in Saving, a.logged => b.logged,
           b.cmd = a.cmd, b.done = a.done, b.avail = a.avail, b.result = a.result
    PROVE  QuietStart(b)
<1>1. b.pc \notin {"run", "lock", "perform", "ended"}
  BY DEF Saving
<1>2. ASSUME NEW i \in listed, Expected(b, i), ~b.logged
      PROVE  IsDone(b, i) /\ Config[i].storages \subseteq b.avail
  BY <1>2 DEF QuietStart, Expected, IsDone
<1> QED
  BY <1>1, <1>2 DEF QuietStart, Saving

\* Nor does it matter to a start what the other processes do.
LEMMA OthersAreQuiet ==
    ASSUME TypeOK, Quiet, NEW p \in Processes, Start(p) \/ Run(p) \/ Kill(p), NEW q \in Processes \ {p}
    PROVE  QuietStart(proc'[q])
<1>1. QuietStart(proc[q]) /\ proc[q] \in Process
  BY DEF Quiet, TypeOK
<1>2. QuietStart([proc[q] EXCEPT !.mixed = TRUE])
  BY <1>1 DEF QuietStart, Expected, IsDone, Process
<1> QED
  BY <1>1, <1>2, OthersStay

\* The parts of Run have every job that is expected and ready.
LEMMA PlanIsComplete ==
    ASSUME NEW a, NEW i \in Entries, Expected(a, i), i \in a.ready, IsAcceptable(i)
    PROVE  \E k \in Parts : <<k, i>> \in Plan(a)
<1>1. Config[i].group \in Groups
  BY HostAssumption DEF IsAcceptable
<1>2. \E k \in Parts : i \in Part(k, a)
  <2>1. CASE a.cmd = Config[i].name
    <3>1. i \in Part(4, a)
      BY <2>1 DEF Part
    <3> QED
      BY <3>1 DEF Parts
  <2>2. CASE a.cmd \in {"all", Config[i].group}
    <3>1. Selected(a.cmd, Config[i].group) /\ i \in JobsOf(a.ready, Config[i].group)
      BY <2>2 DEF Selected, JobsOf
    <3>2. /\ Config[i].group = "external" => i \in Part(1, a)
          /\ Config[i].group = "databases" => i \in Part(2, a)
          /\ Config[i].group = "files" => i \in Part(3, a)
      BY <3>1 DEF Part
    <3> QED
      BY <1>1, <3>2 DEF Groups, Parts
  <2> QED
    BY <2>1, <2>2 DEF Expected
<1> QED
  BY <1>2 DEF Plan

\* The commands that are no starts are not what a job is expected by.
LEMMA NotExpected ==
    ASSUME NEW a, NEW i \in Entries, a.cmd \in {"test", "ls", "update"}
    PROVE  ~Expected(a, i)
<1>1. Config[i].name \in JobNames
  BY DEF JobNames
<1> QED
  BY <1>1, HostAssumption DEF Expected, Groups

\* A step of p before the jobs are performed.
LEMMA QuietBefore ==
    ASSUME TypeOK, Quiet, NEW p \in Processes,
           Start(p) \/ Kill(p) \/ StoragesInit(p) \/ JobsInit(p) \/ StartBackup(p) \/ LockRefused(p)
    PROVE  QuietStart(proc'[p])
<1> DEFINE a == proc[p]
           b == proc'[p]
<1>1. a \in Process /\ QuietStart(a) /\ listed \subseteq Entries
  BY DEF TypeOK, Quiet
<1>2. ASSUME NEW next, To(p, next)
      PROVE  b = next
  BY <1>2 DEF To, TypeOK
<1>3. CASE Start(p)
  <2>1. a.pc = "idle" /\ a.result = "none"
    BY <1>1, <1>3 DEF Start, AppCtxInit, At, QuietStart
  <2>2. /\ b.pc \in {"storages", "check", "ended"} /\ b.result \in {"none", "error"}
        /\ b.result # "none" => b.pc = "ended"
    BY <1>1, <1>2, <1>3, <2>1 DEF Start, AppCtxInit, Ended, Process
  <2> QED
    BY <2>2 DEF QuietStart, Saving
<1>4. CASE Kill(p)
  <2>1. a.result = "none"
    BY <1>1, <1>4 DEF Kill, Alive, QuietStart
  <2>2. b.pc = "killed" /\ b.result = "none"
    BY <1>1, <1>2, <1>4, <2>1 DEF Kill, Process
  <2> QED
    BY <2>2 DEF QuietStart, Saving
<1>5. CASE StoragesInit(p)
  <2>1. a.result = "none"
    BY <1>1, <1>5 DEF StoragesInit, At, QuietStart
  <2>2. b.pc = "jobs" /\ b.result = "none"
    BY <1>1, <1>2, <1>5, <2>1 DEF StoragesInit, Process
  <2> QED
    BY <2>2 DEF QuietStart, Saving
<1>6. CASE JobsInit(p)
  <2> DEFINE registers(registered) ==
                 [n \in JobNames |-> IF \E i \in registered : Config[i].name = n THEN "blank" ELSE "absent"]
             misses(ready) == a.logged \/ \E i \in listed : ~WellConfigured(p, i, ready)
             after(ready, registered) ==
                 [a EXCEPT !.ready = ready, !.mem = registers(registered), !.logged = misses(ready), !.pc = "run"]
             acceptable == {i \in listed : IsAcceptable(i)}
  <2>1. PICK ready \in SUBSET acceptable, registered \in SUBSET acceptable : To(p, after(ready, registered))
    BY <1>6, Zenon DEF JobsInit
  <2>2. a.result = "none"
    BY <1>1, <1>6 DEF JobsInit, At, QuietStart
  <2>3. ASSUME NEW i \in listed, ~misses(ready)
        PROVE  i \in ready /\ IsAcceptable(i) /\ Config[i].storages \subseteq a.avail
    BY <2>3 DEF WellConfigured
  <2> HIDE DEF registers, misses
  <2>4. /\ b.pc = "run" /\ b.result = a.result /\ b.ready = ready /\ b.avail = a.avail
        /\ b.logged = misses(ready)
    BY <1>1, <1>2, <2>1 DEF Process
  <2> QED
    BY <2>2, <2>3, <2>4 DEF QuietStart, Saving
<1>7. CASE StartBackup(p)
  <2>1. a.pc = "run" /\ a.result = "none"
    BY <1>1, <1>7 DEF StartBackup, At, QuietStart
  <2>2. /\ b.pc = "lock" /\ b.result = "none" /\ b.ready = a.ready /\ b.avail = a.avail /\ b.cmd = a.cmd
        /\ b.logged = a.logged
    BY <1>1, <1>2, <1>7, <2>1 DEF StartBackup, Process
  <2>3. ASSUME NEW i \in listed, Expected(b, i), ~b.logged
        PROVE  i \in b.ready /\ IsAcceptable(i) /\ Config[i].storages \subseteq b.avail
    BY <1>1, <2>1, <2>2, <2>3 DEF QuietStart, Expected
  <2> QED
    BY <2>2, <2>3 DEF QuietStart, Saving
<1>8. CASE LockRefused(p)
  <2>1. a.result = "none"
    BY <1>1, <1>8 DEF LockRefused, At, QuietStart
  <2>2. b.pc = "read" /\ b.result = "none" /\ b.logged
    BY <1>1, <1>2, <1>8, <2>1 DEF LockRefused, Process
  <2> QED
    BY <2>2 DEF QuietStart
<1> QED
  BY <1>3, <1>4, <1>5, <1>6, <1>7, <1>8

\* A step of p that has the lock: the plan is complete, and each job is done
\* before it leaves the queue.
LEMMA QuietJobs ==
    ASSUME TypeOK, Quiet, NEW p \in Processes, TryLock(p) \/ Perform(p) \/ JobsDone(p)
    PROVE  QuietStart(proc'[p])
<1> DEFINE a == proc[p]
           b == proc'[p]
<1>1. a \in Process /\ QuietStart(a) /\ listed \subseteq Entries
  BY DEF TypeOK, Quiet
<1>2. ASSUME NEW next, To(p, next)
      PROVE  b = next
  BY <1>2 DEF To, TypeOK
<1>3. a.result = "none"
  BY <1>1 DEF TryLock, Perform, JobsDone, At, QuietStart
<1>4. CASE TryLock(p)
  <2>1. a.pc = "lock"
    BY <1>4 DEF TryLock, At
  <2>2. /\ b.pc = "perform" /\ b.result = "none" /\ b.queue = Plan(a) /\ b.avail = a.avail /\ b.cmd = a.cmd
        /\ b.logged = a.logged
    BY <1>1, <1>2, <1>3, <1>4 DEF TryLock, Process
  <2>3. ASSUME NEW i \in listed, Expected(b, i), ~b.logged
        PROVE  (\E k \in Parts : <<k, i>> \in b.queue) /\ Config[i].storages \subseteq b.avail
    <3>1. Expected(a, i) /\ i \in a.ready /\ IsAcceptable(i) /\ Config[i].storages \subseteq a.avail
      BY <1>1, <2>1, <2>2, <2>3 DEF QuietStart, Expected
    <3> QED
      BY <1>1, <2>2, <3>1, PlanIsComplete
  <2> QED
    BY <2>2, <2>3 DEF QuietStart, Saving
<1>5. CASE Perform(p)
  <2>1. PICK x \in a.queue, o \in {"good", "bad", "notDue"} :
            /\ x[2] \in Entries
            /\ b.queue = a.queue \ {x}
            /\ b.done = [a.done EXCEPT ![x[2]] = o]
            /\ o = "bad" => b.logged
            /\ a.logged => b.logged
    BY <1>5, Performed
  <2>2. a.pc = "perform" /\ b.pc = "perform" /\ b.cmd = a.cmd /\ b.avail = a.avail /\ b.result = "none"
    BY <1>3, <1>5, Performed DEF Perform, At
  <2>3. a.done \in [Entries -> {"none", "good", "bad", "notDue"}]
    BY <1>1 DEF Process
  <2>4. ASSUME NEW i \in listed, Expected(b, i), ~b.logged
        PROVE  /\ IsDone(b, i) \/ \E k \in Parts : <<k, i>> \in b.queue
               /\ Config[i].storages \subseteq b.avail
    <3>1. /\ IsDone(a, i) \/ \E k \in Parts : <<k, i>> \in a.queue
          /\ Config[i].storages \subseteq a.avail
      BY <1>1, <2>1, <2>2, <2>4 DEF QuietStart, Expected
    <3>2. CASE i = x[2]
      BY <1>1, <2>1, <2>2, <2>3, <2>4, <3>1, <3>2 DEF IsDone
    <3>3. CASE i # x[2]
      <4>1. b.done[i] = a.done[i]
        BY <1>1, <2>1, <2>3, <3>3
      <4>2. \A k \in Parts : <<k, i>> # x
        BY <3>3
      <4> QED
        BY <2>1, <2>2, <3>1, <4>1, <4>2 DEF IsDone
    <3> QED
      BY <3>2, <3>3
  <2> QED
    BY <2>2, <2>4 DEF QuietStart, Saving
<1>6. CASE JobsDone(p)
  <2>1. a.pc = "perform" /\ a.queue = {}
    BY <1>6 DEF JobsDone, At
  <2>2. /\ b.pc = "unlock" /\ b.result = "none" /\ b.done = a.done /\ b.avail = a.avail /\ b.cmd = a.cmd
        /\ b.logged = a.logged
    BY <1>1, <1>2, <1>3, <1>6 DEF JobsDone, Process
  <2>3. ASSUME NEW i \in listed, Expected(b, i), ~b.logged
        PROVE  IsDone(b, i) /\ Config[i].storages \subseteq b.avail
    BY <1>1, <2>1, <2>2, <2>3 DEF QuietStart, Expected, IsDone
  <2> QED
    BY <2>2, <2>3 DEF QuietStart, Saving
<1> QED
  BY <1>4, <1>5, <1>6

\* A step of p that saves the metrics, or ends the start.
LEMMA QuietAfter ==
    ASSUME TypeOK, Quiet, NEW p \in Processes,
           \/ Unlock(p) \/ SkipMetrics(p) \/ ReadMetrics(p) \/ OpenMetrics(p) \/ WriteMetrics(p) \/ WriteRest(p)
           \/ Done(p)
    PROVE  QuietStart(proc'[p])
<1> DEFINE a == proc[p]
           b == proc'[p]
<1>1. a \in Process /\ QuietStart(a)
  BY DEF TypeOK, Quiet
<1>2. ASSUME NEW next, To(p, next)
      PROVE  b = next
  BY <1>2 DEF To, TypeOK
<1>3. a.pc \in Saving /\ a.result = "none"
  BY <1>1 DEF Unlock, SkipMetrics, ReadMetrics, OpenMetrics, WriteMetrics, WriteRest, Done, At, Saving, QuietStart
<1>4. ASSUME NEW pc \in Saving
      PROVE  QuietStart([a EXCEPT !.pc = pc]) /\ QuietStart([Failed(a) EXCEPT !.pc = pc])
  <2>1. LET c == [a EXCEPT !.pc = pc]
        IN /\ c.pc = pc /\ c.logged = a.logged
           /\ c.cmd = a.cmd /\ c.done = a.done /\ c.avail = a.avail /\ c.result = a.result
    BY <1>1 DEF Process
  <2>2. LET c == [Failed(a) EXCEPT !.pc = pc]
        IN /\ c.pc = pc /\ c.logged
           /\ c.cmd = a.cmd /\ c.done = a.done /\ c.avail = a.avail /\ c.result = a.result
    BY <1>1 DEF Process, Failed
  <2> QED
    BY <1>1, <1>3, <1>4, <2>1, <2>2, SavingIsQuiet
<1>5. "read" \in Saving /\ "open" \in Saving /\ "write" \in Saving /\ "rest" \in Saving /\ "exit" \in Saving
  BY DEF Saving
<1>6. CASE Unlock(p) \/ SkipMetrics(p) \/ WriteMetrics(p) \/ WriteRest(p)
  BY <1>2, <1>4, <1>5, <1>6 DEF Unlock, SkipMetrics, WriteMetrics, WriteRest
<1>7. CASE ReadMetrics(p)
  <2> DEFINE merged == [n \in JobNames |-> IF a.mem[n] = "absent" THEN metrics.of[n] ELSE a.mem[n]]
  <2>1. To(p, [a EXCEPT !.pc = "open", !.mem = merged]) \/ To(p, [Failed(a) EXCEPT !.pc = "exit"])
    BY <1>7 DEF ReadMetrics
  <2> HIDE DEF merged
  <2>2. LET c == [a EXCEPT !.pc = "open", !.mem = merged]
        IN /\ c.pc = "open" /\ c.logged = a.logged
           /\ c.cmd = a.cmd /\ c.done = a.done /\ c.avail = a.avail /\ c.result = a.result
    BY <1>1 DEF Process
  <2>3. QuietStart([a EXCEPT !.pc = "open", !.mem = merged])
    BY <1>1, <1>3, <1>5, <2>2, SavingIsQuiet
  <2> QED
    BY <1>2, <1>4, <1>5, <2>1, <2>3
<1>8. CASE OpenMetrics(p)
  <2>1. \/ b \in {[a EXCEPT !.pc = "write", !.mixed = mixed] : mixed \in BOOLEAN}
        \/ To(p, [Failed(a) EXCEPT !.pc = "exit"])
    BY <1>8 DEF OpenMetrics
  <2>2. ASSUME NEW mixed \in BOOLEAN
        PROVE  QuietStart([a EXCEPT !.pc = "write", !.mixed = mixed])
    <3>1. LET c == [a EXCEPT !.pc = "write", !.mixed = mixed]
          IN /\ c.pc = "write" /\ c.logged = a.logged
             /\ c.cmd = a.cmd /\ c.done = a.done /\ c.avail = a.avail /\ c.result = a.result
      BY <1>1 DEF Process
    <3> QED
      BY <1>1, <1>3, <1>5, <3>1, SavingIsQuiet
  <2> QED
    BY <1>2, <1>4, <1>5, <2>1, <2>2
<1>9. CASE Done(p)
  <2>1. b.pc = "ended" /\ b.cmd = a.cmd /\ b.done = a.done /\ b.avail = a.avail /\ b.logged = a.logged
    BY <1>1, <1>2, <1>9 DEF Done, Ended, Process
  <2>2. ASSUME NEW i \in listed, Expected(b, i), ~b.logged
        PROVE  IsDone(b, i) /\ Config[i].storages \subseteq b.avail
    BY <1>1, <1>3, <2>1, <2>2 DEF QuietStart, Expected, IsDone
  <2> QED
    BY <2>1, <2>2 DEF QuietStart, Saving
<1> QED
  BY <1>6, <1>7, <1>8, <1>9

\* A step of p that is no start, so no job is expected of it.
LEMMA QuietCommands ==
    ASSUME TypeOK, Updated, Quiet, NEW p \in Processes,
           TestConfig(p) \/ ListBackups(p) \/ CheckVersion(p) \/ Download(p) \/ Extract(p) \/ Rename(p)
    PROVE  QuietStart(proc'[p])
<1> DEFINE a == proc[p]
           b == proc'[p]
<1>1. a \in Process /\ listed \subseteq Entries
  BY DEF TypeOK
<1>2. a.cmd \in {"test", "ls", "update"}
  BY DEF TestConfig, ListBackups, CheckVersion, Download, Extract, Rename, At, Updated, UpdatePlaces
<1>3. b.cmd = a.cmd
  BY Places DEF Run
<1>4. a.result = "none"
  BY DEF Quiet, QuietStart, TestConfig, ListBackups, CheckVersion, Download, Extract, Rename, At
<1>5. ASSUME NEW next, To(p, next)
      PROVE  b = next
  BY <1>5 DEF To, TypeOK
<1>6. ASSUME NEW result, To(p, Ended(a, result))
      PROVE  b.pc = "ended"
  BY <1>1, <1>5, <1>6 DEF Ended, Process
<1>7. ASSUME NEW pc, To(p, [a EXCEPT !.pc = pc])
      PROVE  b.result = "none"
  BY <1>1, <1>4, <1>5, <1>7 DEF Process
<1>8. b.result # "none" => b.pc = "ended"
  BY <1>6, <1>7 DEF TestConfig, ListBackups, CheckVersion, Download, Extract, Extracted, Rename, UpdateEnds
<1>9. \A i \in listed : ~Expected(b, i)
  BY <1>1, <1>2, <1>3, NotExpected
<1> QED
  BY <1>8, <1>9 DEF QuietStart

LEMMA QuietNext == TypeOK /\ Updated /\ Quiet /\ [Next]_vars => Quiet'
<1> SUFFICES ASSUME TypeOK, Updated, Quiet, [Next]_vars
             PROVE  Quiet'
  OBVIOUS
<1>1. CASE UNCHANGED vars
  BY <1>1 DEF vars, Quiet, QuietStart
<1>2. CASE Next
  <2>1. PICK p \in Processes : Start(p) \/ Run(p) \/ Kill(p)
    BY <1>2 DEF Next
  <2>2. UNCHANGED listed
    BY <2>1 DEF config, Start, Run, Kill, AppCtxInit, StoragesInit, JobsInit, TestConfig, ListBackups, StartBackup,
           TryLock, LockRefused, Perform, JobsDone, Unlock, SkipMetrics, ReadMetrics, OpenMetrics, WriteMetrics,
           WriteRest, Done, CheckVersion, Download, Extract, Rename
  <2>3. QuietStart(proc'[p])
    BY <2>1, QuietBefore, QuietJobs, QuietAfter, QuietCommands DEF Run
  <2>4. \A q \in Processes \ {p} : QuietStart(proc'[q])
    BY <2>1, OthersAreQuiet
  <2> QED
    BY <2>2, <2>3, <2>4 DEF Quiet, QuietStart
<1> QED
  BY <1>1, <1>2

\* QuietExitIsClean: a start that has logged no error and exits with 0 has done
\* every job that is configured and that its argument stands for.
THEOREM QuietStartsAreClean == Spec => []QuietExitIsClean
<1>1. Init => Quiet
  <2>1. Idle.result = "none" /\ Idle.pc = "idle"
    BY DEF Idle
  <2>2. QuietStart(Idle)
    BY <2>1 DEF QuietStart, Saving
  <2> QED
    BY <2>2 DEF Init, Quiet
<1>2. Quiet => QuietExitIsClean
  <2>1. ASSUME Quiet, NEW p \in Processes, NEW i \in listed, Expected(proc[p], i),
               proc[p].result = "ok", ~proc[p].logged
        PROVE  IsDone(proc[p], i) /\ Config[i].storages \subseteq proc[p].avail
    <3>1. QuietStart(proc[p])
      BY <2>1 DEF Quiet
    <3> QED
      BY <2>1, <3>1 DEF QuietStart
  <2> QED
    BY <2>1 DEF QuietExitIsClean, Expected, IsDone
<1> QED
  BY <1>1, <1>2, TypeCorrect, UpdatesKeepOrder, QuietNext, PTL DEF Spec
=============================================================================
