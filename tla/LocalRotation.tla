---------------------------- MODULE LocalRotation ----------------------------
(***************************************************************************)
(* The copies of one target on a local storage over many days and runs:    *)
(* a backup that is due in several periods is one file and symlinks to it, *)
(* so the rotation (Local.deleteDiscBackup) must not delete a file that a  *)
(* link still needs; it moves the file over the link instead.  System      *)
(* calls may fail, the process may be killed at any point, and midnight may*)
(* fall into a run: each step asks for the date anew.                      *)
(*                                                                         *)
(* A copy is known by its period and the number of the run that made it:   *)
(* the file names of one run are the same in all directories.              *)
(***************************************************************************)
EXTENDS Delivery

CONSTANTS RuleChoices, \* retention rules the storage may be configured with
          LastDay,     \* bound: days
          LateRuns,    \* midnight may fall into a run
          MaxRuns,     \* bound: runs of the job
          MaxFaults    \* bound: system calls that fail, kills included

ASSUME LocalAssumption ==
    /\ RuleChoices \subseteq Rules
    /\ LastDay \in Nat \ {0} /\ MaxRuns \in Nat /\ MaxFaults \in Nat /\ LateRuns \in BOOLEAN

\* Bound: midnights between the end of a dump and its delivery.
MaxAge == 6

\* Months are longer.
ASSUME MonthAssumption == \A f, g \in FirstDays : f < g => g - f > MaxAge

Runs == 1 .. MaxRuns
Names == Periods \X Runs

VARIABLES rule, safe, \* the configuration of the storage and the job
          tar,        \* the names of the job's copies end in .tar or .tar.gz
          today,
          late,       \* midnight has fallen into a run
          runs,       \* runs so far
          pc,
          archived,   \* the day on which the dump in work was made, else 0
          files,      \* what each period's directory has under each name
          clock,      \* orders the modification times
          listed,     \* the periods in effect when the loop came to them
          linked,     \* filesMap: <<p, r, q>> when <<q, r>> links to <<p, r>>
          unread,     \* links of the last listing that could not be read
          doomed,     \* filesToDeleteMap
          left,       \* names the loop over it has not come to
          cur,        \* the name it deals with
          moved,      \* its file was moved over the weekly link
          kept,       \* it must not be removed
          made,       \* the periods of each run's complete backup and its days
          faults

setup == <<rule, safe, tar>>
loop == <<listed, linked, unread, doomed, left, cur, moved, kept>>
calendar == <<today, late>>
vars == <<setup, calendar, runs, pc, archived, files, clock, loop, made, faults>>

NoCopy == [is |-> "none", to |-> "none", at |-> 0, day |-> 0]
Copies == [is : Contents, to : Periods \cup {"none"}, at : Nat, day : Nat]
NoName == <<"none", 0>>
NotMade == [periods |-> {}, day |-> 0, archived |-> 0]

There(fs, n) == fs[n[1]][n[2]].is # "none"

Init ==
    /\ rule \in RuleChoices /\ safe \in BOOLEAN /\ tar \in BOOLEAN
    /\ today = 1 /\ late = FALSE
    /\ runs = 0 /\ pc = "idle" /\ archived = 0 /\ clock = 0 /\ faults = 0
    /\ files = [p \in Periods |-> [r \in Runs |-> NoCopy]]
    /\ listed = {} /\ linked = {} /\ unread = {} /\ doomed = {} /\ left = {}
    /\ cur = NoName /\ moved = FALSE /\ kept = FALSE
    /\ made = [r \in Runs |-> NotMade]

CanFail == faults < MaxFaults
Fault == CanFail /\ faults' = faults + 1
NoFault == UNCHANGED faults

-----------------------------------------------------------------------------
\* Perform: nothing happens unless a backup is due.
StartRun ==
    /\ pc = "idle"
    /\ runs < MaxRuns
    /\ IsNeedToBackup(rule, today)
    /\ runs' = runs + 1
    /\ pc' = IF safe THEN "dump" ELSE "list"
    /\ UNCHANGED <<setup, calendar, archived, files, clock, loop, made, faults>>

AfterRotation == IF safe THEN "idle" ELSE "dump"
AfterBackup == IF safe THEN "list" ELSE "idle"

\* DoBackup makes an archive; or there is nothing to deliver.
Dump ==
    /\ pc = "dump"
    /\ archived' = today
    /\ pc' = "deliver"
    /\ UNCHANGED <<setup, calendar, runs, files, clock, loop, made, faults>>

DumpFails ==
    /\ pc = "dump"
    /\ Fault
    /\ pc' = AfterBackup
    /\ UNCHANGED <<setup, calendar, runs, archived, files, clock, loop, made>>

\* Local.DeliverBackup moves or copies it, to the end or not, to the periods
\* of this day.  A file that is moved keeps its modification time.
Due == DstList(rule, today)
Target(held, p) == IF held[p].is = "link" THEN First(Due) ELSE "none"

Deliver ==
    /\ pc = "deliver"
    /\ clock' = clock + 1
    /\ \E o \in LocalDelivery(TRUE, archived, [p \in Periods |-> NoFile], Due, today) :
          /\ files' = [p \in Periods |-> [files[p] EXCEPT ![runs] =
                 IF o.held[p].is = "none" THEN NoCopy
                 ELSE [is |-> o.held[p].is, to |-> Target(o.held, p), at |-> clock', day |-> o.held[p].day]]]
          /\ IF o.ok
             THEN /\ made' = [made EXCEPT ![runs] = [periods |-> Due, day |-> today, archived |-> archived]]
                  /\ NoFault
             ELSE Fault /\ UNCHANGED made
    /\ archived' = 0
    /\ pc' = AfterBackup
    /\ UNCHANGED <<setup, calendar, runs, loop>>

-----------------------------------------------------------------------------
\* The first loop of deleteDiscBackup asks for the date once for each period,
\* in their order; midnight may pass between two of them.
Readings ==
    {on \in [Periods -> IF LateRuns /\ today < LastDay THEN {today, today + 1} ELSE {today}] :
        \A p, q \in Periods : Before(p, q) => on[p] <= on[q]}

\* The directories that are in effect, the links between their files, the
\* names to delete.
IsListed(p, on) == InEffect(rule, p, on[p])
Listed(on) == {n \in Names : IsListed(n[1], on) /\ There(files, n)}
Links(on) == {n \in Listed(on) : files[n[1]][n[2]].is = "link"}
LinkTarget(n) == <<files[n[1]][n[2]].to, n[2]>>

Objects(p, on) ==
    {[run |-> r, at |-> files[p][r].at, day |-> files[p][r].day] : r \in {r \in Runs : <<p, r>> \in Listed(on)}}

ToDelete(on) ==
    {n \in Listed(on) :
        \E o \in RotatedObjects(rule, n[1], on[n[1]], safe, tar, Objects(n[1], on)) : o.run = n[2]}

\* Broken: the links are not looked for.
LinksToNone(on, skipped) == {}

\* A link is noted with the file it leads to if that file was listed.
LinksTo(on, skipped) ==
    {<<LinkTarget(n)[1], n[2], n[1]>> : n \in {n \in Links(on) \ skipped : LinkTarget(n) \in Listed(on)}}

ListFiles ==
    /\ pc = "list"
    /\ \E on \in Readings :
          /\ \E skipped \in {{}} \cup {{n} : n \in Links(on)} :
                /\ IF skipped = {} THEN NoFault ELSE Fault
                /\ unread' = skipped
                /\ linked' = LinksTo(on, skipped)
          /\ listed' = {p \in Periods : IsListed(p, on)}
          /\ doomed' = ToDelete(on)
          /\ left' = ToDelete(on)
          /\ today' = on["daily"]
          /\ late' = (late \/ on["daily"] # today)
    /\ pc' = "next"
    /\ UNCHANGED <<setup, runs, archived, files, clock, cur, moved, kept, made>>

\* A directory that cannot be opened or read ends the rotation.
ListingFails ==
    /\ pc = "list"
    /\ Fault
    /\ pc' = AfterRotation
    /\ UNCHANGED <<setup, calendar, runs, archived, files, clock, loop, made>>

-----------------------------------------------------------------------------
\* The second loop goes through the map, in any order.
NextFile ==
    /\ pc = "next"
    /\ \E n \in left :
          /\ cur' = n
          /\ left' = left \ {n}
    /\ moved' = FALSE /\ kept' = FALSE
    /\ pc' = "weekly"
    /\ UNCHANGED <<setup, calendar, runs, archived, files, clock, listed, linked, unread, doomed, made, faults>>

EndLoop ==
    /\ cur' = NoName /\ moved' = FALSE /\ kept' = FALSE
    /\ listed' = {} /\ linked' = {} /\ doomed' = {} /\ unread' = {}

RotationDone ==
    /\ pc = "next"
    /\ left = {}
    /\ EndLoop /\ UNCHANGED left
    /\ pc' = AfterRotation
    /\ UNCHANGED <<setup, calendar, runs, archived, files, clock, made, faults>>

\* wLink and dLink of the current file.
WeeklyLink == <<"weekly", cur[2]>>
DailyLink == <<"daily", cur[2]>>
HasLink(n) == <<cur[1], cur[2], n[1]>> \in linked
HasKeptLink(n) == HasLink(n) /\ n \notin doomed

With(fs, n, copy) == [fs EXCEPT ![n[1]][n[2]] = copy]
Without(fs, n) == With(fs, n, NoCopy)
At(fs, n) == fs[n[1]][n[2]]

\* moveFile removes the link, then renames; either may fail, the removal
\* always does when the link is gone.
MoveOver(n) ==
    \/ /\ There(files, n)
       /\ files' = Without(With(files, n, At(files, cur)), cur)
       /\ moved' = TRUE
       /\ NoFault
    \/ /\ files' \in {files, Without(files, n)}
       /\ UNCHANGED moved
       /\ IF There(files, n) THEN Fault ELSE NoFault

MoveToWeekly ==
    /\ pc = "weekly"
    /\ IF HasKeptLink(WeeklyLink)
       THEN MoveOver(WeeklyLink) /\ kept' = TRUE /\ pc' = "relink"
       ELSE pc' = "daily" /\ UNCHANGED <<files, moved, kept, faults>>
    /\ UNCHANGED <<setup, calendar, runs, archived, clock, listed, linked, unread, doomed, left, cur, made>>

\* Broken: what the loop has not come to is remembered.
BreakLoopLeavingNames ==
    /\ pc' = AfterRotation
    /\ EndLoop
    /\ UNCHANGED <<files, clock, left>>

\* break: the names that are left stay until the next rotation.
BreakLoop ==
    /\ pc' = AfterRotation
    /\ left' = {}
    /\ EndLoop
    /\ UNCHANGED <<files, clock>>

\* The daily link is made anew, to the file's new place; its modification
\* time is that of today.  A daily link that is not there has the name "",
\* which is not among the names to delete: removing it fails and breaks the loop.
Relink ==
    /\ pc = "relink"
    /\ \/ HasLink(DailyLink) /\ DailyLink \in doomed
          /\ pc' = "daily" /\ NoFault /\ UNCHANGED <<files, clock, loop>>
       \/ ~HasLink(DailyLink) /\ BreakLoop /\ NoFault
       \/ HasKeptLink(DailyLink) /\ BreakLoop /\ Fault
       \/ /\ HasKeptLink(DailyLink)
          /\ \/ /\ clock' = clock + 1
                /\ files' = With(files, DailyLink,
                               [is |-> "link", to |-> "weekly", at |-> clock', day |-> today])
                /\ NoFault
             \/ /\ files' = Without(files, DailyLink)
                /\ UNCHANGED clock
                /\ Fault
          /\ pc' = "daily"
          /\ UNCHANGED loop
    /\ UNCHANGED <<setup, calendar, runs, archived, made>>

\* Broken: the daily link is not looked at.
NeedsDailyMoveNever == FALSE

NeedsDailyMove == HasKeptLink(DailyLink) /\ ~moved

MoveToDaily ==
    /\ pc = "daily"
    /\ IF NeedsDailyMove
       THEN MoveOver(DailyLink) /\ kept' = TRUE
       ELSE UNCHANGED <<files, moved, kept, faults>>
    /\ pc' = "remove"
    /\ UNCHANGED <<setup, calendar, runs, archived, clock, listed, linked, unread, doomed, left, cur, made>>

RemoveFile ==
    /\ pc = "remove"
    /\ \/ kept /\ NoFault /\ UNCHANGED files
       \/ ~kept /\ NoFault /\ files' = Without(files, cur)
       \/ ~kept /\ Fault /\ UNCHANGED files
    /\ pc' = "next"
    /\ UNCHANGED <<setup, calendar, runs, archived, clock, loop, made>>

-----------------------------------------------------------------------------
\* The process dies, between two system calls.
Killed ==
    /\ pc # "idle"
    /\ Fault
    /\ pc' = "idle"
    /\ left' = {} /\ EndLoop /\ archived' = 0
    /\ UNCHANGED <<setup, calendar, runs, files, clock, made>>

Midnight ==
    /\ today < LastDay
    /\ pc = "idle" \/ LateRuns
    /\ pc = "deliver" => today - archived < MaxAge
    /\ today' = today + 1
    /\ late' = (late \/ pc # "idle")
    /\ UNCHANGED <<setup, runs, pc, archived, files, clock, loop, made, faults>>

Next ==
    \/ StartRun \/ Dump \/ DumpFails \/ Deliver
    \/ ListFiles \/ ListingFails \/ NextFile \/ RotationDone
    \/ MoveToWeekly \/ Relink \/ MoveToDaily \/ RemoveFile
    \/ Killed \/ Midnight

Spec == Init /\ [][Next]_vars

-----------------------------------------------------------------------------
(***************************************************************************)
(* Properties.                                                             *)
(***************************************************************************)
\* Type invariant of the storage's state and of the rotation's loops.
TypeOK ==
    /\ rule \in RuleChoices /\ safe \in BOOLEAN /\ tar \in BOOLEAN
    /\ today \in 1 .. LastDay /\ late \in BOOLEAN /\ archived \in 0 .. LastDay
    /\ runs \in 0 .. MaxRuns /\ clock \in Nat /\ faults \in 0 .. MaxFaults
    /\ pc \in {"idle", "list", "dump", "deliver", "next", "weekly", "relink", "daily", "remove"}
    /\ files \in [Periods -> [Runs -> Copies]]
    /\ listed \subseteq Periods /\ linked \subseteq Periods \X Runs \X {"weekly", "daily"}
    /\ doomed \subseteq Names /\ left \subseteq doomed /\ unread \subseteq Names
    /\ cur \in Names \cup {NoName} /\ moved \in BOOLEAN /\ kept \in BOOLEAN
    /\ made \in [Runs -> [periods : SUBSET Periods, day : Nat, archived : Nat]]

\* Opening the copy leads to the complete archive (EvalSymlinks, GetFileReader).
Readable(p, r) ==
    \/ files[p][r].is = "archive"
    \/ /\ files[p][r].is = "link"
       /\ files[files[p][r].to][r].is = "archive"

\* A day counts from the end of the dump, whose time a moved file keeps; a week
\* or a month from the delivery.
Born(p, r) == IF p = "daily" THEN made[r].archived ELSE made[r].day

\* So many days, Sundays or firsts of month have not yet passed.
TermRuns(p, day) ==
    CASE p = "daily"   -> today - day < rule.days
      [] p = "weekly"  -> Cardinality({d \in Sundays : day < d /\ d <= today}) < rule.weeks
      [] p = "monthly" -> Cardinality({d \in FirstDays : day < d /\ d <= today}) < rule.months

\* As many newer backups of the period have been made.
Newer(p, r) == Cardinality({q \in Runs : q > r /\ p \in made[q].periods})

\* Unsafe rotation makes room for a copy of the day it runs on; if the delivery
\* comes after midnight the copy may not be one of that period.
IsRecent(p, r) == Newer(p, r) + (IF late /\ ~safe THEN 1 ELSE 0) < RetentionCount(rule, p)

IsWanted(p, r) ==
    /\ p \in made[r].periods
    /\ IF rule.useCount THEN IsRecent(p, r) ELSE TermRuns(p, Born(p, r))

\* docs/3.5: the retention rule says for how long, or in what number, daily,
\* weekly and monthly copies are kept.  As long as no system call has failed,
\* every copy the rule still wants can be read under its own name between two
\* runs, wherever the rotation has moved the file behind its link and wherever
\* midnights have fallen; but unsafe rotation keeps one copy less of a number
\* once midnight has fallen into a run.
WantedIsReadable ==
    pc = "idle" /\ faults = 0 => \A p \in Periods, r \in Runs : IsWanted(p, r) => Readable(p, r)

HasArchive(r) == \E p \in Periods : files[p][r].is = "archive"

\* A call fails or the process is killed, anywhere: when the last file of a
\* backup goes, each copy that is read from it, under its own name or through a
\* link in a listed directory, is to be deleted too.  (With two such accidents a
\* link may lead to a link, and be moved out of sight of the loop.)
LastFileGoesLast ==
    [][\A r \in Runs : HasArchive(r) /\ ~HasArchive(r)' =>
          \A p \in listed : Readable(p, r) => <<p, r>> \in doomed \cup unread]_vars
=============================================================================
