--------------------------- MODULE StorageRotation ---------------------------
(***************************************************************************)
(* The copies of one target on one remote storage over many days and many  *)
(* runs of the job: every run rotates the period directories and adds a    *)
(* copy, rotation first or, with safe_rotation, last.  Dumps, uploads,     *)
(* listings and removals may fail.  The file servers (sftp, ftp, nfs, smb, *)
(* webdav) are rotated directory by directory; s3 lists and removes the    *)
(* objects of all periods in one go.                                       *)
(***************************************************************************)
EXTENDS Delivery

CONSTANTS KindChoices, \* kinds the storage may have
          RuleChoices, \* retention rules it may be configured with
          LastDay,     \* bound: days
          MaxRuns,     \* bound: runs of the job
          LateRuns     \* whether midnight may fall into a run

ASSUME RotationAssumption ==
    /\ KindChoices \subseteq RemoteKinds
    /\ RuleChoices \subseteq Rules
    /\ LastDay \in Nat \ {0} /\ MaxRuns \in Nat /\ LateRuns \in BOOLEAN

VARIABLES kind, rule, safe, \* the configuration of the storage and the job
          tar,        \* the copies' names end in .tar or .tar.gz
          today,
          runs,       \* runs so far: modification times of the copies
          pc,         \* idle, rotate, deliver
          left,       \* periods the running rotation has not come to
          files,      \* the copies in each period's directory
          clean,      \* no listing or removal of the last rotation failed
          late        \* midnight fell into this run, or the last one

setup == <<kind, rule, safe, tar>>
vars == <<setup, today, runs, pc, left, files, clean, late>>

Copies == [at : 1 .. MaxRuns, day : 1 .. LastDay]

Init ==
    /\ kind \in KindChoices
    /\ rule \in RuleChoices
    /\ safe \in BOOLEAN /\ tar \in BOOLEAN
    /\ today = 1
    /\ runs = 0
    /\ pc = "idle"
    /\ left = {}
    /\ files = [p \in Periods |-> {}]
    /\ clean = TRUE /\ late = FALSE

BeginRotation == pc' = "rotate" /\ left' = Periods /\ clean' = TRUE

\* Perform: nothing happens unless a backup is due.
StartRun ==
    /\ pc = "idle"
    /\ runs < MaxRuns
    /\ IsNeedToBackup(rule, today)
    /\ runs' = runs + 1
    /\ late' = FALSE
    /\ IF safe THEN pc' = "deliver" /\ UNCHANGED <<left, clean>> ELSE BeginRotation
    /\ UNCHANGED <<setup, today, files>>

-----------------------------------------------------------------------------
AfterRotation == IF safe THEN "idle" ELSE "deliver"

\* deleteDiscBackup goes through the periods in order; what is to be deleted
\* goes, or its removal fails and the loop continues.
RotatePeriod(p) ==
    /\ pc = "rotate"
    /\ kind # "s3"
    /\ p \in left /\ \A q \in left : ~Before(q, p)
    /\ left' = left \ {p}
    /\ pc' = IF left' = {} THEN AfterRotation ELSE "rotate"
    /\ \E stuck \in SUBSET RotatedObjects(rule, p, today, safe, tar, files[p]) :
          /\ files' = [files EXCEPT ![p] = @ \ (RotatedObjects(rule, p, today, safe, tar, @) \ stuck)]
          /\ clean' = (clean /\ stuck = {})
    /\ UNCHANGED <<setup, today, runs, late>>

\* A directory, or an object list, that cannot be read ends the rotation.
ListingFails ==
    /\ pc = "rotate"
    /\ kind = "s3" \/ \E p \in left : InEffect(rule, p, today)
    /\ left' = {}
    /\ pc' = AfterRotation
    /\ clean' = FALSE
    /\ UNCHANGED <<setup, today, runs, files, late>>

\* S3.DeleteOldBackups looks at retention.weeks for the monthly objects, too.
\* (The names of the periods are looked for anywhere in an object's key; here
\* they are nowhere but in its directory.)
S3Serves(p) ==
    /\ p = "daily"   => rule.days > 0
    /\ p = "weekly"  => rule.weeks > 0 /\ today \in Sundays
    /\ p = "monthly" => rule.weeks > 0 /\ today \in FirstDays

S3Doomed(p) ==
    IF ~S3Serves(p) THEN {}
    ELSE IF rule.useCount THEN Surplus(rule, p, safe, files[p])
    ELSE {f \in files[p] : f.day < RetentionDate(rule, p, today)}

\* The objects of all periods go to one call, or to one after the other.  Which
\* are left when an object cannot be removed depends on batch_deletion.
RotateObjects ==
    /\ pc = "rotate"
    /\ kind = "s3"
    /\ left' = {}
    /\ pc' = AfterRotation
    /\ \E stuck \in [Periods -> SUBSET UNION {S3Doomed(p) : p \in Periods}] :
          /\ \A p \in Periods : stuck[p] \subseteq S3Doomed(p)
          /\ files' = [p \in Periods |-> files[p] \ (S3Doomed(p) \ stuck[p])]
          /\ clean' = (clean /\ \A p \in Periods : stuck[p] = {})
    /\ UNCHANGED <<setup, today, runs, late>>

-----------------------------------------------------------------------------
Due == DstList(rule, today)

\* Broken: the modification time is read in another time zone.
AddedInAnotherZone(held) ==
    [p \in Periods |->
        files[p] \cup {[at |-> runs, day |-> today + 1] :
                           x \in {held[p].is} \ {"none"}}]

\* The copy gets the time of its upload, and lies beside the older ones.
Added(held) ==
    [p \in Periods |->
        files[p] \cup {[at |-> runs, day |-> today] :
                           x \in {held[p].is} \ {"none"}}]

AfterBackup ==
    IF safe THEN BeginRotation ELSE pc' = "idle" /\ UNCHANGED <<left, clean>>

\* DoBackup has an archive and delivers it, to the end or not.
Deliver ==
    /\ pc = "deliver"
    /\ \E o \in RemoteDelivery(kind, TRUE, [p \in Periods |-> NoFile], Due, today) :
          files' = Added(o.held)
    /\ AfterBackup
    /\ UNCHANGED <<setup, today, runs, late>>

\* DoBackup fails: there is nothing to deliver.  Perform goes on all the same.
DumpFails ==
    /\ pc = "deliver"
    /\ AfterBackup
    /\ UNCHANGED <<setup, today, runs, files, late>>

Midnight ==
    /\ today < LastDay
    /\ pc = "idle" \/ LateRuns
    /\ today' = today + 1
    /\ late' = (late \/ pc # "idle")
    /\ UNCHANGED <<setup, runs, pc, left, files, clean>>

Next ==
    \/ StartRun \/ RotateObjects \/ ListingFails \/ Deliver \/ DumpFails \/ Midnight
    \/ \E p \in Periods : RotatePeriod(p)

Spec == Init /\ [][Next]_vars

-----------------------------------------------------------------------------
Deleted(p) == files[p] \ files'[p]
Keep(p) == IF safe THEN RetentionCount(rule, p) ELSE RetentionCount(rule, p) - 1

\* Type invariant of the storage's state.
TypeOK ==
    /\ kind \in KindChoices /\ rule \in RuleChoices
    /\ safe \in BOOLEAN /\ tar \in BOOLEAN
    /\ today \in 1 .. LastDay /\ runs \in 0 .. MaxRuns
    /\ pc \in {"idle", "rotate", "deliver"} /\ left \subseteq Periods
    /\ files \in [Periods -> SUBSET Copies]
    /\ clean \in BOOLEAN /\ late \in BOOLEAN

\* s3 has no filter of names.
IsRotated == tar \/ kind = "s3"

\* A run of today has rotated a due period and made its copy.
JustRotated(p) ==
    /\ pc = "idle" /\ clean /\ ~late
    /\ InEffect(rule, p, today)
    /\ \E f \in files[p] : f.day = today

\* docs/3.5: a directory "will strictly hold" as many copies as its retention
\* rule says, "regardless of how often nxs-backup is run".
HoldsItsCount ==
    rule.useCount => \A p \in Periods : JustRotated(p) =>
        Cardinality(files[p]) <= RetentionCount(rule, p)

\* Copies that pass the filter of names do: a directory holds no more after a
\* run of the day, if its rotation met no error and no midnight fell into the
\* run: unsafe rotation has made room for the copy that comes after.
CountIsBounded == IsRotated => HoldsItsCount

\* By date, a directory then keeps such copies of so many days only: as many
\* daily, weekly (Sunday) or monthly (first of month) ones as the rule says.
WindowIsBounded ==
    IsRotated /\ ~rule.useCount => \A p \in Periods : JustRotated(p) =>
        Cardinality({f.day : f \in files[p]}) <= RetentionCount(rule, p)

\* By count, a copy goes only when enough newer ones are in its directory.
NewerOnesStay ==
    [][rule.useCount => \A p \in Periods : \A f \in Deleted(p) :
          Cardinality({g \in files'[p] : g.at > f.at}) >= Keep(p)]_vars

\* By date, a copy lives its full term: so many days, Sundays or firsts of
\* month have come after the one it was made on.
FullTerm ==
    [][~rule.useCount => \A p \in Periods : \A f \in Deleted(p) :
          CASE p = "daily"   -> today - f.day >= rule.days
            [] p = "weekly"  -> Cardinality({d \in Sundays : f.day < d /\ d <= today}) >= rule.weeks
            [] p = "monthly" -> Cardinality({d \in FirstDays : f.day < d /\ d <= today}) >= rule.months]_vars
=============================================================================
