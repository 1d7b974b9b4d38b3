------------------------------ MODULE BackupJob ------------------------------
(***************************************************************************)
(* One backup job, from jobsInit (which decides whether a backup is due    *)
(* today) through backup.Perform: rotation, dumping every target to a      *)
(* temporary archive (disc_files DoBackup), delivering the archives to     *)
(* every storage (interfaces.Storages.Delivery), cleaning up.  Time goes   *)
(* on while the job runs: midnight may fall between any two steps.         *)
(***************************************************************************)
EXTENDS Delivery

CONSTANTS Storages,    \* the storages of the job
          Targets,     \* the targets it dumps
          Kind,        \* the kind of each storage
          Rotating,    \* storages with enable_rotate
          RuleChoices, \* retention rules a storage may be configured with
          StartDays,   \* days on which the program may be started
          MaxNights,   \* bound: midnights that fall into one run
          None         \* no target

ASSUME JobAssumption ==
    /\ Kind \in [Storages -> Kinds]
    /\ Rotating \subseteq Storages
    /\ RuleChoices \subseteq Rules
    /\ StartDays \subseteq Nat \ {0}
    /\ MaxNights \in 0 .. 6 \* within a week only daily copies of the run can expire
    /\ None \notin Targets

VARIABLES job,        \* the configuration: deferred and safe flags, rules
          began,      \* the day of jobsInit
          today,
          pc,
          undumped,   \* targets DoBackup has not come to yet
          tmp,        \* targets whose temporary file exists
          madeOn,     \* its modification day
          dumped,     \* the keys of dumpedObjects
          delivered,  \* those with the Delivered flag
          visit,      \* objects the running Delivery has not visited
          cur,        \* the object it delivers, or None
          todo,       \* storages cur has not been offered to
          failed,     \* storages that refused cur
          backupOk, deliveryOk, \* targets whose metric is 1
          errs,       \* Perform has collected an error
          store       \* the copies of this run: storage, target, period

setup == <<job, began>>
dumpVars == <<undumped, madeOn, dumped, backupOk>>
deliverVars == <<delivered, visit, cur, todo, failed, deliveryOk>>
vars == <<setup, today, pc, dumpVars, tmp, deliverVars, errs, store>>

IsLocal(s) == Kind[s] = "local"

\* jobsInit: computed once, on the day the program was started.
NeedToMakeBackup == \E s \in Storages : IsNeedToBackup(job.rule[s], began)

Due(s) == DstList(job.rule[s], today)

Init ==
    /\ job \in [deferred : BOOLEAN, safe : BOOLEAN, rule : [Storages -> RuleChoices]]
    /\ began \in StartDays
    /\ today = began
    /\ pc = "start"
    /\ undumped = Targets
    /\ tmp = {} /\ dumped = {} /\ delivered = {}
    /\ backupOk = {} /\ deliveryOk = {}
    /\ madeOn = [t \in Targets |-> 0]
    /\ visit = {} /\ cur = None /\ todo = {} /\ failed = {}
    /\ errs = FALSE
    /\ store = [s \in Storages |-> [t \in Targets |-> [p \in Periods |-> NoFile]]]

-----------------------------------------------------------------------------
\* Storages.DeleteOldBackups: copies of earlier runs are not modelled here;
\* of this run's copies those that are outdated go, unless their removal fails.
IsExpired(s, t, p) ==
    /\ s \in Rotating
    /\ store[s][t][p].is # "none"
    /\ Outdated(job.rule[s], p, today, store[s][t][p].day)

Expired == {x \in Storages \X Targets \X Periods : IsExpired(x[1], x[2], x[3])}

Without(gone) ==
    [s \in Storages |-> [t \in Targets |-> [p \in Periods |->
        IF <<s, t, p>> \in gone THEN NoFile ELSE store[s][t][p]]]]

DeleteOldBackups ==
    \E gone \in SUBSET Expired, failure \in BOOLEAN :
        /\ gone # Expired => failure
        /\ store' = Without(gone)
        /\ errs' = (errs \/ failure)

\* "no new backups are created for the job", or there are no storages.
NothingToDo ==
    /\ pc = "start"
    /\ ~NeedToMakeBackup
    /\ pc' = "done"
    /\ UNCHANGED <<setup, today, dumpVars, tmp, deliverVars, errs, store>>

Begin ==
    /\ pc = "start"
    /\ NeedToMakeBackup
    /\ IF job.safe THEN UNCHANGED <<errs, store>> ELSE DeleteOldBackups
    /\ pc' = "prepare"
    /\ UNCHANGED <<setup, today, dumpVars, tmp, deliverVars>>

\* MkdirAll of the temporary directory; when it fails Perform returns at once.
MakeTmpDir ==
    /\ pc = "prepare"
    /\ \/ pc' = "dump" /\ UNCHANGED errs
       \/ pc' = "done" /\ errs' = TRUE
    /\ UNCHANGED <<setup, today, dumpVars, tmp, deliverVars, store>>

-----------------------------------------------------------------------------
\* Without deferred_copying a target is delivered as soon as it is dumped.
DeliverAfterEach == ~job.deferred

\* One round of DoBackup's loop.
DumpTarget(t) ==
    /\ pc = "dump"
    /\ t \in undumped
    /\ undumped' = undumped \ {t}
    /\ tmp' = tmp \cup {t}
    /\ madeOn' = [madeOn EXCEPT ![t] = today]
    /\ dumped' = dumped \cup {t}
    /\ backupOk' = backupOk \cup {t}
    /\ IF DeliverAfterEach THEN pc' = "deliver" /\ visit' = dumped'
                           ELSE UNCHANGED <<pc, visit>>
    /\ UNCHANGED <<setup, today, delivered, cur, todo, failed, deliveryOk, errs, store>>

\* The directory cannot be made, or tar fails and leaves what it has written.
DumpFails(t) ==
    /\ pc = "dump"
    /\ t \in undumped
    /\ undumped' = undumped \ {t}
    /\ tmp' \in {tmp, tmp \cup {t}}
    /\ errs' = TRUE
    /\ UNCHANGED <<setup, today, pc, madeOn, dumped, backupOk, deliverVars, store>>

\* After the loop Delivery is called once more for what is undelivered.
DumpsDone ==
    /\ pc = "dump"
    /\ undumped = {}
    /\ pc' = "deliverAll"
    /\ visit' = dumped
    /\ UNCHANGED <<setup, today, dumpVars, tmp, delivered, cur, todo, failed, deliveryOk, errs, store>>

-----------------------------------------------------------------------------
\* Storages.Delivery: an object that is not Delivered is offered to every
\* storage, the local ones last (jobsInit has sorted them so).
Delivering == pc \in {"deliver", "deliverAll"}

\* Broken: the Delivered flag is not looked at.
VisitObjectAgain(t) ==
    /\ Delivering
    /\ cur = None
    /\ t \in visit
    /\ cur' = t
    /\ todo' = Storages
    /\ failed' = {}
    /\ UNCHANGED <<setup, today, pc, dumpVars, tmp, delivered, visit, deliveryOk, errs, store>>

\* Broken: the errors of the object before are not dropped.
VisitObjectKeepingErrors(t) ==
    /\ Delivering
    /\ cur = None
    /\ t \in visit \ delivered
    /\ cur' = t
    /\ todo' = Storages
    /\ UNCHANGED <<setup, today, pc, dumpVars, tmp, delivered, visit, failed, deliveryOk, errs, store>>

\* The errors of an object are collected anew.
VisitObject(t) ==
    /\ Delivering
    /\ cur = None
    /\ t \in visit \ delivered
    /\ cur' = t
    /\ todo' = Storages
    /\ failed' = {}
    /\ UNCHANGED <<setup, today, pc, dumpVars, tmp, delivered, visit, deliveryOk, errs, store>>

\* Broken: the storages are not sorted.
NextStorageAny(s) == TRUE

\* storages.Less: a local storage comes after every other one.
NextStorage(s) == IsLocal(s) => \A r \in todo : IsLocal(r)

DeliverTo(s) ==
    /\ Delivering
    /\ cur # None
    /\ s \in todo
    /\ NextStorage(s)
    /\ todo' = todo \ {s}
    /\ \E o \in DeliverBackup(Kind[s], cur \in tmp, madeOn[cur], store[s][cur], Due(s), today) :
          /\ store' = [store EXCEPT ![s][cur] = o.held]
          /\ tmp' = IF o.src THEN tmp ELSE tmp \ {cur}
          /\ failed' = IF o.ok THEN failed ELSE failed \cup {s}
    /\ UNCHANGED <<setup, today, pc, dumpVars, delivered, visit, cur, deliveryOk, errs>>

\* Broken: "all" and "some" are mixed up in one of the three conditions, or
\* forgotten.
TakenBySomeIfAll == failed = {}
TakenByAllIfSome == failed # Storages
RefusedByEach == failed = Storages
TakenAnyway == TRUE

\* One storage that took the object is enough for the Delivered flag; the
\* metric asks for all.
TakenBySome == failed # Storages
TakenByAll == failed = {}
Refused == failed # {} \* its errors go up to Perform

EndVisit ==
    /\ cur # None
    /\ todo = {}
    /\ deliveryOk' = IF TakenByAll THEN deliveryOk \cup {cur} ELSE deliveryOk \ {cur}
    /\ delivered' = IF TakenBySome THEN delivered \cup {cur} ELSE delivered
    /\ errs' = (errs \/ Refused)
    /\ visit' = visit \ {cur}
    /\ cur' = None
    /\ UNCHANGED <<setup, today, pc, dumpVars, tmp, todo, failed, store>>

\* Broken: Delivered objects are waited for.
NothingToVisitAtAll == visit = {}

\* What is Delivered already is skipped.
NothingToVisit == visit \subseteq delivered

EndDelivery ==
    /\ Delivering
    /\ cur = None
    /\ NothingToVisit
    /\ visit' = {}
    /\ pc' = IF pc = "deliver" THEN "dump" ELSE "cleanup"
    /\ UNCHANGED <<setup, today, dumpVars, tmp, delivered, cur, todo, failed, deliveryOk, errs, store>>

-----------------------------------------------------------------------------
\* CleanupTmpData removes the archives of the dumped objects; the directory
\* goes with os.Remove, which leaves it when anything else is in it.
CleanupTmpData ==
    /\ pc = "cleanup"
    /\ tmp' = tmp \ dumped
    /\ pc' = IF job.safe THEN "rotate" ELSE "done"
    /\ UNCHANGED <<setup, today, dumpVars, deliverVars, errs, store>>

SafeRotation ==
    /\ pc = "rotate"
    /\ DeleteOldBackups
    /\ pc' = "done"
    /\ UNCHANGED <<setup, today, dumpVars, tmp, deliverVars>>

Midnight ==
    /\ pc # "done"
    /\ today < began + MaxNights
    /\ today' = today + 1
    /\ UNCHANGED <<setup, pc, dumpVars, tmp, deliverVars, errs, store>>

Step ==
    \/ NothingToDo \/ Begin \/ MakeTmpDir
    \/ \E t \in Targets :
          \/ DumpTarget(t) \/ DumpFails(t) \/ VisitObject(t)
    \/ DumpsDone
    \/ \E s \in Storages : DeliverTo(s)
    \/ EndVisit \/ EndDelivery \/ CleanupTmpData \/ SafeRotation

Next == Step \/ Midnight

Spec == Init /\ [][Next]_vars

\* Every call of a storage returns in the end: the process goes on.
FairSpec == Spec /\ WF_vars(Step)

-----------------------------------------------------------------------------
(***************************************************************************)
(* Properties.                                                             *)
(***************************************************************************)
InDoBackup == pc \in {"dump", "deliver", "deliverAll"}

\* The copies of target t that storage s was to receive are all readable.
Complete(s, t) == \A p \in Due(s) : Holds(store[s][t], p)

\* Some complete archive of t exists, on a storage or the temporary one.
Survives(t) == t \in tmp \/ \E s \in Storages : HoldsAny(store[s][t])

\* Type invariant of the job's state (main.go, backup.Perform, disc_files).
TypeOK ==
    /\ job \in [deferred : BOOLEAN, safe : BOOLEAN, rule : [Storages -> RuleChoices]]
    /\ began \in StartDays /\ today \in Nat /\ began <= today
    /\ pc \in {"start", "prepare", "dump", "deliver", "deliverAll", "cleanup", "rotate", "done"}
    /\ undumped \subseteq Targets /\ tmp \subseteq Targets
    /\ madeOn \in [Targets -> Nat]
    /\ dumped \subseteq Targets /\ delivered \subseteq dumped /\ visit \subseteq dumped
    /\ cur \in visit \cup {None}
    /\ todo \subseteq Storages /\ failed \subseteq Storages \ todo
    /\ backupOk \subseteq dumped /\ deliveryOk \subseteq delivered
    /\ errs \in BOOLEAN
    /\ store \in [Storages -> [Targets -> Held]]

\* As long as the day has not changed, a target whose delivery metric is 1
\* (SetOfsMetrics in Storages.Delivery) can be read from every storage in
\* every period directory due today, whatever failed for other targets and
\* whichever attempts were repeated.
DeliveryOkIsStored ==
    today = began => \A t \in deliveryOk, s \in Storages : Complete(s, t)

\* A job that Perform ends without an error on the day it began has every
\* target complete on every storage: no failure of a dump, a storage or a
\* rotation is swallowed on the way up.
SilentRunIsComplete ==
    pc = "done" /\ ~errs /\ NeedToMakeBackup /\ today = began
        => \A t \in Targets, s \in Storages : Complete(s, t)

\* What the order of the storages is for: when Delivery comes to a remote
\* storage the temporary archive has not been moved away by a local one.
RemoteFindsArchive ==
    cur # None /\ (\E s \in todo : ~IsLocal(s)) => cur \in tmp

\* An object that no storage has taken waits for the next Delivery with its
\* temporary archive in place.
PendingKeepsArchive ==
    InDoBackup => \A t \in dumped \ delivered : t = cur \/ t \in tmp

\* Before Perform cleans up, no step destroys the last complete archive of a
\* target: neither an upload that breaks off nor a repeated attempt.
LastCopySurvives ==
    [][InDoBackup => \A t \in dumped : Survives(t) => Survives(t)']_vars

\* A copy is not written again once its object is Delivered: later calls of
\* Delivery leave it alone, only the safe rotation may remove it.
DeliveredIsLeftAlone ==
    [][\A t \in delivered, s \in Storages :
          store'[s][t] # store[s][t] => pc = "rotate" /\ store'[s][t] \in
             {[p \in Periods |-> IF p \in gone THEN NoFile ELSE store[s][t][p]] : gone \in SUBSET Periods}]_vars

\* With deferred_copying no storage receives anything before the last target
\* has been dumped.
DeferredWaits ==
    [][job.deferred /\ undumped # {} /\ pc # "start" => UNCHANGED store]_vars

\* Perform comes to its end, whatever fails.
Terminates == <>(pc = "done")

\* The metric docs/3.8 describes as "Indicates whether the backup was
\* successfully delivered": then some storage has a copy.
DeliveryMetricTold ==
    \A t \in deliveryOk : \E s \in Storages : HoldsAny(store[s][t])

-----------------------------------------------------------------------------
(***************************************************************************)
(* The job keeps the promise of BackupStore.                               *)
(***************************************************************************)
Stage(t) ==
    CASE t \in undumped -> "waiting"
      [] t \in delivered -> "stored"
      [] t \in dumped \ delivered -> "archived"
      [] OTHER -> "missing"

Promise ==
    INSTANCE BackupStore
    WITH stage <- [t \in Targets |-> Stage(t)],
         held <- {x \in Storages \X Targets : HoldsAny(store[x[1]][x[2]])},
         complained <- errs,
         ended <- (pc = "done")

\* Every step of Perform is one of BackupStore's or none at all: an archive is
\* only called stored when a storage can give it back, copies change only while
\* their archive is on its way or when the rules are applied, and the run ends
\* without an error only when every target is stored.
KeepsPromise == Promise!Spec
=============================================================================
