--------------------------- MODULE BackupJobProofs ---------------------------
(***************************************************************************)
(* Proofs about BackupJob, for all storages, targets, rules and days.      *)
(*                                                                         *)
(* The inductive invariant is a conjunction of parts: TypeOK, Phases (what *)
(* the place in Perform and DoBackup implies), Dates (no copy of this run  *)
(* is older than the run), Stored and Collected (what the flags, metrics   *)
(* and errors imply about the copies) and, for local storages with one     *)
(* period a day, Archived (where the archive of an object is).             *)
(***************************************************************************)
EXTENDS BackupJob, DeliveryProofs

Phases ==
    /\ pc \in {"start", "prepare"} => dumped = {} /\ undumped = Targets
    /\ pc \notin {"start", "done"} => NeedToMakeBackup
    /\ pc \in {"deliverAll", "cleanup", "rotate"} => undumped = {}
    /\ pc = "deliver" => ~job.deferred
    /\ ~Delivering => cur = None
    /\ cur \notin delivered

\* A job without storages has no backup to make.
LEMMA SomeStorage == NeedToMakeBackup => Storages # {}
BY DEF NeedToMakeBackup

\* The object being delivered is a dumped target.
LEMMA CurIsTarget == TypeOK /\ cur # None => cur \in Targets /\ cur \in dumped /\ cur \in visit
BY DEF TypeOK

\* What the call in DeliverTo does, from DeliverBackupDoes.
LEMMA CallDoes ==
    ASSUME TypeOK, NEW s \in Storages, cur # None,
           NEW o \in DeliverBackup(Kind[s], cur \in tmp, madeOn[cur], store[s][cur], Due(s), today)
    PROVE  /\ o.held \in Held /\ o.src \in BOOLEAN /\ o.ok \in BOOLEAN
           /\ o.src => cur \in tmp
           /\ ~IsLocal(s) => (o.src <=> cur \in tmp)
           /\ cur \in tmp /\ ~o.src => HoldsAny(o.held)
           /\ o.ok => \A p \in Due(s) : Holds(o.held, p)
           /\ cur \in tmp /\ ~o.src /\ (\A p, q \in Due(s) : p = q) => o.ok
<1>1. /\ Kind[s] \in Kinds /\ (cur \in tmp) \in BOOLEAN /\ madeOn[cur] \in Nat
      /\ store[s][cur] \in Held /\ today \in Nat
  BY CurIsTarget, JobAssumption DEF TypeOK
<1>2. Due(s) \in SUBSET Periods
  BY DstListType DEF Due
<1> DEFINE there == cur \in tmp
<1>3. there \in BOOLEAN /\ o \in DeliverBackup(Kind[s], there, madeOn[cur], store[s][cur], Due(s), today)
  OBVIOUS
<1> HIDE DEF there
<1>4. /\ o \in Outcomes
      /\ o.src => there
      /\ Kind[s] # "local" => o.src = there
      /\ there /\ ~o.src => HoldsAny(o.held)
      /\ o.ok => \A p \in Due(s) : Holds(o.held, p)
      /\ there /\ ~o.src /\ (\A p, q \in Due(s) : p = q) => o.ok
  BY <1>1, <1>2, <1>3, DeliverBackupDoes
<1>5. o.held \in Held /\ o.src \in BOOLEAN /\ o.ok \in BOOLEAN
  BY <1>4 DEF Outcomes
<1> QED
  BY <1>4, <1>5 DEF IsLocal, there

\* A rotation leaves copies of the declared type.
LEMMA WithoutType ==
    ASSUME TypeOK, NEW gone
    PROVE  Without(gone) \in [Storages -> [Targets -> Held]]
<1>1. NoFile \in Slot
  BY FileType DEF NoFile, Contents
<1>2. \A s \in Storages, t \in Targets, p \in Periods : store[s][t][p] \in Slot
  BY DEF TypeOK, Held, Slot
<1> QED
  BY <1>1, <1>2 DEF Without, Held, Slot

-----------------------------------------------------------------------------
LEMMA TypeAndPhasesInit == Init => TypeOK /\ Phases
<1> SUFFICES ASSUME Init
             PROVE  TypeOK /\ Phases
  OBVIOUS
<1>1. NoFile \in [is : Contents, day : Nat]
  BY FileType DEF NoFile, Contents, Slot
<1>2. store \in [Storages -> [Targets -> Held]]
  BY <1>1 DEF Init, Held
<1>3. began \in Nat
  BY JobAssumption DEF Init
<1> QED
  <2>1. TypeOK
    <3>1. /\ job \in [deferred : BOOLEAN, safe : BOOLEAN, rule : [Storages -> RuleChoices]]
          /\ madeOn \in [Targets -> Nat]
          /\ today = began /\ began \in StartDays
          /\ pc = "start" /\ undumped = Targets /\ cur = None /\ errs = FALSE
      BY DEF Init
    <3>2. /\ tmp = {} /\ dumped = {} /\ delivered = {} /\ backupOk = {}
          /\ deliveryOk = {} /\ visit = {} /\ todo = {} /\ failed = {}
      BY DEF Init
    <3>3. began <= today /\ today \in Nat
      BY <1>3, <3>1
    <3>4. /\ undumped \subseteq Targets /\ tmp \subseteq Targets
          /\ dumped \subseteq Targets /\ delivered \subseteq dumped /\ visit \subseteq dumped
          /\ todo \subseteq Storages /\ failed \subseteq Storages \ todo
          /\ backupOk \subseteq dumped /\ deliveryOk \subseteq delivered
      BY <3>1, <3>2
    <3> QED
      BY <1>2, <3>1, <3>3, <3>4 DEF TypeOK
  <2>2. Phases
    BY DEF Init, Phases, Delivering
  <2> QED
    BY <2>1, <2>2

\* Every action keeps the types and the phases.
LEMMA TypeAndPhasesNext == TypeOK /\ Phases /\ [Next]_vars => TypeOK' /\ Phases'
<1> SUFFICES ASSUME TypeOK, Phases, [Next]_vars
             PROVE  TypeOK' /\ Phases'
  OBVIOUS
<1> USE DEF setup, dumpVars, deliverVars, Delivering
<1>1. CASE NothingToDo
  BY <1>1 DEF NothingToDo, TypeOK, Phases, NeedToMakeBackup
<1>2. CASE Begin
  BY <1>2, WithoutType DEF Begin, DeleteOldBackups, TypeOK, Phases, NeedToMakeBackup
<1>3. CASE MakeTmpDir
  BY <1>3 DEF MakeTmpDir, TypeOK, Phases, NeedToMakeBackup
<1>4. ASSUME NEW t \in Targets, DumpTarget(t)
      PROVE  TypeOK' /\ Phases'
  BY <1>4 DEF DumpTarget, DeliverAfterEach, TypeOK, Phases, NeedToMakeBackup
<1>5. ASSUME NEW t \in Targets, DumpFails(t)
      PROVE  TypeOK' /\ Phases'
  BY <1>5 DEF DumpFails, TypeOK, Phases, NeedToMakeBackup
<1>6. ASSUME NEW t \in Targets, VisitObject(t)
      PROVE  TypeOK' /\ Phases'
  BY <1>6 DEF VisitObject, TypeOK, Phases, NeedToMakeBackup
<1>7. CASE DumpsDone
  BY <1>7 DEF DumpsDone, TypeOK, Phases, NeedToMakeBackup
<1>8. ASSUME NEW s \in Storages, DeliverTo(s)
      PROVE  TypeOK' /\ Phases'
  BY <1>8, CallDoes, CurIsTarget DEF DeliverTo, TypeOK, Phases, NeedToMakeBackup
<1>9. CASE EndVisit
  <2>1. cur \in Targets /\ cur \in dumped /\ cur \in visit
    BY <1>9, CurIsTarget DEF EndVisit
  <2>2. Storages # {}
    BY <1>9, SomeStorage DEF EndVisit, Phases
  <2>3. TypeOK'
    BY <1>9, <2>1, <2>2 DEF EndVisit, TakenByAll, TakenBySome, TypeOK
  <2>4. Phases'
    BY <1>9, <2>1, JobAssumption DEF EndVisit, TypeOK, Phases, NeedToMakeBackup, TakenBySome
  <2> QED
    BY <2>3, <2>4
<1>10. CASE EndDelivery
  BY <1>10 DEF EndDelivery, TypeOK, Phases, NeedToMakeBackup
<1>11. CASE CleanupTmpData
  BY <1>11 DEF CleanupTmpData, TypeOK, Phases, NeedToMakeBackup
<1>12. CASE SafeRotation
  BY <1>12, WithoutType DEF SafeRotation, DeleteOldBackups, TypeOK, Phases, NeedToMakeBackup
<1>13. CASE Midnight
  BY <1>13, JobAssumption DEF Midnight, TypeOK, Phases, NeedToMakeBackup
<1>14. CASE UNCHANGED vars
  BY <1>14 DEF vars, TypeOK, Phases, NeedToMakeBackup
<1> QED
  BY <1>1, <1>2, <1>3, <1>4, <1>5, <1>6, <1>7, <1>8, <1>9, <1>10, <1>11, <1>12, <1>13, <1>14
     DEF Next, Step

\* The state of the job has the types of its declarations, in particular the
\* flags and metrics are only ever set for targets that have been dumped.
THEOREM TypeCorrect == Spec => []TypeOK
<1>1. Spec => [](TypeOK /\ Phases)
  BY TypeAndPhasesInit, TypeAndPhasesNext, PTL DEF Spec
<1> QED
  BY <1>1, PTL

-----------------------------------------------------------------------------
(***************************************************************************)
(* Properties of single steps.                                             *)
(***************************************************************************)

\* A copy is not written again once its object is Delivered: Delivery skips
\* it, and no later attempt for another object touches it.
THEOREM DeliveredStaysAlone == Spec => DeliveredIsLeftAlone
<1> DEFINE Left(s, t) == store'[s][t] # store[s][t] => pc = "rotate" /\ store'[s][t] \in
               {[p \in Periods |-> IF p \in gone THEN NoFile ELSE store[s][t][p]] : gone \in SUBSET Periods}
           Goal == \A t \in delivered, s \in Storages : Left(s, t)
<1>1. TypeOK /\ Phases /\ [Next]_vars => [Goal]_vars
  <2> SUFFICES ASSUME TypeOK, Phases, Next
               PROVE  Goal
    OBVIOUS
  <2> SUFFICES ASSUME NEW t \in delivered, NEW s \in Storages
               PROVE  Left(s, t)
    OBVIOUS
  <2>1. t \in Targets /\ t \in dumped /\ t # cur
    BY DEF TypeOK, Phases
  <2>2. CASE Begin
    BY <2>1, <2>2 DEF Begin, Phases
  <2>3. ASSUME NEW r \in Storages, DeliverTo(r)
        PROVE  Left(s, t)
    BY <2>1, <2>3 DEF DeliverTo, TypeOK
  <2>4. CASE SafeRotation
    <3>1. PICK gone \in SUBSET Expired : store' = Without(gone)
      BY <2>4 DEF SafeRotation, DeleteOldBackups
    <3>2. store'[s][t] = [p \in Periods |-> IF p \in {q \in Periods : <<s, t, q>> \in gone}
                                             THEN NoFile ELSE store[s][t][p]]
      BY <2>1, <3>1 DEF Without
    <3> QED
      BY <2>4, <3>2 DEF SafeRotation
  <2>5. CASE store' = store
    BY <2>5
  <2> QED
    BY <2>2, <2>3, <2>4, <2>5 DEF Next, Step, NothingToDo, MakeTmpDir, DumpTarget, DumpFails,
       VisitObject, DumpsDone, EndVisit, EndDelivery, CleanupTmpData, Midnight
<1>2. Spec => [](TypeOK /\ Phases)
  BY TypeAndPhasesInit, TypeAndPhasesNext, PTL DEF Spec
<1> QED
  BY <1>1, <1>2, PTL DEF Spec, DeliveredIsLeftAlone

\* With deferred_copying no storage changes between the first rotation and
\* the end of the last dump.
THEOREM DeferredDeliveryWaits == Spec => DeferredWaits
<1>1. TypeOK /\ Phases /\ [Next]_vars =>
        [job.deferred /\ undumped # {} /\ pc # "start" => UNCHANGED store]_vars
  <2> SUFFICES ASSUME TypeOK, Phases, Next, job.deferred, undumped # {}, pc # "start"
               PROVE  store' = store
    OBVIOUS
  <2>1. pc \notin {"start", "deliver", "deliverAll", "rotate"}
    BY DEF Phases
  <2> QED
    BY <2>1 DEF Next, Step, NothingToDo, Begin, MakeTmpDir, DumpTarget, DumpFails, VisitObject,
       DumpsDone, DeliverTo, Delivering, EndVisit, EndDelivery, CleanupTmpData, SafeRotation, Midnight
<1>2. Spec => [](TypeOK /\ Phases)
  BY TypeAndPhasesInit, TypeAndPhasesNext, PTL DEF Spec
<1> QED
  BY <1>1, <1>2, PTL DEF Spec, DeferredWaits

-----------------------------------------------------------------------------
(***************************************************************************)
(* Copies, metrics and errors on the day the job began.                    *)
(***************************************************************************)

\* No archive and no copy of this run is older than the run.
Dates ==
    /\ \A t \in dumped : madeOn[t] >= began
    /\ \A s \in Storages, t \in Targets : Recent(store[s][t], began)

\* Who has taken an object has it complete, and so has everyone when its
\* metric is 1.
Stored ==
    today = began =>
        /\ \A t \in deliveryOk, s \in Storages : Complete(s, t)
        /\ cur # None => \A s \in Storages \ (todo \cup failed) : Complete(s, cur)

\* Without an error nothing has been left out.
Collected ==
    ~errs =>
        /\ Targets \subseteq undumped \cup dumped
        /\ delivered \subseteq deliveryOk
        /\ pc = "deliverAll" => dumped \subseteq visit \cup delivered
        /\ pc \in {"cleanup", "rotate"} => Targets \subseteq deliveryOk
        /\ pc = "done" /\ NeedToMakeBackup => Targets \subseteq deliveryOk

RunInv == TypeOK /\ Phases /\ Dates /\ Stored /\ Collected

\* began is a day.
LEMMA BeganIsDay == TypeOK => began \in Nat \ {0}
BY JobAssumption DEF TypeOK

\* On the day of the run a rotation deletes none of its copies.
LEMMA NothingExpires ==
    ASSUME TypeOK, Dates, today = began
    PROVE  Expired = {}
<1>1. ASSUME NEW s \in Storages, NEW t \in Targets, NEW p \in Periods, IsExpired(s, t, p)
      PROVE  FALSE
  <2> DEFINE copy == store[s][t][p]
  <2>1. copy.day \in Nat /\ copy.is # "none" /\ Outdated(job.rule[s], p, today, copy.day)
    BY <1>1 DEF IsExpired, TypeOK, Held
  <2>2. copy.day >= today
    BY <2>1 DEF Dates, Recent
  <2>3. job.rule[s] \in Rules
    BY JobAssumption DEF TypeOK
  <2>4. today \in Nat \ {0}
    BY BeganIsDay
  <2> HIDE DEF copy
  <2> QED
    BY <2>1, <2>2, <2>3, <2>4, FreshIsKept
<1> QED
  BY <1>1 DEF Expired

\* A rotation that deletes nothing changes nothing.
LEMMA WithoutNothing ==
    ASSUME TypeOK
    PROVE  Without({}) = store
<1>1. \A s \in Storages, t \in Targets : store[s][t] = [p \in Periods |-> store[s][t][p]]
  BY DEF TypeOK, Held
<1>2. \A s \in Storages : store[s] = [t \in Targets |-> store[s][t]]
  BY DEF TypeOK
<1>3. store = [s \in Storages |-> store[s]]
  BY DEF TypeOK
<1> QED
  BY <1>1, <1>2, <1>3 DEF Without

\* A rotation leaves the copies of this run recent.
LEMMA WithoutIsRecent ==
    ASSUME TypeOK, Dates, NEW gone, NEW s \in Storages, NEW t \in Targets
    PROVE  Recent(Without(gone)[s][t], began)
<1>1. NoFile.is = "none"
  BY FileType DEF NoFile, Contents
<1> QED
  BY <1>1 DEF Without, Dates, Recent

\* So is what a call of DeliverBackup leaves.
LEMMA CallIsRecent ==
    ASSUME TypeOK, Dates, NEW s \in Storages, cur # None,
           NEW o \in DeliverBackup(Kind[s], cur \in tmp, madeOn[cur], store[s][cur], Due(s), today)
    PROVE  Recent(o.held, began)
<1>1. /\ Kind[s] \in Kinds /\ madeOn[cur] \in Nat /\ store[s][cur] \in Held
      /\ today \in Nat /\ began \in Nat /\ today >= began
  BY CurIsTarget, BeganIsDay, JobAssumption DEF TypeOK
<1>2. Due(s) \in SUBSET Periods
  BY DstListType DEF Due
<1>3. Recent(store[s][cur], began) /\ madeOn[cur] >= began
  BY CurIsTarget DEF Dates
<1> DEFINE there == cur \in tmp
<1>4. there \in BOOLEAN /\ o \in DeliverBackup(Kind[s], there, madeOn[cur], store[s][cur], Due(s), today)
  OBVIOUS
<1> HIDE DEF there
<1> QED
  BY <1>1, <1>2, <1>3, <1>4, DeliverBackupIsRecent

LEMMA RunInit == Init => Dates /\ Stored /\ Collected
<1>1. NoFile.is = "none"
  BY FileType DEF NoFile, Contents
<1> QED
  BY <1>1 DEF Init, Dates, Recent, Stored, Collected

\* Every action keeps the dates.
LEMMA DatesNext == TypeOK /\ Dates /\ [Next]_vars => Dates'
<1> SUFFICES ASSUME TypeOK, Dates, [Next]_vars
             PROVE  Dates'
  OBVIOUS
<1> USE DEF setup, dumpVars, deliverVars
<1>1. CASE Begin
  BY <1>1, WithoutIsRecent DEF Begin, DeleteOldBackups, Dates
<1>2. ASSUME NEW t \in Targets, DumpTarget(t)
      PROVE  Dates'
  BY <1>2, BeganIsDay DEF DumpTarget, Dates, TypeOK
<1>3. ASSUME NEW s \in Storages, DeliverTo(s)
      PROVE  Dates'
  <2>1. PICK o \in DeliverBackup(Kind[s], cur \in tmp, madeOn[cur], store[s][cur], Due(s), today) :
           store' = [store EXCEPT ![s][cur] = o.held]
    BY <1>3 DEF DeliverTo
  <2>2. Recent(o.held, began) /\ cur \in Targets
    BY <1>3, CallIsRecent, CurIsTarget DEF DeliverTo
  <2>3. \A r \in Storages, t \in Targets : Recent(store'[r][t], began)
    BY <2>1, <2>2 DEF Dates, TypeOK
  <2> QED
    BY <1>3, <2>3 DEF DeliverTo, Dates
<1>4. CASE SafeRotation
  BY <1>4, WithoutIsRecent DEF SafeRotation, DeleteOldBackups, Dates
<1>5. CASE UNCHANGED <<dumped, madeOn, began, store>>
  BY <1>5 DEF Dates
<1> QED
  BY <1>1, <1>2, <1>3, <1>4, <1>5 DEF Next, Step, vars, NothingToDo, MakeTmpDir, DumpFails,
     VisitObject, DumpsDone, EndVisit, EndDelivery, CleanupTmpData, Midnight

\* Every action keeps Stored: a call changes the copies of the object that is
\* being delivered only, and a new object starts without any storage.
LEMMA StoredNext == TypeOK /\ Phases /\ Dates /\ Stored /\ [Next]_vars => Stored'
<1> SUFFICES ASSUME TypeOK, Phases, Dates, Stored, [Next]_vars, today' = began'
             PROVE  /\ \A t \in deliveryOk', s \in Storages : Complete(s, t)'
                    /\ cur' # None => \A s \in Storages \ (todo' \cup failed') : Complete(s, cur)'
  BY DEF Stored
<1> USE DEF setup, dumpVars, deliverVars
<1>1. today = began /\ UNCHANGED <<setup, today>>
  <2>1. ~Midnight
    BY BeganIsDay DEF Midnight, TypeOK
  <2>2. UNCHANGED <<setup, today>>
    BY <2>1 DEF Next, Step, vars, NothingToDo, Begin, MakeTmpDir, DumpTarget, DumpFails, VisitObject,
       DumpsDone, DeliverTo, EndVisit, EndDelivery, CleanupTmpData, SafeRotation
  <2> QED
    BY <2>2
<1>2. CASE UNCHANGED <<store, deliveryOk, cur, todo, failed>>
  BY <1>1, <1>2 DEF Stored, Complete, Due
<1>3. ASSUME DeleteOldBackups
      PROVE  store' = store
  <2>1. PICK gone \in SUBSET Expired : store' = Without(gone)
    BY <1>3 DEF DeleteOldBackups
  <2>2. gone = {}
    BY <1>1, <2>1, NothingExpires
  <2> QED
    BY <2>1, <2>2, WithoutNothing
<1>4. CASE Begin
  BY <1>2, <1>3, <1>4 DEF Begin
<1>5. CASE SafeRotation
  BY <1>2, <1>3, <1>5 DEF SafeRotation
<1>6. ASSUME NEW t \in Targets, VisitObject(t)
      PROVE  /\ \A u \in deliveryOk', s \in Storages : Complete(s, u)'
             /\ cur' # None => \A s \in Storages \ (todo' \cup failed') : Complete(s, cur)'
  BY <1>1, <1>6 DEF VisitObject, Stored, Complete, Due
<1>7. ASSUME NEW r \in Storages, DeliverTo(r)
      PROVE  /\ \A u \in deliveryOk', s \in Storages : Complete(s, u)'
             /\ cur' # None => \A s \in Storages \ (todo' \cup failed') : Complete(s, cur)'
  <2>1. PICK o \in DeliverBackup(Kind[r], cur \in tmp, madeOn[cur], store[r][cur], Due(r), today) :
           /\ store' = [store EXCEPT ![r][cur] = o.held]
           /\ failed' = IF o.ok THEN failed ELSE failed \cup {r}
    BY <1>7 DEF DeliverTo
  <2>2. o.ok => \A p \in Due(r) : Holds(o.held, p)
    BY <1>7, CallDoes DEF DeliverTo
  <2>3. /\ cur # None /\ cur \in Targets /\ cur \notin deliveryOk
        /\ cur' = cur /\ deliveryOk' = deliveryOk /\ todo' = todo \ {r}
    BY <1>7, CurIsTarget DEF DeliverTo, TypeOK, Phases
  <2>4. \A s \in Storages, u \in Targets : s # r \/ u # cur => store'[s][u] = store[s][u]
    BY <2>1 DEF TypeOK
  <2>5. store'[r][cur] = o.held
    BY <2>1, <2>3 DEF TypeOK
  <2>6. \A s \in Storages : Due(s)' = Due(s)
    BY <1>1 DEF Due
  <2>7. ASSUME NEW u \in deliveryOk, NEW s \in Storages
        PROVE  Complete(s, u)'
    <3>1. u \in Targets /\ u # cur
      BY <2>3 DEF TypeOK
    <3> QED
      BY <1>1, <2>4, <2>6, <3>1 DEF Stored, Complete
  <2>8. ASSUME NEW s \in Storages \ (todo' \cup failed')
        PROVE  Complete(s, cur)'
    <3>1. CASE s = r
      BY <2>1, <2>2, <2>3, <2>5, <2>6, <2>8, <3>1 DEF Complete
    <3>2. CASE s # r
      BY <1>1, <2>1, <2>3, <2>4, <2>6, <2>8, <3>2 DEF Stored, Complete
    <3> QED
      BY <3>1, <3>2
  <2> QED
    BY <2>3, <2>7, <2>8
<1>8. CASE EndVisit
  BY <1>1, <1>8 DEF EndVisit, TakenByAll, Stored, Complete, Due
<1> QED
  BY <1>2, <1>4, <1>5, <1>6, <1>7, <1>8 DEF Next, Step, vars, NothingToDo, MakeTmpDir, DumpTarget,
     DumpFails, DumpsDone, EndDelivery, CleanupTmpData, Midnight

\* Every action keeps Collected.
LEMMA CollectedNext == TypeOK /\ Phases /\ Collected /\ [Next]_vars => Collected'
<1> SUFFICES ASSUME TypeOK, Phases, Collected, [Next]_vars, ~errs'
             PROVE  Collected'
  BY DEF Collected
<1> USE DEF setup, dumpVars, deliverVars, NeedToMakeBackup
<1>1. CASE NothingToDo
  BY <1>1 DEF NothingToDo, Collected
<1>2. CASE Begin
  BY <1>2 DEF Begin, DeleteOldBackups, Collected
<1>3. CASE MakeTmpDir
  BY <1>3 DEF MakeTmpDir, Collected
<1>4. ASSUME NEW t \in Targets, DumpTarget(t)
      PROVE  Collected'
  BY <1>4 DEF DumpTarget, Collected
<1>5. ASSUME NEW t \in Targets, DumpFails(t)
      PROVE  Collected'
  BY <1>5 DEF DumpFails
<1>6. ASSUME NEW t \in Targets, VisitObject(t)
      PROVE  Collected'
  BY <1>6 DEF VisitObject, Collected
<1>7. CASE DumpsDone
  BY <1>7 DEF DumpsDone, Collected
<1>8. ASSUME NEW s \in Storages, DeliverTo(s)
      PROVE  Collected'
  BY <1>8 DEF DeliverTo, Collected
<1>9. CASE EndVisit
  <2>1. failed = {} /\ ~errs /\ Storages # {}
    <3>1. pc \notin {"start", "done"}
      BY <1>9 DEF EndVisit, Phases, Delivering
    <3>2. Storages # {}
      BY <3>1, SomeStorage DEF Phases
    <3> QED
      BY <1>9, <3>2 DEF EndVisit, Refused, TypeOK
  <2>2. deliveryOk' = deliveryOk \cup {cur} /\ delivered' = delivered \cup {cur} /\ Delivering
    BY <1>9, <2>1 DEF EndVisit, TakenByAll, TakenBySome, Phases
  <2> QED
    BY <1>9, <2>1, <2>2 DEF EndVisit, Collected
<1>10. CASE EndDelivery
  BY <1>10 DEF EndDelivery, NothingToVisit, Delivering, Collected, Phases
<1>11. CASE CleanupTmpData
  BY <1>11 DEF CleanupTmpData, Collected
<1>12. CASE SafeRotation
  BY <1>12 DEF SafeRotation, DeleteOldBackups, Collected
<1>13. CASE Midnight
  BY <1>13 DEF Midnight, Collected
<1>14. CASE UNCHANGED vars
  BY <1>14 DEF vars, Collected
<1> QED
  BY <1>1, <1>2, <1>3, <1>4, <1>5, <1>6, <1>7, <1>8, <1>9, <1>10, <1>11, <1>12, <1>13, <1>14
     DEF Next, Step

LEMMA RunInvariant == Spec => []RunInv
<1>1. Init => RunInv
  BY TypeAndPhasesInit, RunInit DEF RunInv
<1>2. RunInv /\ [Next]_vars => RunInv'
  BY TypeAndPhasesNext, DatesNext, StoredNext, CollectedNext DEF RunInv
<1> QED
  BY <1>1, <1>2, PTL DEF Spec

\* A delivery metric of 1 tells the truth on the day of the run: the target
\* can be read from every storage in every directory due.
THEOREM DeliveryMetricIsStored == Spec => []DeliveryOkIsStored
<1>1. RunInv => DeliveryOkIsStored
  BY DEF RunInv, Stored, DeliveryOkIsStored
<1> QED
  BY <1>1, RunInvariant, PTL

\* A job that ends without an error on its day has stored everything.
THEOREM SilenceIsSuccess == Spec => []SilentRunIsComplete
<1>1. RunInv => SilentRunIsComplete
  BY DEF RunInv, Stored, Collected, SilentRunIsComplete
<1> QED
  BY <1>1, RunInvariant, PTL

-----------------------------------------------------------------------------
(***************************************************************************)
(* Where the archive of an object is.  The results hold for jobs none of   *)
(* whose local storages ever has two due directories on one day; with two, *)
(* a symlink may fail after the archive has been moved, and the object is  *)
(* offered again without it.                                               *)
(***************************************************************************)
OnePeriodLocally ==
    \A s \in Storages : IsLocal(s) =>
        \A rule \in RuleChoices, day \in Nat : \A p, q \in DstList(rule, day) : p = q

Archived ==
    /\ InDoBackup => \A t \in dumped \ delivered : t = cur \/ t \in tmp
    /\ cur # None => cur \in tmp \/ \E s \in Storages \ (todo \cup failed) : HoldsAny(store[s][cur])
    /\ cur # None /\ (\E s \in todo : ~IsLocal(s)) => cur \in tmp

\* A call that takes the temporary archive away has succeeded, and leaves a
\* complete copy.
LEMMA MovedIsTaken ==
    ASSUME OnePeriodLocally, TypeOK, NEW s \in Storages, cur # None,
           NEW o \in DeliverBackup(Kind[s], cur \in tmp, madeOn[cur], store[s][cur], Due(s), today),
           cur \in tmp, ~o.src
    PROVE  o.ok /\ IsLocal(s) /\ HoldsAny(o.held)
<1>1. IsLocal(s) /\ HoldsAny(o.held)
  BY CallDoes
<1>2. job.rule[s] \in RuleChoices /\ today \in Nat
  BY DEF TypeOK
<1>3. \A p, q \in Due(s) : p = q
  BY <1>1, <1>2 DEF OnePeriodLocally, Due
<1> QED
  BY <1>1, <1>3, CallDoes

LEMMA ArchivedNext ==
    ASSUME OnePeriodLocally
    PROVE  TypeOK /\ Phases /\ Archived /\ [Next]_vars => Archived'
<1> SUFFICES ASSUME TypeOK, Phases, Archived, [Next]_vars
             PROVE  Archived'
  OBVIOUS
<1> USE DEF setup, dumpVars, deliverVars, InDoBackup
<1>1. CASE Begin \/ NothingToDo \/ CleanupTmpData \/ SafeRotation
  BY <1>1 DEF Begin, NothingToDo, CleanupTmpData, SafeRotation, Phases, Delivering, Archived
<1>2. CASE MakeTmpDir
  BY <1>2 DEF MakeTmpDir, Phases, Archived
<1>3. ASSUME NEW t \in Targets, DumpTarget(t)
      PROVE  Archived'
  BY <1>3 DEF DumpTarget, Phases, Delivering, Archived
<1>4. ASSUME NEW t \in Targets, DumpFails(t)
      PROVE  Archived'
  BY <1>4 DEF DumpFails, Phases, Delivering, Archived
<1>5. ASSUME NEW t \in Targets, VisitObject(t)
      PROVE  Archived'
  BY <1>5, JobAssumption DEF VisitObject, Delivering, Archived, TypeOK
<1>6. CASE DumpsDone
  BY <1>6 DEF DumpsDone, Phases, Delivering, Archived
<1>7. ASSUME NEW r \in Storages, DeliverTo(r)
      PROVE  Archived'
  <2>1. PICK o \in DeliverBackup(Kind[r], cur \in tmp, madeOn[cur], store[r][cur], Due(r), today) :
           /\ store' = [store EXCEPT ![r][cur] = o.held]
           /\ tmp' = IF o.src THEN tmp ELSE tmp \ {cur}
           /\ failed' = IF o.ok THEN failed ELSE failed \cup {r}
    BY <1>7 DEF DeliverTo
  <2>2. /\ cur # None /\ cur \in Targets /\ r \in todo /\ r \notin failed
        /\ UNCHANGED <<cur, pc, dumped, delivered>> /\ todo' = todo \ {r}
    BY <1>7, CurIsTarget DEF DeliverTo, TypeOK
  <2>3. InDoBackup' => \A t \in dumped' \ delivered' : t = cur' \/ t \in tmp'
    BY <2>1, <2>2 DEF Archived
  <2>4. cur \in tmp' \/ \E s \in Storages \ (todo' \cup failed') : HoldsAny(store'[s][cur])
    <3>1. CASE cur \in tmp /\ o.src
      BY <2>1, <3>1
    <3>2. CASE cur \in tmp /\ ~o.src
      <4>1. o.ok /\ HoldsAny(o.held)
        BY <2>1, <2>2, <3>2, MovedIsTaken
      <4>2. store'[r][cur] = o.held
        BY <2>1, <2>2 DEF TypeOK
      <4> QED
        BY <2>1, <2>2, <4>1, <4>2
    <3>3. CASE cur \notin tmp
      <4>1. PICK s \in Storages \ (todo \cup failed) : HoldsAny(store[s][cur])
        BY <2>2, <3>3 DEF Archived
      <4>2. s # r /\ store'[s][cur] = store[s][cur]
        BY <2>1, <2>2, <4>1 DEF TypeOK
      <4> QED
        BY <2>1, <2>2, <4>1, <4>2
    <3> QED
      BY <3>1, <3>2, <3>3
  <2>5. ASSUME NEW s \in todo', ~IsLocal(s)
        PROVE  cur \in tmp'
    <3>1. cur \in tmp /\ ~IsLocal(r)
      BY <1>7, <2>2, <2>5 DEF DeliverTo, NextStorage, Archived
    <3>2. o.src
      BY <2>1, <2>2, <3>1, CallDoes
    <3> QED
      BY <2>1, <3>1, <3>2
  <2> QED
    BY <2>2, <2>3, <2>4, <2>5 DEF Archived, IsLocal
<1>8. CASE EndVisit
  BY <1>8 DEF EndVisit, TakenBySome, Archived
<1>9. CASE EndDelivery
  BY <1>9 DEF EndDelivery, Delivering, Archived
<1>10. CASE Midnight \/ UNCHANGED vars
  BY <1>10 DEF Midnight, vars, Archived
<1> QED
  BY <1>1, <1>2, <1>3, <1>4, <1>5, <1>6, <1>7, <1>8, <1>9, <1>10 DEF Next, Step

LEMMA ArchivedInvariant ==
    ASSUME OnePeriodLocally
    PROVE  Spec => [](TypeOK /\ Phases /\ Archived)
<1>1. Init => TypeOK /\ Phases /\ Archived
  <2>1. Init => Archived
    BY DEF Init, Archived, InDoBackup
  <2> QED
    BY <2>1, TypeAndPhasesInit
<1>2. TypeOK /\ Phases /\ Archived /\ [Next]_vars => (TypeOK /\ Phases /\ Archived)'
  BY TypeAndPhasesNext, ArchivedNext
<1> QED
  BY <1>1, <1>2, PTL DEF Spec

\* What the order of the storages is for: no remote storage is called after a
\* local one has moved the temporary archive away.
THEOREM RemoteAlwaysFindsArchive ==
    ASSUME OnePeriodLocally
    PROVE  Spec => []RemoteFindsArchive
<1>1. Archived => RemoteFindsArchive
  BY DEF Archived, RemoteFindsArchive
<1> QED
  BY <1>1, ArchivedInvariant, PTL

\* An object that no storage has taken still has its temporary archive, so
\* the next Delivery can offer it again.
THEOREM PendingArchiveIsKept ==
    ASSUME OnePeriodLocally
    PROVE  Spec => []PendingKeepsArchive
<1>1. Archived => PendingKeepsArchive
  BY DEF Archived, PendingKeepsArchive
<1> QED
  BY <1>1, ArchivedInvariant, PTL

\* No step of DoBackup destroys the last complete archive of a target.
THEOREM LastCopyAlwaysSurvives ==
    ASSUME OnePeriodLocally
    PROVE  Spec => LastCopySurvives
<1> DEFINE Kept == InDoBackup => \A t \in dumped : Survives(t) => Survives(t)'
<1>1. TypeOK /\ Phases /\ Archived /\ [Next]_vars => [Kept]_vars
  <2> SUFFICES ASSUME TypeOK, Phases, Archived, Next, InDoBackup,
                      NEW t \in dumped, Survives(t)
               PROVE  Survives(t)'
    OBVIOUS
  <2>1. t \in Targets
    BY DEF TypeOK
  <2>2. ASSUME NEW r \in Storages, DeliverTo(r)
        PROVE  Survives(t)'
    <3>1. PICK o \in DeliverBackup(Kind[r], cur \in tmp, madeOn[cur], store[r][cur], Due(r), today) :
             /\ store' = [store EXCEPT ![r][cur] = o.held]
             /\ tmp' = IF o.src THEN tmp ELSE tmp \ {cur}
             /\ failed' = IF o.ok THEN failed ELSE failed \cup {r}
      BY <2>2 DEF DeliverTo
    <3>2. cur # None /\ cur \in Targets /\ r \in todo
      BY <2>2, CurIsTarget DEF DeliverTo
    <3>3. CASE t # cur
      <4>1. \A s \in Storages : store'[s][t] = store[s][t]
        BY <3>1, <3>3 DEF TypeOK
      <4> QED
        BY <3>1, <3>3, <4>1 DEF Survives
    <3>4. CASE t = cur /\ cur \in tmp /\ o.src
      BY <3>1, <3>4 DEF Survives
    <3>5. CASE t = cur /\ cur \in tmp /\ ~o.src
      <4>1. HoldsAny(o.held) /\ store'[r][cur] = o.held
        BY <3>1, <3>2, <3>5, MovedIsTaken DEF TypeOK
      <4> QED
        BY <3>5, <4>1 DEF Survives
    <3>6. CASE t = cur /\ cur \notin tmp
      <4>1. PICK s \in Storages \ (todo \cup failed) : HoldsAny(store[s][cur])
        BY <3>2, <3>6 DEF Archived
      <4>2. store'[s][cur] = store[s][cur]
        BY <3>1, <3>2, <4>1 DEF TypeOK
      <4> QED
        BY <3>6, <4>1, <4>2 DEF Survives
    <3> QED
      BY <3>3, <3>4, <3>5, <3>6
  <2>3. CASE tmp \subseteq tmp' /\ store' = store
    BY <2>3 DEF Survives
  <2> QED
    BY <2>2, <2>3 DEF Next, Step, InDoBackup, NothingToDo, Begin, MakeTmpDir, DumpTarget, DumpFails,
       VisitObject, DumpsDone, EndVisit, EndDelivery, CleanupTmpData, SafeRotation, Midnight
<1> QED
  BY <1>1, ArchivedInvariant, PTL DEF Spec, LastCopySurvives

-----------------------------------------------------------------------------
(***************************************************************************)
(* A job keeps the promise of BackupStore: each of its steps is one of the *)
(* abstract steps or none at all.  The result holds for jobs whose rules   *)
(* have a directory due on every day; with other rules a call after        *)
(* midnight succeeds without storing anything.                             *)
(***************************************************************************)
SomethingDueDaily == \A rule \in RuleChoices, day \in Nat : DstList(rule, day) # {}

\* The mapping of the variables of BackupStore.
stages == [t \in Targets |-> Stage(t)]
holdings == {x \in Storages \X Targets : HoldsAny(store[x[1]][x[2]])}

\* A target is dumped or still to be, and who has taken an object can give it back.
Apart == undumped \cap dumped = {}
Taken == cur # None => \A s \in Storages \ (todo \cup failed) : HoldsAny(store[s][cur])

PromiseInv == TypeOK /\ Phases /\ Collected /\ Apart /\ Taken

LEMMA ApartNext == TypeOK /\ Apart /\ [Next]_vars => Apart'
BY DEF Next, Step, TypeOK, Apart, vars, dumpVars, deliverVars, setup, NothingToDo, Begin, MakeTmpDir, DumpTarget,
   DumpFails, VisitObject, DumpsDone, DeliverTo, EndVisit, EndDelivery, CleanupTmpData, SafeRotation, Midnight

LEMMA TakenNext ==
    ASSUME SomethingDueDaily
    PROVE  TypeOK /\ Phases /\ Taken /\ [Next]_vars => Taken'
<1> SUFFICES ASSUME TypeOK, Phases, Taken, [Next]_vars, cur' # None,
                    NEW s \in Storages, s \notin todo' \cup failed'
             PROVE  HoldsAny(store'[s][cur'])
  BY DEF Taken
<1>1. ASSUME NEW r \in Storages, DeliverTo(r)
      PROVE  HoldsAny(store'[s][cur'])
  <2>1. PICK o \in DeliverBackup(Kind[r], cur \in tmp, madeOn[cur], store[r][cur], Due(r), today) :
           /\ store' = [store EXCEPT ![r][cur] = o.held]
           /\ failed' = IF o.ok THEN failed ELSE failed \cup {r}
    BY <1>1 DEF DeliverTo
  <2>2. cur # None /\ cur' = cur /\ todo' = todo \ {r} /\ cur \in Targets
    BY <1>1, CurIsTarget DEF DeliverTo
  <2>3. CASE s = r
    <3>1. store'[r][cur] = o.held
      BY <2>1, <2>2 DEF TypeOK
    <3>2. o.ok
      BY <2>1, <2>3
    <3>3. PICK p \in Due(r) : TRUE
      BY DEF Due, SomethingDueDaily, TypeOK
    <3>4. p \in Periods /\ Holds(o.held, p)
      BY <2>1, <2>2, <3>2, <3>3, CallDoes, DstListType DEF Due
    <3> QED
      BY <2>2, <2>3, <3>1, <3>4 DEF HoldsAny
  <2>4. CASE s # r
    BY <2>1, <2>2, <2>4 DEF Taken, TypeOK
  <2> QED
    BY <2>3, <2>4
<1>2. ASSUME NEW t \in Targets, VisitObject(t)
      PROVE  HoldsAny(store'[s][cur'])
  BY <1>2 DEF VisitObject
<1>3. CASE EndVisit
  BY <1>3 DEF EndVisit
<1>4. CASE Begin \/ SafeRotation
  BY <1>4 DEF Begin, SafeRotation, Phases, Delivering, deliverVars
<1>5. CASE UNCHANGED <<store, cur, todo, failed>>
  BY <1>5 DEF Taken
<1> QED
  BY <1>1, <1>2, <1>3, <1>4, <1>5 DEF Next, Step, vars, deliverVars, NothingToDo, MakeTmpDir, DumpTarget,
     DumpFails, DumpsDone, EndDelivery, CleanupTmpData, Midnight

LEMMA PromiseInvariant ==
    ASSUME SomethingDueDaily
    PROVE  Spec => []PromiseInv
<1>1. Init => PromiseInv
  <2>1. Init => Apart /\ Taken
    BY DEF Init, Apart, Taken
  <2> QED
    BY <2>1, TypeAndPhasesInit, RunInit DEF PromiseInv
<1>2. PromiseInv /\ [Next]_vars => PromiseInv'
  BY TypeAndPhasesNext, CollectedNext, ApartNext, TakenNext DEF PromiseInv
<1> QED
  BY <1>1, <1>2, PTL DEF Spec

\* The stages read off the sets, and how they move with them.
LEMMA StageIs ==
    ASSUME TypeOK, Apart, NEW t \in Targets
    PROVE  /\ t \in undumped => Stage(t) = "waiting"
           /\ t \in delivered => Stage(t) = "stored"
           /\ t \in dumped \ delivered => Stage(t) = "archived"
           /\ t \notin undumped \cup dumped => Stage(t) = "missing"
BY DEF Stage, TypeOK, Apart

LEMMA StageBecomes ==
    ASSUME TypeOK', Apart', NEW t \in Targets
    PROVE  /\ t \in undumped' => Stage(t)' = "waiting"
           /\ t \in delivered' => Stage(t)' = "stored"
           /\ t \in dumped' \ delivered' => Stage(t)' = "archived"
           /\ t \notin undumped' \cup dumped' => Stage(t)' = "missing"
BY DEF Stage, TypeOK, Apart

\* A rotation gives no storage what it did not have.
LEMMA WithoutHoldsLess ==
    ASSUME TypeOK, NEW gone, store' = Without(gone)
    PROVE  holdings' \in SUBSET holdings
<1>1. NoFile.is = "none"
  BY FileType DEF NoFile, Contents
<1>2. ASSUME NEW s \in Storages, NEW t \in Targets, HoldsAny(store'[s][t])
      PROVE  HoldsAny(store[s][t])
  <2>1. \A p \in Periods : store'[s][t][p] \in {NoFile, store[s][t][p]}
    BY DEF Without
  <2> QED
    BY <1>1, <1>2, <2>1 DEF HoldsAny, Holds
<1> QED
  BY <1>2 DEF holdings

\* The beginning of a job is one of BackupStore.
LEMMA PromiseBegins == Init => Promise!Init
<1> SUFFICES ASSUME Init
             PROVE  Promise!Init
  OBVIOUS
<1>1. \A t \in Targets : Stage(t) = "waiting"
  BY DEF Init, Stage
<1>2. \A s \in Storages, t \in Targets : ~HoldsAny(store[s][t])
  <2>1. NoFile.is = "none"
    BY FileType DEF NoFile, Contents
  <2> QED
    BY <2>1 DEF Init, HoldsAny, Holds
<1>3. holdings = {}
  BY <1>2 DEF holdings
<1> QED
  BY <1>1, <1>3 DEF Init, Promise!Init, holdings

\* Each step is one of BackupStore or leaves its variables alone.
LEMMA PromiseGoesOn == PromiseInv /\ PromiseInv' /\ [Next]_vars => [Promise!Next]_(Promise!vars)
<1> SUFFICES ASSUME PromiseInv, PromiseInv', [Next]_vars
             PROVE  [Promise!Next]_(Promise!vars)
  OBVIOUS
<1> DEFINE Stays == stages' = stages
           Same == holdings' = holdings
           Goal == [Promise!Next]_(Promise!vars)
<1>0. TypeOK /\ Apart /\ TypeOK' /\ Apart'
  BY DEF PromiseInv
<1>a. ASSUME UNCHANGED <<undumped, dumped, delivered>>
      PROVE  Stays
  BY <1>a DEF stages, Stage
<1>b. ASSUME store' = store
      PROVE  Same
  BY <1>b DEF holdings
<1>1. ASSUME NothingToDo
      PROVE  Goal
  <2>1. Stays /\ Same
    BY <1>1, <1>a, <1>b DEF NothingToDo, dumpVars, deliverVars
  <2>2. \A t \in Targets : Stage(t) = "waiting"
    BY <1>0, <1>1, StageIs DEF NothingToDo, PromiseInv, Phases
  <2>3. Promise!End /\ UNCHANGED <<holdings, errs>>
    BY <1>1, <2>1, <2>2 DEF NothingToDo, Promise!End, stages
  <2> QED
    BY <2>3 DEF Promise!Next, holdings
<1>2. ASSUME Begin
      PROVE  Goal
  <2>1. Stays
    BY <1>2, <1>a DEF Begin, dumpVars, deliverVars
  <2>2. \A t \in Targets : Stage(t) = "waiting"
    BY <1>0, <1>2, StageIs DEF Begin, PromiseInv, Phases
  <2>3. holdings' \in SUBSET holdings /\ errs' \in {errs, TRUE}
    BY <1>0, <1>2, <1>b, WithoutHoldsLess DEF Begin, DeleteOldBackups, TypeOK
  <2>4. Promise!Expire
    BY <2>1, <2>2, <2>3 DEF Promise!Expire, stages, holdings
  <2>5. (pc = "done")' = (pc = "done")
    BY <1>2 DEF Begin
  <2> QED
    BY <2>4, <2>5 DEF Promise!Next
<1>3. ASSUME MakeTmpDir
      PROVE  Goal
  <2>1. Stays /\ Same
    BY <1>3, <1>a, <1>b DEF MakeTmpDir, dumpVars, deliverVars
  <2>2. CASE pc' = "done"
    <3>1. Promise!End /\ UNCHANGED stages
      BY <1>3, <2>1, <2>2 DEF MakeTmpDir, Promise!End, stages
    <3>2. \A t \in Targets : Stage(t) = "waiting"
      BY <1>0, <1>3, StageIs DEF MakeTmpDir, PromiseInv, Phases
    <3>3. Promise!Expire
      BY <1>3, <2>1, <2>2, <3>2 DEF MakeTmpDir, Promise!Expire, stages, holdings
    <3> QED
      BY <3>1, <3>3 DEF Promise!Next
  <2>3. CASE pc' = "dump"
    BY <1>3, <2>1, <2>3 DEF MakeTmpDir, Promise!vars, stages, holdings
  <2> QED
    BY <1>3, <2>2, <2>3 DEF MakeTmpDir
<1>4. ASSUME NEW t \in Targets, DumpTarget(t)
      PROVE  Goal
  <2>1. Stage(t) = "waiting" /\ Stage(t)' = "archived"
    BY <1>0, <1>4, StageIs, StageBecomes DEF DumpTarget, TypeOK, Apart
  <2>2. \A u \in Targets \ {t} : Stage(u)' = Stage(u)
    BY <1>4 DEF DumpTarget, Stage
  <2>3. stages' = [stages EXCEPT ![t] = "archived"]
    BY <2>1, <2>2 DEF stages
  <2>4. Same /\ errs' = errs /\ (pc = "done")' = (pc = "done")
    BY <1>4, <1>b DEF DumpTarget
  <2>5. Promise!Archive(t)
    BY <2>1, <2>3, <2>4 DEF Promise!Archive, stages, holdings
  <2> QED
    BY <2>5 DEF Promise!Next
<1>5. ASSUME NEW t \in Targets, DumpFails(t)
      PROVE  Goal
  <2>1. Stage(t) = "waiting" /\ Stage(t)' = "missing"
    BY <1>0, <1>5, StageIs, StageBecomes DEF DumpFails, TypeOK, Apart, deliverVars
  <2>2. \A u \in Targets \ {t} : Stage(u)' = Stage(u)
    BY <1>5 DEF DumpFails, Stage, deliverVars
  <2>3. stages' = [stages EXCEPT ![t] = "missing"]
    BY <2>1, <2>2 DEF stages
  <2>4. Same /\ errs' = TRUE /\ (pc = "done")' = (pc = "done")
    BY <1>5, <1>b DEF DumpFails
  <2>5. Promise!GiveUp(t)
    BY <2>1, <2>3, <2>4 DEF Promise!GiveUp, stages, holdings
  <2> QED
    BY <2>5 DEF Promise!Next
<1>6. ASSUME NEW s \in Storages, DeliverTo(s)
      PROVE  Goal
  <2>1. PICK copies : store' = [store EXCEPT ![s][cur] = copies]
    BY <1>6 DEF DeliverTo
  <2>2. cur # None /\ cur \in Targets /\ Stage(cur) = "archived"
    BY <1>0, <1>6, CurIsTarget, StageIs DEF DeliverTo, PromiseInv, Phases
  <2>3. Stays /\ errs' = errs /\ (pc = "done")' = (pc = "done")
    BY <1>6, <1>a DEF DeliverTo, dumpVars
  <2>4. \A r \in Storages, u \in Targets : <<r, u>> # <<s, cur>> => store'[r][u] = store[r][u]
    BY <1>0, <2>1 DEF TypeOK
  <2>5. holdings' \in {holdings \cup {<<s, cur>>}, holdings \ {<<s, cur>>}}
    <3>1. CASE HoldsAny(store'[s][cur])
      BY <2>2, <2>4, <3>1 DEF holdings
    <3>2. CASE ~HoldsAny(store'[s][cur])
      BY <2>2, <2>4, <3>2 DEF holdings
    <3> QED
      BY <3>1, <3>2
  <2>6. Promise!Upload(s, cur)
    BY <2>2, <2>3, <2>5 DEF Promise!Upload, stages, holdings
  <2> QED
    BY <2>2, <2>6 DEF Promise!Next
<1>7. ASSUME EndVisit
      PROVE  Goal
  <2>1. PICK t \in Targets : t = cur /\ t \in dumped /\ Stage(t) = "archived"
    BY <1>0, <1>7, CurIsTarget, StageIs DEF EndVisit, PromiseInv, Phases
  <2>2. Same /\ (pc = "done")' = (pc = "done")
    BY <1>7, <1>b DEF EndVisit
  <2>3. \A s \in Storages \ failed : <<s, t>> \in holdings
    BY <1>7, <2>1 DEF EndVisit, PromiseInv, Taken, holdings
  <2>4. Storages # {} /\ failed \subseteq Storages
    BY <1>0, <1>7, SomeStorage DEF EndVisit, PromiseInv, Phases, Delivering, TypeOK
  <2>5. ASSUME failed # Storages
        PROVE  stages' = [stages EXCEPT ![t] = "stored"] /\ \E s \in Storages : <<s, t>> \in holdings
    <3>1. Stage(t)' = "stored"
      BY <1>0, <1>7, <2>1, <2>5, StageBecomes DEF EndVisit, TakenBySome
    <3>2. \A u \in Targets \ {t} : Stage(u)' = Stage(u)
      BY <1>7, <2>1, <2>5 DEF EndVisit, TakenBySome, Stage, dumpVars
    <3>3. stages' = [stages EXCEPT ![t] = "stored"]
      BY <3>1, <3>2 DEF stages
    <3>4. \E s \in Storages : <<s, t>> \in holdings
      BY <2>3, <2>4, <2>5
    <3> QED
      BY <3>3, <3>4
  <2>6. failed = Storages => Stays
    BY <1>7, <1>a DEF EndVisit, TakenBySome, dumpVars
  <2>7. failed = {} => stages' # stages /\ Storages \X {t} \subseteq holdings /\ errs' = errs
    <3>1. ASSUME failed = {}
          PROVE  stages'[t] = "stored" /\ stages[t] = "archived"
      BY <2>1, <2>4, <2>5, <3>1 DEF stages
    <3> QED
      BY <1>0, <1>7, <2>3, <3>1 DEF EndVisit, Refused, TypeOK
  <2>8. failed # {} => errs' = TRUE
    BY <1>7 DEF EndVisit, Refused
  <2>9. Promise!Settle(t)
    BY <2>1, <2>2, <2>5, <2>6, <2>7, <2>8 DEF Promise!Settle, Promise!Everywhere, stages, holdings
  <2> QED
    BY <2>9 DEF Promise!Next
<1>8. ASSUME CleanupTmpData
      PROVE  Goal
  <2>1. Stays /\ Same /\ errs' = errs
    BY <1>8, <1>a, <1>b DEF CleanupTmpData, dumpVars, deliverVars
  <2>2. errs \/ \A t \in Targets : Stage(t) = "stored"
    BY <1>0, <1>8, StageIs DEF CleanupTmpData, PromiseInv, Collected, TypeOK
  <2>3. CASE pc' = "done"
    <3>1. Promise!End /\ UNCHANGED <<holdings, errs>>
      BY <2>1, <2>2, <2>3 DEF Promise!End, stages
    <3> QED
      BY <3>1 DEF Promise!Next, holdings
  <2>4. CASE pc' # "done"
    BY <1>8, <2>1, <2>4 DEF CleanupTmpData, Promise!vars, stages, holdings
  <2> QED
    BY <2>3, <2>4
<1>9. ASSUME SafeRotation
      PROVE  Goal
  <2>1. Stays
    BY <1>9, <1>a DEF SafeRotation, dumpVars, deliverVars
  <2>2. errs \/ \A t \in Targets : Stage(t) = "stored"
    BY <1>0, <1>9, StageIs DEF SafeRotation, PromiseInv, Collected, TypeOK
  <2>3. holdings' \in SUBSET holdings /\ errs' \in {errs, TRUE} /\ (errs => errs')
    BY <1>0, <1>9, WithoutHoldsLess DEF SafeRotation, DeleteOldBackups, TypeOK
  <2>4. Promise!Expire
    BY <2>1, <2>2, <2>3 DEF Promise!Expire, stages, holdings
  <2>5. Promise!End
    BY <1>9, <2>1, <2>2, <2>3 DEF SafeRotation, Promise!End, stages
  <2> QED
    BY <2>4, <2>5 DEF Promise!Next
<1>10. ASSUME UNCHANGED <<undumped, dumped, delivered, errs, store>>, (pc = "done")' = (pc = "done")
       PROVE  Goal
  BY <1>10, <1>a, <1>b DEF Promise!vars, stages, holdings
<1>11. CASE EndDelivery
  BY <1>10, <1>11 DEF EndDelivery, Delivering, dumpVars
<1> QED
  BY <1>1, <1>2, <1>3, <1>4, <1>5, <1>6, <1>7, <1>8, <1>9, <1>10, <1>11 DEF Next, Step, vars, dumpVars, deliverVars,
     VisitObject, DumpsDone, Midnight, Delivering

\* A job keeps the promise of BackupStore, whichever calls fail, however long
\* it takes, and however many storages and targets it has: an archive is called
\* stored only when a storage can give it back, its copies change only while it
\* is on its way or when the rules are applied, and the run ends without an
\* error only when every target is stored.
THEOREM PromiseIsKept ==
    ASSUME SomethingDueDaily
    PROVE  Spec => KeepsPromise
<1>1. Spec => []PromiseInv
  BY PromiseInvariant
<1> QED
  BY <1>1, PromiseBegins, PromiseGoesOn, PTL DEF Spec, KeepsPromise, Promise!Spec
=============================================================================
