------------------------ MODULE StorageRotationProofs ------------------------
(***************************************************************************)
(* Proofs about StorageRotation, for all rules, numbers of days and runs.  *)
(*                                                                         *)
(* The inductive invariant knows when the copies were made (Dated,         *)
(* OnePerRun, Older) and what a rotation that met no error has left in the *)
(* periods it is through with (Trimmed); that says nothing of what it has  *)
(* to delete, which follows from the operators of Retention alone.         *)
(***************************************************************************)
EXTENDS StorageRotation, DeliveryProofs

\* A copy belongs to a run and a day that have begun; weekly ones were made on
\* Sundays, monthly ones on firsts of month.
Dated ==
    \A p \in Periods : \A f \in files[p] :
        /\ f.at <= runs /\ f.day <= today
        /\ p = "weekly"  => f.day \in Sundays
        /\ p = "monthly" => f.day \in FirstDays

\* A run puts one copy into a directory.
OnePerRun == \A p \in Periods : \A f, g \in files[p] : f.at = g.at => f = g

\* Before its delivery a run has made no copy.
Older ==
    pc = "deliver" \/ (pc = "rotate" /\ ~safe) =>
        runs > 0 /\ \A p \in Periods : \A f \in files[p] : f.at < runs

\* The running rotation, or the one before the delivery, is through with p.
Rotated(p) == (pc = "rotate" /\ p \notin left) \/ (pc = "deliver" /\ ~safe)

\* No more copies than n, or none that is outdated today.
Fits(p, n) ==
    IF rule.useCount THEN Cardinality(files[p]) <= n
    ELSE \A f \in files[p] : f.day >= RetentionDate(rule, p, today)

Trimmed ==
    clean /\ ~late /\ IsRotated => \A p \in Periods : InEffect(rule, p, today) =>
        /\ Rotated(p) => Fits(p, Keep(p))
        /\ JustRotated(p) => Fits(p, RetentionCount(rule, p))

IInv == TypeOK /\ Dated /\ OnePerRun /\ Older /\ Trimmed

\* S3.DeleteOldBackups looks at retention.weeks for monthly objects: what s3
\* is configured with must not tell the difference.
S3HasWeeks == "s3" \in KindChoices => \A r \in RuleChoices : r.months > 0 => r.weeks > 0

-----------------------------------------------------------------------------
(***************************************************************************)
(* Sets of copies.                                                         *)
(***************************************************************************)
LEMMA CopiesAreFinite ==
    ASSUME NEW S \in SUBSET Copies
    PROVE  IsFiniteSet(S)
<1> DEFINE Pairs == (1 .. MaxRuns) \X (1 .. LastDay)
           f == [c \in Copies |-> <<c.at, c.day>>]
<1>1. IsFiniteSet(Pairs)
  <2>1. IsFiniteSet(1 .. MaxRuns) /\ IsFiniteSet(1 .. LastDay)
    BY FS_Interval, RotationAssumption
  <2> QED
    BY <2>1, FS_Product
<1>2. f \in Injection(Copies, Pairs)
  <2>1. f \in [Copies -> Pairs]
    BY DEF Copies
  <2>2. ASSUME NEW c \in Copies, NEW d \in Copies, f[c] = f[d]
        PROVE  c = d
    BY <2>2 DEF Copies
  <2> QED
    BY <2>1, <2>2 DEF Injection, IsInjective
<1>3. IsFiniteSet(Copies)
  BY <1>1, <1>2, FS_Injection, Zenon
<1> QED
  BY <1>3, FS_Subset

-----------------------------------------------------------------------------
(***************************************************************************)
(* The count branch of DGetRotatedObjects.                                 *)
(***************************************************************************)
NewerIn(S, f) == {g \in S : g.at > f.at}

\* Whatever part of the surplus goes, each file that goes has enough newer
\* ones among those that stay: the newest that goes has, and they are newer
\* than the others, too.
LEMMA EnoughStay ==
    ASSUME NEW S \in SUBSET Copies, NEW keep \in Int,
           NEW D \in SUBSET {f \in S : Cardinality(NewerIn(S, f)) >= keep}, NEW f \in D
    PROVE  Cardinality(NewerIn(S \ D, f)) >= keep
<1> DEFINE T == {g.at : g \in D}
<1>1. T \in SUBSET Nat /\ T # {} /\ \A n \in T : n <= MaxRuns
  BY RotationAssumption DEF Copies
<1>2. PICK m \in T : \A n \in T : n <= m
  BY <1>1, GreatestExists, RotationAssumption
<1>3. PICK h \in D : m = h.at
  BY <1>2
<1>4. NewerIn(S, h) \subseteq NewerIn(S \ D, f)
  <2> SUFFICES ASSUME NEW g \in S, g.at > h.at
               PROVE  g \notin D /\ g.at > f.at
    BY DEF NewerIn
  <2>1. g.at \in Int /\ h.at \in Int /\ f.at \in Int
    BY DEF Copies
  <2>2. f.at <= h.at
    BY <1>2, <1>3
  <2>3. g \in D => g.at <= h.at
    BY <1>2, <1>3
  <2> QED
    BY <2>1, <2>2, <2>3
<1>5. IsFiniteSet(NewerIn(S, h)) /\ IsFiniteSet(NewerIn(S \ D, f))
  BY CopiesAreFinite DEF NewerIn
<1>6. Cardinality(NewerIn(S, h)) <= Cardinality(NewerIn(S \ D, f))
  BY <1>4, <1>5, FS_Subset
<1>7. Cardinality(NewerIn(S, h)) >= keep
  OBVIOUS
<1>8. Cardinality(NewerIn(S, h)) \in Int /\ Cardinality(NewerIn(S \ D, f)) \in Int
  BY <1>5, FS_CardinalityType
<1> QED
  BY <1>6, <1>7, <1>8

\* When all of it goes, no more than keep stay: the oldest that stays has less
\* than keep newer ones, and the others that stay are newer.
LEMMA FewStay ==
    ASSUME NEW S \in SUBSET Copies, NEW keep \in Nat,
           \A f, g \in S : f.at = g.at => f = g
    PROVE  Cardinality(S \ {f \in S : Cardinality(NewerIn(S, f)) >= keep}) <= keep
<1> DEFINE R == {f \in S : ~(Cardinality(NewerIn(S, f)) >= keep)}
           T == {g.at : g \in R}
<1>1. S \ {f \in S : Cardinality(NewerIn(S, f)) >= keep} = R
  OBVIOUS
<1>2. CASE R = {}
  BY <1>1, <1>2, FS_EmptySet
<1>3. CASE R # {}
  <2>1. T \in SUBSET Nat /\ T # {}
    BY <1>3 DEF Copies
  <2>2. PICK m \in T : \A n \in T : m <= n
    BY <2>1, LeastExists
  <2>3. PICK h \in R : m = h.at
    BY <2>2
  <2>4. R \subseteq NewerIn(S, h) \cup {h}
    <3> SUFFICES ASSUME NEW g \in R, g # h
                 PROVE  g.at > h.at
      BY DEF NewerIn
    <3>1. g.at \in Int /\ h.at \in Int
      BY DEF Copies
    <3>2. h.at <= g.at
      BY <2>2, <2>3
    <3>3. g.at # h.at
      OBVIOUS
    <3> QED
      BY <3>1, <3>2, <3>3
  <2>5. IsFiniteSet(NewerIn(S, h)) /\ IsFiniteSet(R)
    BY CopiesAreFinite DEF NewerIn
  <2>6. Cardinality(NewerIn(S, h)) \in Nat /\ Cardinality(R) \in Nat
    BY <2>5, FS_CardinalityType
  <2>7. ~(Cardinality(NewerIn(S, h)) >= keep)
    OBVIOUS
  <2> HIDE DEF R
  <2>8. /\ IsFiniteSet(NewerIn(S, h) \cup {h})
        /\ Cardinality(NewerIn(S, h) \cup {h}) =
              IF h \in NewerIn(S, h) THEN Cardinality(NewerIn(S, h)) ELSE Cardinality(NewerIn(S, h)) + 1
    BY <2>5, FS_AddElement, Zenon
  <2>9. Cardinality(R) <= Cardinality(NewerIn(S, h) \cup {h})
    BY <2>4, <2>8, FS_Subset
  <2>10. Cardinality(NewerIn(S, h) \cup {h}) \in Nat
    BY <2>8, FS_CardinalityType
  <2>11. Cardinality(R) <= keep
    BY <2>6, <2>7, <2>8, <2>9, <2>10
  <2> QED
    BY <1>1, <2>11
<1> QED
  BY <1>2, <1>3

-----------------------------------------------------------------------------
(***************************************************************************)
(* Steps that delete and steps that add.                                   *)
(***************************************************************************)
LEMMA AfterRotationType == safe \in BOOLEAN => AfterRotation \in {"idle", "deliver"}
BY DEF AfterRotation

\* What the rotation of today wants to delete.
Doomed(p) == IF kind = "s3" THEN S3Doomed(p) ELSE RotatedObjects(rule, p, today, safe, tar, files[p])

\* A step of the rotation deletes nothing else, and if it met no error all of
\* it in the periods it is through with.
LEMMA RotationDeletes ==
    ASSUME TypeOK, RotateObjects \/ \E r \in Periods : RotatePeriod(r)
    PROVE  /\ pc = "rotate" /\ left' \subseteq left
           /\ pc' \in {"rotate", AfterRotation} /\ (pc' # "rotate" => left' = {})
           /\ files' \in [Periods -> SUBSET Copies]
           /\ \A p \in Periods : files'[p] \subseteq files[p] /\ Deleted(p) \subseteq Doomed(p)
           /\ clean' \in BOOLEAN
           /\ clean' => clean /\ \A p \in left \ left' : files'[p] = files[p] \ Doomed(p)
           /\ UNCHANGED <<setup, today, runs, late>>
<1>1. CASE RotateObjects
  <2> USE <1>1 DEF RotateObjects
  <2>1. PICK stuck \in [Periods -> SUBSET UNION {S3Doomed(p) : p \in Periods}] :
            /\ \A p \in Periods : stuck[p] \subseteq S3Doomed(p)
            /\ files' = [p \in Periods |-> files[p] \ (S3Doomed(p) \ stuck[p])]
            /\ clean' = (clean /\ \A p \in Periods : stuck[p] = {})
    OBVIOUS
  <2>2. \A p \in Periods : Doomed(p) = S3Doomed(p)
    BY DEF Doomed
  <2>3. \A p \in Periods : files'[p] = files[p] \ (Doomed(p) \ stuck[p])
    BY <2>1, <2>2
  <2>4. \A p \in Periods : files[p] \in SUBSET Copies
    BY DEF TypeOK
  <2>5. files' \in [Periods -> SUBSET Copies]
    BY <2>1, <2>4
  <2>6. \A p \in Periods : files'[p] \subseteq files[p] /\ Deleted(p) \subseteq Doomed(p)
    BY <2>3 DEF Deleted
  <2>7. clean' => clean /\ \A p \in Periods : stuck[p] = {}
    BY <2>1
  <2>8. clean' \in BOOLEAN
    BY <2>1 DEF TypeOK
  <2>9. left \subseteq Periods
    BY DEF TypeOK
  <2>10. clean' => \A p \in Periods : files'[p] = files[p] \ Doomed(p)
    BY <2>3, <2>7
  <2> QED
    BY <2>5, <2>6, <2>7, <2>8, <2>9, <2>10
<1>2. ASSUME NEW r \in Periods, RotatePeriod(r)
      PROVE  /\ pc = "rotate" /\ left' \subseteq left
             /\ pc' \in {"rotate", AfterRotation} /\ (pc' # "rotate" => left' = {})
             /\ files' \in [Periods -> SUBSET Copies]
             /\ \A p \in Periods : files'[p] \subseteq files[p] /\ Deleted(p) \subseteq Doomed(p)
             /\ clean' \in BOOLEAN
             /\ clean' => clean /\ \A p \in left \ left' : files'[p] = files[p] \ Doomed(p)
             /\ UNCHANGED <<setup, today, runs, late>>
  <2> USE <1>2 DEF RotatePeriod
  <2>1. PICK stuck \in SUBSET RotatedObjects(rule, r, today, safe, tar, files[r]) :
            /\ files' = [files EXCEPT ![r] = @ \ (RotatedObjects(rule, r, today, safe, tar, @) \ stuck)]
            /\ clean' = (clean /\ stuck = {})
    OBVIOUS
  <2>2. \A p \in Periods : Doomed(p) = RotatedObjects(rule, p, today, safe, tar, files[p])
    BY DEF Doomed
  <2>3. \A p \in Periods : files[p] \in SUBSET Copies
    BY DEF TypeOK
  <2>4. /\ files'[r] = files[r] \ (Doomed(r) \ stuck)
        /\ \A p \in Periods \ {r} : files'[p] = files[p]
        /\ files' \in [Periods -> SUBSET Copies]
    BY <2>1, <2>2, <2>3 DEF TypeOK
  <2>5. \A p \in Periods : files'[p] \subseteq files[p] /\ Deleted(p) \subseteq Doomed(p)
    BY <2>4 DEF Deleted
  <2>6. clean' => clean /\ stuck = {}
    BY <2>1
  <2>7. clean' \in BOOLEAN
    BY <2>1 DEF TypeOK
  <2>8. left \ left' = {r}
    OBVIOUS
  <2>9. clean' => \A p \in left \ left' : files'[p] = files[p] \ Doomed(p)
    BY <2>4, <2>6, <2>8
  <2> QED
    BY <2>4, <2>5, <2>6, <2>7, <2>9
<1> QED
  BY <1>1, <1>2, Zenon

\* A delivery adds the copy of this run to some of the due periods.
LEMMA DeliveryAdds ==
    ASSUME Deliver, NEW p \in Periods
    PROVE  \/ files'[p] = files[p]
           \/ p \in Due /\ files'[p] = files[p] \cup {[at |-> runs, day |-> today]}
<1> DEFINE empty == [q \in Periods |-> NoFile]
<1>1. PICK o \in RemoteDelivery(kind, TRUE, empty, Due, today) : files' = Added(o.held)
  BY DEF Deliver
<1>2. files'[p] = files[p] \cup {[at |-> runs, day |-> today] : x \in {o.held[p].is} \ {"none"}}
  BY <1>1 DEF Added
<1>3. p \notin Due => o.held[p].is = "none"
  <2> SUFFICES ASSUME p \notin Due
               PROVE  o.held[p] = NoFile
    BY DEF NoFile, File
  <2>1. Uploaded(empty, Due, today)[p] = NoFile
    BY DEF Uploaded
  <2>2. ASSUME NEW q \in Due, NEW c
        PROVE  StoppedAt(q, c, empty, Due, today)[p] = NoFile
    BY <2>2 DEF StoppedAt
  <2>3. \A h \in RemoteFailures(kind, TRUE, empty, Due, today) : h[p] = NoFile
    BY <2>2 DEF RemoteFailures
  <2> HIDE DEF empty
  <2>4. \/ o = [held |-> Uploaded(empty, Due, today), src |-> TRUE, ok |-> TRUE]
        \/ \E h \in RemoteFailures(kind, TRUE, empty, Due, today) : o = [held |-> h, src |-> TRUE, ok |-> FALSE]
    BY DEF RemoteDelivery
  <2>5. CASE o = [held |-> Uploaded(empty, Due, today), src |-> TRUE, ok |-> TRUE]
    <3>1. o.held = Uploaded(empty, Due, today)
      BY <2>5
    <3> QED
      BY <2>1, <3>1
  <2>6. ASSUME NEW h \in RemoteFailures(kind, TRUE, empty, Due, today),
               o = [held |-> h, src |-> TRUE, ok |-> FALSE]
        PROVE  o.held[p] = NoFile
    <3>1. o.held = h
      BY <2>6
    <3> QED
      BY <2>3, <3>1
  <2> QED
    BY <2>4, <2>5, <2>6, Zenon
<1>4. CASE o.held[p].is = "none"
  BY <1>2, <1>4
<1>5. CASE o.held[p].is # "none"
  BY <1>2, <1>3, <1>5
<1> QED
  BY <1>4, <1>5

\* What is to be deleted is surplus or outdated on a day of its period; when
\* the period is in effect nothing else is needed.
LEMMA DoomedIs ==
    ASSUME TypeOK, NEW p \in Periods
    PROVE  /\ rule.useCount => Doomed(p) \subseteq Surplus(rule, p, safe, files[p])
           /\ ~rule.useCount => \A f \in Doomed(p) :
                 /\ f \in files[p] /\ f.day < RetentionDate(rule, p, today)
                 /\ p = "weekly"  => today \in Sundays
                 /\ p = "monthly" => today \in FirstDays
           /\ InEffect(rule, p, today) /\ S3HasWeeks /\ IsRotated =>
                 Doomed(p) = IF rule.useCount THEN Surplus(rule, p, safe, files[p])
                             ELSE {f \in files[p] : f.day < RetentionDate(rule, p, today)}
<1>1. CASE kind = "s3"
  <2>1. Doomed(p) = S3Doomed(p)
    BY <1>1 DEF Doomed
  <2>2. InEffect(rule, p, today) /\ S3HasWeeks => S3Serves(p)
    <3>1. rule \in Rules /\ kind \in KindChoices /\ rule \in RuleChoices
      BY RotationAssumption DEF TypeOK
    <3>2. rule.months > 0 /\ S3HasWeeks => rule.weeks > 0
      BY <1>1, <3>1 DEF S3HasWeeks
    <3> QED
      BY <3>2 DEF InEffect, S3Serves, RetentionCount, Periods
  <2> QED
    BY <2>1, <2>2 DEF S3Doomed, S3Serves
<1>2. CASE kind # "s3"
  BY <1>2 DEF Doomed, RotatedObjects, Outdated, InEffect, IsRotated
<1> QED
  BY <1>1, <1>2

LEMMA SurplusIs ==
    ASSUME NEW p \in Periods
    PROVE  Surplus(rule, p, safe, files[p]) =
               {f \in files[p] : Cardinality(NewerIn(files[p], f)) >= Keep(p)}
BY DEF Surplus, Keep, NewerIn

\* The numbers of a rule.
LEMMA RuleType ==
    ASSUME TypeOK, NEW p \in Periods
    PROVE  /\ RetentionCount(rule, p) \in Nat
           /\ Keep(p) \in Int
           /\ InEffect(rule, p, today) => Keep(p) \in Nat
           /\ RetentionCount(rule, p) = IF safe THEN Keep(p) ELSE Keep(p) + 1
<1>1. rule \in Rules /\ safe \in BOOLEAN
  BY RotationAssumption DEF TypeOK
<1>2. RetentionCount(rule, p) \in Nat
  BY <1>1 DEF Rules, RetentionCount, Periods
<1> QED
  BY <1>1, <1>2 DEF Keep, InEffect

-----------------------------------------------------------------------------
(***************************************************************************)
(* Type correctness.                                                       *)
(***************************************************************************)
LEMMA InitType == Init => TypeOK
<1> SUFFICES ASSUME Init PROVE TypeOK
  OBVIOUS
<1>1. today \in 1 .. LastDay /\ runs \in 0 .. MaxRuns
  BY RotationAssumption DEF Init
<1> QED
  BY <1>1 DEF Init, TypeOK, Copies

LEMMA NextType ==
    ASSUME TypeOK, Older, [Next]_vars
    PROVE  TypeOK'
<1>1. CASE StartRun
  <2>1. runs' \in 0 .. MaxRuns
    BY <1>1, RotationAssumption DEF StartRun, TypeOK
  <2> QED
    BY <1>1, <2>1 DEF StartRun, TypeOK, setup, BeginRotation, Periods
<1>2. CASE RotateObjects \/ \E r \in Periods : RotatePeriod(r)
  <2>1. AfterRotation \in {"idle", "deliver"}
    BY AfterRotationType DEF TypeOK
  <2> QED
    BY <1>2, <2>1, RotationDeletes DEF TypeOK, setup
<1>3. CASE ListingFails
  <2>1. AfterRotation \in {"idle", "deliver"}
    BY AfterRotationType DEF TypeOK
  <2> QED
    BY <1>3, <2>1 DEF ListingFails, TypeOK, setup
<1>4. CASE Deliver
  <2>1. [at |-> runs, day |-> today] \in Copies
    <3>1. runs \in 1 .. MaxRuns /\ today \in 1 .. LastDay
      BY <1>4, RotationAssumption DEF Deliver, Older, TypeOK
    <3> QED
      BY <3>1 DEF Copies
  <2>2. \A p \in Periods : files'[p] \in SUBSET Copies
    BY <1>4, <2>1, DeliveryAdds DEF TypeOK
  <2>3. files' = [p \in Periods |-> files'[p]]
    BY <1>4 DEF Deliver, Added
  <2>4. files' \in [Periods -> SUBSET Copies]
    BY <2>2, <2>3
  <2> QED
    BY <1>4, <2>4 DEF Deliver, AfterBackup, BeginRotation, TypeOK, setup, Periods
<1>5. CASE DumpFails
  BY <1>5 DEF DumpFails, AfterBackup, BeginRotation, TypeOK, setup, Periods
<1>6. CASE Midnight
  <2>1. today' \in 1 .. LastDay
    BY <1>6, RotationAssumption DEF Midnight, TypeOK
  <2> QED
    BY <1>6, <2>1 DEF Midnight, TypeOK, setup
<1>7. CASE UNCHANGED vars
  BY <1>7 DEF vars, setup, TypeOK
<1> QED
  BY <1>1, <1>2, <1>3, <1>4, <1>5, <1>6, <1>7 DEF Next

-----------------------------------------------------------------------------
(***************************************************************************)
(* When the copies were made.                                              *)
(***************************************************************************)
\* Copies keep their dates when time goes on and some of them go.
LEMMA DatesStay ==
    ASSUME TypeOK, TypeOK', Dated, OnePerRun,
           \A p \in Periods : files'[p] \subseteq files[p],
           runs' \in {runs, runs + 1}, today' \in {today, today + 1}
    PROVE  Dated' /\ OnePerRun'
<1>1. runs \in Int /\ runs <= runs' /\ runs' \in Int /\ today \in Int /\ today <= today' /\ today' \in Int
  BY DEF TypeOK
<1>2. ASSUME NEW p \in Periods, NEW f \in files'[p]
      PROVE  /\ f.at <= runs' /\ f.day <= today'
             /\ p = "weekly"  => f.day \in Sundays
             /\ p = "monthly" => f.day \in FirstDays
  <2>1. f \in files[p] /\ f \in Copies
    BY <1>2 DEF TypeOK
  <2>2. f.at \in Int /\ f.day \in Int
    BY <2>1 DEF Copies
  <2>3. f.at <= runs /\ f.day <= today
    BY <2>1 DEF Dated
  <2> QED
    BY <1>1, <2>1, <2>2, <2>3 DEF Dated
<1>3. OnePerRun'
  BY DEF OnePerRun
<1> QED
  BY <1>2, <1>3 DEF Dated

\* The copy of a delivery is of this run and today.
LEMMA DeliveryIsDated ==
    ASSUME TypeOK, Dated, OnePerRun, Older, Deliver
    PROVE  Dated' /\ OnePerRun'
<1> DEFINE new == [at |-> runs, day |-> today]
<1>1. runs' = runs /\ today' = today /\ pc = "deliver" /\ runs \in Int /\ today \in Int
  BY DEF Deliver, TypeOK
<1>2. new.at = runs /\ new.day = today
  OBVIOUS
<1>3. \A p \in Periods : files'[p] = files[p] \/ (p \in Due /\ files'[p] = files[p] \cup {new})
  BY DeliveryAdds
<1>4. \A p \in Due : (p = "weekly" => today \in Sundays) /\ (p = "monthly" => today \in FirstDays)
  BY DEF Due, DstList, InEffect
<1> HIDE DEF new
<1>5. ASSUME NEW p \in Periods, NEW f \in files'[p]
      PROVE  /\ f.at <= runs /\ f.day <= today
             /\ p = "weekly"  => f.day \in Sundays
             /\ p = "monthly" => f.day \in FirstDays
  <2>1. CASE f \in files[p]
    BY <2>1 DEF Dated
  <2>2. CASE f = new /\ p \in Due
    BY <1>1, <1>2, <1>4, <2>2
  <2> QED
    BY <1>3, <1>5, <2>1, <2>2
<1>6. ASSUME NEW p \in Periods, NEW f \in files'[p], NEW g \in files'[p], f.at = g.at
      PROVE  f = g
  <2>1. \A h \in files[p] : h.at < runs /\ h.at \in Int
    BY <1>1 DEF Older, TypeOK, Copies
  <2>2. \A h \in files[p] : h.at # new.at
    BY <1>1, <1>2, <2>1
  <2>3. f \in files[p] \/ f = new
    BY <1>3
  <2>4. g \in files[p] \/ g = new
    BY <1>3
  <2>5. f \in files[p] /\ g \in files[p] => f = g
    BY <1>6 DEF OnePerRun
  <2> QED
    BY <1>6, <2>2, <2>3, <2>4, <2>5
<1>7. Dated'
  BY <1>1, <1>5 DEF Dated
<1>8. OnePerRun'
  BY <1>6 DEF OnePerRun
<1> QED
  BY <1>7, <1>8

LEMMA NextDated ==
    ASSUME TypeOK, TypeOK', Dated, OnePerRun, Older, [Next]_vars
    PROVE  Dated' /\ OnePerRun'
<1>1. CASE StartRun
  BY <1>1, DatesStay DEF StartRun
<1>2. CASE RotateObjects \/ \E r \in Periods : RotatePeriod(r)
  BY <1>2, DatesStay, RotationDeletes
<1>3. CASE ListingFails
  BY <1>3, DatesStay DEF ListingFails
<1>4. CASE Deliver
  BY <1>4, DeliveryIsDated
<1>5. CASE DumpFails
  BY <1>5, DatesStay DEF DumpFails
<1>6. CASE Midnight
  BY <1>6, DatesStay DEF Midnight
<1>7. CASE UNCHANGED vars
  BY <1>7, DatesStay DEF vars
<1> QED
  BY <1>1, <1>2, <1>3, <1>4, <1>5, <1>6, <1>7 DEF Next

\* A run that has not delivered has made no copy.
LEMMA NextOlder ==
    ASSUME TypeOK, Dated, Older, [Next]_vars
    PROVE  Older'
<1>0. \A p \in Periods : \A f \in files[p] : f.at <= runs /\ f.at \in Int
  BY DEF Dated, TypeOK, Copies
<1>1. CASE StartRun
  <2>1. runs \in Nat /\ runs' = runs + 1 /\ files' = files
    BY <1>1 DEF StartRun, TypeOK
  <2>2. runs' > 0 /\ \A p \in Periods : \A f \in files'[p] : f.at < runs'
    BY <1>0, <2>1
  <2> QED
    BY <2>2 DEF Older
<1>2. CASE RotateObjects \/ \E r \in Periods : RotatePeriod(r)
  <2>1. /\ pc = "rotate" /\ runs' = runs /\ safe' = safe
        /\ pc' \in {"rotate", AfterRotation}
        /\ \A p \in Periods : files'[p] \subseteq files[p]
    BY <1>2, RotationDeletes DEF setup
  <2>2. CASE safe
    BY <2>1, <2>2 DEF Older, AfterRotation
  <2>3. CASE ~safe
    BY <2>1, <2>3 DEF Older
  <2> QED
    BY <2>2, <2>3
<1>3. CASE ListingFails
  BY <1>3 DEF ListingFails, Older, AfterRotation, setup
<1>4. CASE Deliver
  <2>1. safe' = safe /\ (safe => pc' = "rotate") /\ (~safe => pc' = "idle")
    BY <1>4 DEF Deliver, AfterBackup, BeginRotation, setup
  <2> QED
    BY <2>1 DEF Older
<1>5. CASE DumpFails
  BY <1>5 DEF DumpFails, AfterBackup, BeginRotation, setup, Older
<1>6. CASE Midnight
  BY <1>6 DEF Midnight, setup, Older
<1>7. CASE UNCHANGED vars
  BY <1>7 DEF vars, setup, Older
<1> QED
  BY <1>1, <1>2, <1>3, <1>4, <1>5, <1>6, <1>7 DEF Next

-----------------------------------------------------------------------------
(***************************************************************************)
(* What a rotation without errors leaves.                                  *)
(***************************************************************************)
\* The rule on this day.
LEMMA TodayType ==
    ASSUME TypeOK
    PROVE  rule \in Rules /\ today \in Nat \ {0} /\ safe \in BOOLEAN
BY RotationAssumption DEF TypeOK

LEMMA FitsFewer ==
    ASSUME TypeOK, NEW p \in Periods, files'[p] \subseteq files[p], UNCHANGED <<setup, today>>
    PROVE  /\ Fits(p, Keep(p)) => Fits(p, Keep(p))'
           /\ Fits(p, RetentionCount(rule, p)) => Fits(p, RetentionCount(rule, p))'
<1>1. files[p] \in SUBSET Copies
  BY DEF TypeOK
<1>2. IsFiniteSet(files[p])
  BY <1>1, CopiesAreFinite
<1>3. /\ Cardinality(files'[p]) <= Cardinality(files[p])
      /\ Cardinality(files'[p]) \in Nat /\ Cardinality(files[p]) \in Nat
  BY <1>2, FS_Subset, FS_CardinalityType
<1>4. Keep(p)' = Keep(p) /\ Keep(p) \in Int /\ RetentionCount(rule, p) \in Int /\ rule' = rule
  BY RuleType DEF Keep, setup
<1> QED
  BY <1>3, <1>4 DEF Fits

LEMMA FitsRotated ==
    ASSUME TypeOK, OnePerRun, S3HasWeeks, IsRotated, NEW p \in Periods, InEffect(rule, p, today),
           files'[p] = files[p] \ Doomed(p), UNCHANGED <<setup, today>>
    PROVE  Fits(p, Keep(p))'
<1>1. files[p] \in SUBSET Copies
  BY DEF TypeOK
<1>2. Keep(p) \in Nat /\ Keep(p)' = Keep(p) /\ rule' = rule /\ today' = today
  BY RuleType DEF Keep, setup
<1>3. CASE rule.useCount
  <2>1. Doomed(p) = {f \in files[p] : Cardinality(NewerIn(files[p], f)) >= Keep(p)}
    BY <1>3, DoomedIs, SurplusIs
  <2>2. \A f, g \in files[p] : f.at = g.at => f = g
    BY DEF OnePerRun
  <2>3. Cardinality(files'[p]) <= Keep(p)
    BY <1>1, <1>2, <2>1, <2>2, FewStay
  <2> QED
    BY <1>2, <1>3, <2>3 DEF Fits
<1>4. CASE ~rule.useCount
  <2>1. RetentionDate(rule, p, today) \in Int
    BY TodayType, RetentionDateIs
  <2>2. Doomed(p) = {f \in files[p] : f.day < RetentionDate(rule, p, today)}
    BY <1>4, DoomedIs
  <2>3. \A f \in files'[p] : f.day \in Int /\ ~(f.day < RetentionDate(rule, p, today))
    BY <1>1, <2>2 DEF Copies
  <2>4. \A f \in files'[p] : f.day >= RetentionDate(rule, p, today)
    BY <2>1, <2>3
  <2> QED
    BY <1>2, <1>4, <2>4 DEF Fits
<1> QED
  BY <1>3, <1>4

\* Unsafe rotation has made room for the copy that comes.
LEMMA FitsWithOneMore ==
    ASSUME TypeOK, NEW p \in Periods, InEffect(rule, p, today), ~safe, Fits(p, Keep(p)),
           \/ files'[p] = files[p]
           \/ files'[p] = files[p] \cup {[at |-> runs, day |-> today]},
           UNCHANGED <<setup, today>>
    PROVE  Fits(p, RetentionCount(rule, p))'
<1> DEFINE new == [at |-> runs, day |-> today]
           R == RetentionDate(rule, p, today)
<1>1. IsFiniteSet(files[p])
  BY CopiesAreFinite DEF TypeOK
<1>2. Cardinality(files[p]) \in Nat
  BY <1>1, FS_CardinalityType
<1>3. RetentionCount(rule, p) = Keep(p) + 1 /\ Keep(p) \in Nat
  BY RuleType
<1>4. rule' = rule /\ today' = today
  BY DEF setup
<1>5. CASE rule.useCount
  <2> HIDE DEF new
  <2>1. Cardinality(files[p]) <= Keep(p)
    BY <1>5 DEF Fits
  <2>2. Cardinality(files[p] \cup {new}) = IF new \in files[p] THEN Cardinality(files[p]) ELSE Cardinality(files[p]) + 1
    BY <1>1, FS_AddElement, Zenon
  <2>3. Cardinality(files'[p]) <= Keep(p) + 1
    <3>1. CASE files'[p] = files[p]
      BY <1>2, <1>3, <2>1, <3>1
    <3>2. CASE files'[p] = files[p] \cup {new}
      BY <1>2, <1>3, <2>1, <2>2, <3>2
    <3> QED
      BY <3>1, <3>2 DEF new
  <2> QED
    BY <1>3, <1>4, <1>5, <2>3 DEF Fits
<1>6. CASE ~rule.useCount
  <2>1. \A f \in files[p] : f.day >= R
    BY <1>6 DEF Fits
  <2>2. today >= R
    BY TodayType, RetentionDateIs
  <2>3. new.day = today
    OBVIOUS
  <2> HIDE DEF new, R
  <2>4. \A f \in files'[p] : f.day >= R
    BY <2>1, <2>2, <2>3 DEF new
  <2> QED
    BY <1>4, <1>6, <2>4 DEF Fits, R
<1> QED
  BY <1>5, <1>6

LEMMA RotationTrims ==
    ASSUME TypeOK, OnePerRun, Trimmed, S3HasWeeks,
           RotateObjects \/ \E r \in Periods : RotatePeriod(r)
    PROVE  Trimmed'
<1>0. /\ pc = "rotate" /\ left' \subseteq left
      /\ pc' \in {"rotate", AfterRotation} /\ (pc' # "rotate" => left' = {})
      /\ \A p \in Periods : files'[p] \subseteq files[p]
      /\ clean' => clean /\ \A p \in left \ left' : files'[p] = files[p] \ Doomed(p)
      /\ UNCHANGED <<setup, today, runs, late>>
  BY RotationDeletes
<1>1. rule' = rule /\ safe' = safe /\ today' = today /\ late' = late /\ IsRotated' = IsRotated
  BY <1>0 DEF setup, IsRotated
<1> SUFFICES ASSUME clean', ~late, IsRotated, NEW p \in Periods, InEffect(rule, p, today)
             PROVE  /\ Rotated(p)' => Fits(p, Keep(p))'
                    /\ JustRotated(p)' => Fits(p, RetentionCount(rule, p))'
  BY <1>1 DEF Trimmed, InEffect
<1>2. p \notin left' => Fits(p, Keep(p))'
  <2>1. CASE p \in left
    BY <1>0, <2>1, FitsRotated
  <2>2. CASE p \notin left
    <3>1. Fits(p, Keep(p))
      BY <1>0, <2>2 DEF Trimmed, Rotated
    <3> QED
      BY <1>0, <3>1, FitsFewer
  <2> QED
    BY <2>1, <2>2
<1>3. Rotated(p)' \/ JustRotated(p)' => p \notin left'
  BY <1>0 DEF Rotated, JustRotated
<1>4. JustRotated(p)' => Keep(p)' = RetentionCount(rule, p)'
  BY <1>0, <1>1 DEF JustRotated, AfterRotation, Keep
<1> QED
  BY <1>2, <1>3, <1>4 DEF Fits

LEMMA DeliveryTrims ==
    ASSUME TypeOK, Trimmed, Deliver \/ DumpFails
    PROVE  Trimmed'
<1>0. /\ pc = "deliver" /\ UNCHANGED <<setup, today, runs, late>> /\ AfterBackup
      /\ Deliver \/ files' = files
  BY DEF Deliver, DumpFails
<1>1. rule' = rule /\ safe' = safe /\ today' = today /\ late' = late /\ IsRotated' = IsRotated
  BY <1>0 DEF setup, IsRotated
<1>2. CASE safe
  <2>1. pc' = "rotate" /\ left' = Periods
    BY <1>0, <1>2 DEF AfterBackup, BeginRotation
  <2> QED
    BY <2>1 DEF Trimmed, Rotated, JustRotated
<1>3. CASE ~safe
  <2>1. pc' = "idle" /\ clean' = clean
    BY <1>0, <1>3 DEF AfterBackup
  <2> SUFFICES ASSUME clean, ~late, IsRotated, NEW p \in Periods, InEffect(rule, p, today)
               PROVE  Fits(p, RetentionCount(rule, p))'
    BY <1>1, <2>1 DEF Trimmed, InEffect, Rotated
  <2>2. Fits(p, Keep(p))
    BY <1>0, <1>3 DEF Trimmed, Rotated
  <2>3. \/ files'[p] = files[p]
        \/ files'[p] = files[p] \cup {[at |-> runs, day |-> today]}
    BY <1>0, DeliveryAdds
  <2> QED
    BY <1>0, <1>3, <2>2, <2>3, FitsWithOneMore
<1> QED
  BY <1>2, <1>3

LEMMA NextTrimmed ==
    ASSUME TypeOK, Dated, OnePerRun, Older, Trimmed, S3HasWeeks, [Next]_vars
    PROVE  Trimmed'
<1>1. CASE StartRun
  <2>1. (pc' = "deliver" /\ safe') \/ (pc' = "rotate" /\ left' = Periods)
    BY <1>1 DEF StartRun, BeginRotation, setup
  <2> QED
    BY <2>1 DEF Trimmed, Rotated, JustRotated
<1>2. CASE RotateObjects \/ \E r \in Periods : RotatePeriod(r)
  BY <1>2, RotationTrims
<1>3. CASE ListingFails
  BY <1>3 DEF ListingFails, Trimmed
<1>4. CASE Deliver \/ DumpFails
  BY <1>4, DeliveryTrims
<1>5. CASE Midnight
  <2>1. CASE pc = "idle"
    <3>1. pc' = "idle" /\ files' = files /\ today' = today + 1 /\ today \in Int
      BY <1>5, <2>1 DEF Midnight, TypeOK
    <3>2. \A p \in Periods : \A f \in files[p] : f.day \in Int /\ f.day <= today
      BY DEF Dated, TypeOK, Copies
    <3>3. \A p \in Periods : ~JustRotated(p)' /\ ~Rotated(p)'
      BY <3>1, <3>2 DEF JustRotated, Rotated
    <3> QED
      BY <3>3 DEF Trimmed
  <2>2. CASE pc # "idle"
    BY <1>5, <2>2 DEF Midnight, Trimmed
  <2> QED
    BY <2>1, <2>2
<1>6. CASE UNCHANGED vars
  BY <1>6 DEF vars, setup, Trimmed, Rotated, JustRotated, InEffect, Fits, Keep, IsRotated
<1> QED
  BY <1>1, <1>2, <1>3, <1>4, <1>5, <1>6 DEF Next

-----------------------------------------------------------------------------
(***************************************************************************)
(* The theorems.                                                           *)
(***************************************************************************)
LEMMA InitInv == Init => IInv
<1> SUFFICES ASSUME Init PROVE IInv
  OBVIOUS
<1>1. \A p \in Periods : files[p] = {}
  BY DEF Init
<1>2. pc = "idle"
  BY DEF Init
<1> QED
  BY <1>1, <1>2, InitType DEF IInv, Dated, OnePerRun, Older, Trimmed, Rotated, JustRotated

LEMMA DatesInv == Spec => [](TypeOK /\ Dated /\ OnePerRun /\ Older)
<1>1. Init => TypeOK /\ Dated /\ OnePerRun /\ Older
  BY InitInv DEF IInv
<1>2. TypeOK /\ Dated /\ OnePerRun /\ Older /\ [Next]_vars => (TypeOK /\ Dated /\ OnePerRun /\ Older)'
  BY NextType, NextDated, NextOlder
<1> QED
  BY <1>1, <1>2, PTL DEF Spec

LEMMA TrimmedInv ==
    ASSUME S3HasWeeks
    PROVE  Spec => []IInv
<1>1. IInv /\ [Next]_vars => IInv'
  BY NextType, NextDated, NextOlder, NextTrimmed DEF IInv
<1> QED
  BY <1>1, InitInv, PTL DEF Spec

\* Every state of the storage is well typed.
THEOREM TypeCorrect == Spec => []TypeOK
BY DatesInv, PTL

\* By count, a rotation deletes a copy only when as many newer ones stay as the
\* rule says, with room for the next; also if a part of the removals fails.
THEOREM NewestStay == Spec => NewerOnesStay
<1> DEFINE A == rule.useCount => \A p \in Periods : \A f \in Deleted(p) :
                    Cardinality({g \in files'[p] : g.at > f.at}) >= Keep(p)
<1>1. ASSUME TypeOK, [Next]_vars PROVE [A]_vars
  <2> USE <1>1
  <2> SUFFICES ASSUME rule.useCount, NEW p \in Periods, NEW f \in Deleted(p)
               PROVE  Cardinality({g \in files'[p] : g.at > f.at}) >= Keep(p)
    OBVIOUS
  <2>1. f \in files[p] /\ f \notin files'[p]
    BY DEF Deleted
  <2>2. CASE RotateObjects \/ \E r \in Periods : RotatePeriod(r)
    <3>1. files'[p] \subseteq files[p] /\ Deleted(p) \subseteq Doomed(p)
      BY <2>2, RotationDeletes
    <3>2. Deleted(p) \in SUBSET {h \in files[p] : Cardinality(NewerIn(files[p], h)) >= Keep(p)}
      BY <3>1, DoomedIs, SurplusIs
    <3>3. files[p] \in SUBSET Copies /\ Keep(p) \in Int
      BY RuleType DEF TypeOK
    <3>4. Cardinality(NewerIn(files[p] \ Deleted(p), f)) >= Keep(p)
      BY <3>2, <3>3, EnoughStay
    <3>5. files[p] \ Deleted(p) = files'[p]
      BY <3>1 DEF Deleted
    <3> QED
      BY <3>4, <3>5 DEF NewerIn
  <2>3. CASE Deliver
    BY <2>1, <2>3, DeliveryAdds
  <2>4. CASE StartRun \/ ListingFails \/ DumpFails \/ Midnight \/ UNCHANGED vars
    BY <2>1, <2>4 DEF StartRun, ListingFails, DumpFails, Midnight, vars
  <2> QED
    BY <2>2, <2>3, <2>4 DEF Next
<1> QED
  BY <1>1, DatesInv, PTL DEF Spec, NewerOnesStay

\* By date, a rotation deletes a copy only when so many days, Sundays or
\* firsts of month have come after it.
THEOREM CopiesLiveTheirTerm == Spec => FullTerm
<1> DEFINE A == ~rule.useCount => \A p \in Periods : \A f \in Deleted(p) :
          CASE p = "daily"   -> today - f.day >= rule.days
            [] p = "weekly"  -> Cardinality({d \in Sundays : f.day < d /\ d <= today}) >= rule.weeks
            [] p = "monthly" -> Cardinality({d \in FirstDays : f.day < d /\ d <= today}) >= rule.months
<1>1. ASSUME TypeOK, [Next]_vars PROVE [A]_vars
  <2> USE <1>1
  <2> SUFFICES ASSUME ~rule.useCount, NEW p \in Periods, NEW f \in Deleted(p)
               PROVE  CASE p = "daily"   -> today - f.day >= rule.days
                        [] p = "weekly"  -> Cardinality({d \in Sundays : f.day < d /\ d <= today}) >= rule.weeks
                        [] p = "monthly" -> Cardinality({d \in FirstDays : f.day < d /\ d <= today}) >= rule.months
    OBVIOUS
  <2>1. f \in files[p] /\ f \notin files'[p]
    BY DEF Deleted
  <2>2. CASE RotateObjects \/ \E r \in Periods : RotatePeriod(r)
    <3>1. Deleted(p) \subseteq Doomed(p)
      BY <2>2, RotationDeletes
    <3>2. /\ f.day < RetentionDate(rule, p, today)
          /\ p = "weekly"  => today \in Sundays
          /\ p = "monthly" => today \in FirstDays
      BY <3>1, DoomedIs
    <3>3. rule \in Rules /\ today \in Nat \ {0} /\ f.day \in Nat \ {0}
      BY <2>1, TodayType, RotationAssumption DEF TypeOK, Copies
    <3>4. /\ p = "daily"   => today - f.day >= rule.days
          /\ p = "weekly"  => Cardinality({e \in Sundays : f.day < e /\ e <= today}) >= rule.weeks
          /\ p = "monthly" => Cardinality({e \in FirstDays : f.day < e /\ e <= today}) >= rule.months
      BY <3>2, <3>3, TermIsOver
    <3>5. p = "daily" \/ p = "weekly" \/ p = "monthly"
      BY DEF Periods
    <3> QED
      BY <3>4, <3>5
  <2>3. CASE Deliver
    BY <2>1, <2>3, DeliveryAdds
  <2>4. CASE StartRun \/ ListingFails \/ DumpFails \/ Midnight \/ UNCHANGED vars
    BY <2>1, <2>4 DEF StartRun, ListingFails, DumpFails, Midnight, vars
  <2> QED
    BY <2>2, <2>3, <2>4 DEF Next
<1> QED
  BY <1>1, DatesInv, PTL DEF Spec, FullTerm

\* By count, a directory of copies whose names end in .tar or .tar.gz (on s3: of
\* any) holds no more of them than the rule says after a run on whose rotation
\* no error and no midnight fell, rotation first or last; on s3 if the rules
\* with monthly copies have weekly ones.
THEOREM CountsAreKept ==
    ASSUME S3HasWeeks
    PROVE  Spec => []CountIsBounded
<1>1. IInv => CountIsBounded
  <2> SUFFICES ASSUME IInv, IsRotated, rule.useCount, NEW p \in Periods, JustRotated(p)
               PROVE  Cardinality(files[p]) <= RetentionCount(rule, p)
    BY DEF CountIsBounded, HoldsItsCount
  <2>1. Fits(p, RetentionCount(rule, p))
    BY DEF IInv, Trimmed, JustRotated
  <2> QED
    BY <2>1 DEF Fits
<1> QED
  BY <1>1, TrimmedInv, PTL

\* By date, it then keeps such copies of no more days, Sundays or firsts of
\* month than the rule says, under the same conditions.
THEOREM WindowsAreKept ==
    ASSUME S3HasWeeks
    PROVE  Spec => []WindowIsBounded
<1>1. IInv => WindowIsBounded
  <2> SUFFICES ASSUME IInv, IsRotated, ~rule.useCount, NEW p \in Periods, JustRotated(p)
               PROVE  Cardinality({f.day : f \in files[p]}) <= RetentionCount(rule, p)
    BY DEF WindowIsBounded
  <2> DEFINE days == {f.day : f \in files[p]}
             R == RetentionDate(rule, p, today)
  <2>1. InEffect(rule, p, today) /\ Fits(p, RetentionCount(rule, p))
    BY DEF IInv, Trimmed, JustRotated
  <2>2. \A f \in files[p] : f.day >= R
    BY <2>1 DEF Fits
  <2>3. /\ today \in Nat \ {0} /\ today <= LastDay
        /\ rule.days \in Nat /\ rule.weeks \in Nat /\ rule.months \in Nat
    BY TodayType, RotationAssumption DEF IInv, Rules, TypeOK
  <2>4. \A f \in files[p] : f.day <= today /\ f.day \in Nat
    BY RotationAssumption DEF IInv, Dated, TypeOK, Copies
  <2>5. CASE p = "daily"
    <3>1. R = today - rule.days + 1
      BY <2>5 DEF RetentionDate
    <3>2. days \subseteq R .. today
      BY <2>2, <2>3, <2>4, <3>1
    <3>3. RetentionCount(rule, p) = rule.days
      BY <2>5 DEF RetentionCount
    <3>4. IsFiniteSet(R .. today) /\ Cardinality(R .. today) = rule.days
      <4>1. R \in Int /\ today \in Int /\ (IF R > today THEN 0 ELSE today - R + 1) = rule.days
        BY <2>3, <3>1
      <4> HIDE DEF R
      <4> QED
        BY <4>1, FS_Interval, Zenon
    <3> HIDE DEF days, R
    <3>5. Cardinality(days) <= Cardinality(R .. today)
      BY <3>2, <3>4, FS_Subset
    <3> QED
      BY <3>3, <3>4, <3>5 DEF days
  <2>6. CASE p = "weekly"
    <3> DEFINE S == {d \in Sundays : today - 7 * rule.weeks + 1 <= d /\ d <= today}
    <3>1. R = today - 7 * rule.weeks + 1
      BY <2>6 DEF RetentionDate
    <3>2. \A f \in files[p] : f.day \in Sundays
      BY <2>6 DEF IInv, Dated
    <3>3. days \subseteq S
      BY <2>2, <2>4, <3>1, <3>2
    <3>4. RetentionCount(rule, p) = rule.weeks
      BY <2>6 DEF RetentionCount
    <3>5. today \in Sundays
      BY <2>1, <2>6 DEF InEffect
    <3>6. Cardinality(S) <= rule.weeks
      BY <2>3, <3>5, FewSundays
    <3>7. S \in SUBSET Nat /\ \A d \in S : d <= today
      BY CalendarAssumption
    <3>8. IsFiniteSet(S) /\ Cardinality(S) \in Nat
      BY <2>3, <3>7, DaysAreFinite
    <3> HIDE DEF days, S
    <3>9. Cardinality(days) <= Cardinality(S) /\ Cardinality(days) \in Nat
      BY <3>3, <3>8, FS_Subset, FS_CardinalityType
    <3>10. Cardinality(days) <= rule.weeks
      BY <2>3, <3>6, <3>8, <3>9
    <3> QED
      BY <3>4, <3>10 DEF days
  <2>7. CASE p = "monthly"
    <3> DEFINE S == {d \in FirstDays : MonthsBack(today, rule.months) + 1 <= d /\ d <= today}
    <3>1. R = MonthsBack(today, rule.months) + 1
      BY <2>7 DEF RetentionDate
    <3>2. \A f \in files[p] : f.day \in FirstDays
      BY <2>7 DEF IInv, Dated
    <3>3. days \subseteq S
      BY <2>2, <2>4, <3>1, <3>2
    <3>4. RetentionCount(rule, p) = rule.months /\ rule.months > 0 /\ today \in FirstDays
      BY <2>1, <2>7 DEF RetentionCount, InEffect
    <3>5. Cardinality(S) <= rule.months
      BY <2>3, <3>4, FewFirsts
    <3>6. S \in SUBSET Nat /\ \A d \in S : d <= today
      BY CalendarAssumption
    <3>7. IsFiniteSet(S) /\ Cardinality(S) \in Nat
      BY <2>3, <3>6, DaysAreFinite
    <3> HIDE DEF days, S
    <3>8. Cardinality(days) <= Cardinality(S) /\ Cardinality(days) \in Nat
      BY <3>3, <3>7, FS_Subset, FS_CardinalityType
    <3>9. Cardinality(days) <= rule.months
      BY <2>3, <3>5, <3>7, <3>8
    <3> QED
      BY <3>4, <3>9 DEF days
  <2> QED
    BY <2>5, <2>6, <2>7 DEF Periods
<1> QED
  BY <1>1, TrimmedInv, PTL
=============================================================================
