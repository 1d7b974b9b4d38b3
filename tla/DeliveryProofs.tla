---------------------------- MODULE DeliveryProofs ----------------------------
(***************************************************************************)
(* What the operators of Retention and Delivery guarantee for every rule,  *)
(* day and kind of storage.  The proofs about BackupJob use nothing else   *)
(* of them.                                                                *)
(***************************************************************************)
EXTENDS Delivery, FiniteSetTheorems, NaturalsInduction, WellFoundedInduction, TLAPS

\* A copy as Held has it.
Slot == [is : Contents, day : Nat]

\* Due directories are period directories (GetBackupDstList).
LEMMA DstListType ==
    ASSUME NEW rule, NEW day
    PROVE  DstList(rule, day) \in SUBSET Periods
BY DEF DstList

\* NoFile and File make copies of the declared type.
LEMMA FileType ==
    ASSUME NEW c \in Contents, NEW day \in Nat
    PROVE  /\ File(c, day) \in Slot
           /\ File(c, day).is = c
           /\ c # "none" => File(c, day).day = day
BY DEF File, Slot, Contents

\* The order of RetentionPeriodsList is transitive and without loops.
LEMMA BeforeIsOrder ==
    ASSUME NEW p \in Periods, NEW q \in Periods, NEW r \in Periods
    PROVE  /\ ~Before(p, p)
           /\ Before(p, q) => ~Before(q, p)
           /\ Before(p, q) /\ Before(q, r) => Before(p, r)
           /\ p = q \/ Before(p, q) \/ Before(q, p)
BY DEF Before, Periods

\* Among due periods there is a first one, which all the others follow.
LEMMA FirstOfDue ==
    ASSUME NEW due \in SUBSET Periods, due # {}
    PROVE  /\ First(due) \in due
           /\ \A q \in due \ {First(due)} : Before(First(due), q)
<1>1. \E p \in due : \A q \in due \ {p} : Before(p, q)
  <2>1. CASE "monthly" \in due
    BY <2>1 DEF Before, Periods
  <2>2. CASE "monthly" \notin due /\ "weekly" \in due
    BY <2>2 DEF Before, Periods
  <2>3. CASE "monthly" \notin due /\ "weekly" \notin due
    <3>1. due = {"daily"}
      BY <2>3 DEF Periods
    <3> QED BY <3>1
  <2> QED BY <2>1, <2>2, <2>3
<1> QED BY <1>1 DEF First

-----------------------------------------------------------------------------
(***************************************************************************)
(* Numbers and finite sets.                                                *)
(***************************************************************************)
\* A set of natural numbers has a least one.
LEMMA LeastExists ==
    ASSUME NEW S \in SUBSET Nat, S # {}
    PROVE  \E m \in S : \A n \in S : m <= n
<1>1. PICK m \in S : \A n \in S : ~(<<n, m>> \in OpToRel(<, Nat))
  BY NatLessThanWellFounded, WFMin, Zenon
<1>2. \A n \in S : ~(n < m)
  BY <1>1 DEF OpToRel
<1> QED
  BY <1>2

\* A bounded one has a greatest.
LEMMA GreatestExists ==
    ASSUME NEW S \in SUBSET Nat, S # {}, NEW b \in Nat, \A n \in S : n <= b
    PROVE  \E m \in S : \A n \in S : n <= m
<1> DEFINE T == {b - n : n \in S}
<1>0. \A n \in S : b - n \in Nat
  OBVIOUS
<1>1. T \in SUBSET Nat /\ T # {}
  BY <1>0
<1>2. PICK k \in T : \A n \in T : k <= n
  BY <1>1, LeastExists
<1>3. PICK m \in S : k = b - m
  BY <1>2
<1>4. \A n \in S : b - m <= b - n
  BY <1>2, <1>3
<1> QED
  BY <1>4

-----------------------------------------------------------------------------
(***************************************************************************)
(* The day from which a rotation keeps files.                              *)
(***************************************************************************)
\* The firsts of month from m on, before day.
Firsts(m, day) == {g \in FirstDays : m <= g /\ g < day}

\* time.AddDate finds a first of month that many months ago, or there is none.
LEMMA MonthsBackIs ==
    ASSUME NEW day \in Nat \ {0}, NEW k \in Nat
    PROVE  \/ /\ MonthsBack(day, k) = 0
              /\ \A m \in FirstDays : m < day => Cardinality(Firsts(m, day)) # k
           \/ /\ MonthsBack(day, k) \in FirstDays
              /\ MonthsBack(day, k) < day
              /\ Cardinality(Firsts(MonthsBack(day, k), day)) = k
<1> DEFINE hits == {f \in FirstDays :
                       f < day /\ Cardinality({g \in FirstDays : f <= g /\ g < day}) = k}
<1>1. MonthsBack(day, k) = IF hits = {} THEN 0 ELSE CHOOSE f \in hits : TRUE
  BY DEF MonthsBack
<1>2. hits = {f \in FirstDays : f < day /\ Cardinality(Firsts(f, day)) = k}
  BY DEF Firsts
<1>3. CASE hits = {}
  BY <1>1, <1>2, <1>3
<1>4. CASE hits # {}
  <2>1. MonthsBack(day, k) \in hits
    BY <1>1, <1>4
  <2> QED
    BY <1>2, <2>1
<1> QED
  BY <1>3, <1>4

LEMMA RetentionDateIs ==
    ASSUME NEW r \in Rules, NEW p \in Periods, NEW day \in Nat \ {0}
    PROVE  /\ RetentionDate(r, p, day) \in Int
           /\ InEffect(r, p, day) => RetentionDate(r, p, day) <= day
<1>1. r.days \in Nat /\ r.weeks \in Nat /\ r.months \in Nat
  BY DEF Rules
<1>2. CASE p = "daily"
  BY <1>1, <1>2 DEF RetentionDate, InEffect, RetentionCount
<1>3. CASE p = "weekly"
  BY <1>1, <1>3 DEF RetentionDate, InEffect, RetentionCount
<1>4. CASE p = "monthly"
  <2>1. MonthsBack(day, r.months) \in Nat /\ MonthsBack(day, r.months) < day
    <3>1. \A k \in Nat : MonthsBack(day, k) = 0 \/ (MonthsBack(day, k) \in FirstDays /\ MonthsBack(day, k) < day)
      BY MonthsBackIs, Zenon
    <3>2. FirstDays \subseteq Nat /\ 0 \in Nat /\ 0 < day
      BY CalendarAssumption
    <3> QED
      BY <1>1, <3>1, <3>2, Zenon
  <2>2. RetentionDate(r, p, day) = MonthsBack(day, r.months) + 1
    BY <1>4 DEF RetentionDate
  <2> QED
    BY <2>1, <2>2
<1> QED
  BY <1>2, <1>3, <1>4 DEF Periods

\* On the day it is made no copy is outdated: the date from which a rotation
\* keeps files (RetentionDate) is never after the day of the rotation.
LEMMA FreshIsKept ==
    ASSUME NEW rule \in Rules, NEW p \in Periods, NEW day \in Nat \ {0}, NEW d \in Nat, d >= day
    PROVE  ~Outdated(rule, p, day, d)
<1>1. /\ RetentionDate(rule, p, day) \in Int
      /\ InEffect(rule, p, day) => RetentionDate(rule, p, day) <= day
  BY RetentionDateIs
<1> QED
  BY <1>1 DEF Outdated

-----------------------------------------------------------------------------
(***************************************************************************)
(* The calendar: Sundays and firsts of month between two days.             *)
(***************************************************************************)
LEMMA DaysAreFinite ==
    ASSUME NEW S \in SUBSET Nat, NEW b \in Nat, \A d \in S : d <= b
    PROVE  IsFiniteSet(S) /\ Cardinality(S) \in Nat
BY FS_BoundedSetOfNaturals, FS_CardinalityType

\* In less than n weeks there are not more than n Sundays.
LEMMA FewSundays ==
    ASSUME NEW day \in Sundays, NEW n \in Nat
    PROVE  Cardinality({d \in Sundays : day - 7 * n + 1 <= d /\ d <= day}) <= n
<1> DEFINE S == {d \in Sundays : day - 7 * n + 1 <= d /\ d <= day}
           week == [d \in S |-> (day - d) \div 7]
<1>1. day \in Nat /\ S \in SUBSET Nat
  BY CalendarAssumption
<1>2. ASSUME NEW d \in S
      PROVE  (day - d) \div 7 \in 0 .. (n - 1) /\ day - d = 7 * ((day - d) \div 7)
  <2>1. d \in Nat \ {0} /\ day - 7 * n + 1 <= d /\ d <= day /\ d \in 1 .. day
    BY <1>1, CalendarAssumption
  <2>2. (day - d) % 7 = 0
    BY <1>1, <2>1, SundayAssumption
  <2> QED
    BY <1>1, <2>1, <2>2
<1>3. week \in Injection(S, 0 .. (n - 1))
  <2>1. week \in [S -> 0 .. (n - 1)]
    BY <1>2
  <2>2. ASSUME NEW c \in S, NEW d \in S, week[c] = week[d]
        PROVE  c = d
    <3>1. (day - c) \div 7 = (day - d) \div 7
      BY <2>2
    <3>2. day - c = day - d
      BY <1>2, <3>1
    <3> QED
      BY <1>1, <3>2
  <2> QED
    BY <2>1, <2>2 DEF Injection, IsInjective
<1>4. IsFiniteSet(0 .. (n - 1)) /\ Cardinality(0 .. (n - 1)) = n
  BY FS_Interval
<1> HIDE DEF S, week
<1>5. Cardinality(S) <= n
  BY <1>3, <1>4, FS_Injection
<1> QED
  BY <1>5 DEF S

\* In n weeks there are at least n.
LEMMA ManySundays ==
    ASSUME NEW day \in Sundays, NEW n \in Nat, NEW d \in Nat \ {0}, d <= day - 7 * n
    PROVE  Cardinality({e \in Sundays : d < e /\ e <= day}) >= n
<1> DEFINE S == {e \in Sundays : d < e /\ e <= day}
           sunday == [i \in 0 .. (n - 1) |-> day - 7 * i]
<1>1. day \in Nat /\ S \in SUBSET Nat /\ \A e \in S : e <= day
  BY CalendarAssumption
<1>2. ASSUME NEW i \in 0 .. (n - 1)
      PROVE  day - 7 * i \in S
  <2>1. i \in Nat /\ i <= n - 1
    OBVIOUS
  <2>2. d < day - 7 * i /\ day - 7 * i <= day /\ day - 7 * i \in 1 .. day
    BY <1>1, <2>1
  <2>3. (day - (day - 7 * i)) % 7 = 0
    BY <1>1, <2>1
  <2>4. day - 7 * i \in Sundays
    <3>1. CASE i = 0
      BY <1>1, <3>1
    <3>2. CASE i # 0
      <4>1. day - 7 * i < day
        BY <1>1, <2>1, <3>2
      <4> QED
        BY <2>2, <2>3, <4>1, SundayAssumption
    <3> QED
      BY <3>1, <3>2
  <2> QED
    BY <2>2, <2>4
<1>3. sunday \in Injection(0 .. (n - 1), S)
  <2>1. sunday \in [0 .. (n - 1) -> S]
    BY <1>2
  <2>2. ASSUME NEW i \in 0 .. (n - 1), NEW j \in 0 .. (n - 1), sunday[i] = sunday[j]
        PROVE  i = j
    BY <1>1, <2>2
  <2> QED
    BY <2>1, <2>2 DEF Injection, IsInjective
<1>4. IsFiniteSet(0 .. (n - 1)) /\ Cardinality(0 .. (n - 1)) = n
  <2>1. 0 \in Int /\ n - 1 \in Int /\ (IF 0 > n - 1 THEN 0 ELSE n - 1 - 0 + 1) = n
    OBVIOUS
  <2> QED
    BY <2>1, FS_Interval, Zenon
<1>5. IsFiniteSet(S) /\ Cardinality(S) \in Nat
  BY <1>1, DaysAreFinite
<1> HIDE DEF S, sunday
<1>6. Cardinality(0 .. (n - 1)) <= Cardinality(S)
  BY <1>3, <1>5, FS_Injection
<1>7. Cardinality(S) >= n
  BY <1>4, <1>5, <1>6
<1> QED
  BY <1>7 DEF S

LEMMA FirstsType ==
    ASSUME NEW m, NEW day \in Nat
    PROVE  /\ Firsts(m, day) \in SUBSET Nat
           /\ IsFiniteSet(Firsts(m, day)) /\ Cardinality(Firsts(m, day)) \in Nat
<1>0. \A d \in FirstDays : d \in Nat
  BY CalendarAssumption
<1>1. Firsts(m, day) \in SUBSET Nat /\ \A d \in Firsts(m, day) : d <= day
  BY <1>0 DEF Firsts
<1> QED
  BY <1>1, DaysAreFinite

\* From one first of month to another there are as many with the last as there
\* are with the first.
LEMMA FirstsAfter ==
    ASSUME NEW day \in FirstDays, NEW m \in FirstDays, m < day
    PROVE  Cardinality({d \in FirstDays : m < d /\ d <= day}) = Cardinality(Firsts(m, day))
<1> DEFINE S == {d \in FirstDays : m < d /\ d <= day}
<1>1. (\A d \in FirstDays : d \in Nat) /\ day \in Nat /\ m \in Nat
  BY CalendarAssumption
<1>2. S = (Firsts(m, day) \ {m}) \cup {day}
  <2>1. \A d \in FirstDays : (m < d /\ d <= day) <=> ((m <= d /\ d < day /\ d # m) \/ d = day)
    BY <1>1
  <2> QED
    BY <2>1 DEF Firsts
<1>3. IsFiniteSet(Firsts(m, day)) /\ Cardinality(Firsts(m, day)) \in Nat /\ m \in Firsts(m, day)
  BY <1>1, FirstsType DEF Firsts
<1>4. IsFiniteSet(Firsts(m, day) \ {m}) /\ Cardinality(Firsts(m, day) \ {m}) = Cardinality(Firsts(m, day)) - 1
  BY <1>3, FS_RemoveElement
<1>5. day \notin Firsts(m, day) \ {m}
  BY <1>1 DEF Firsts
<1>6. Cardinality((Firsts(m, day) \ {m}) \cup {day}) = Cardinality(Firsts(m, day) \ {m}) + 1
  BY <1>4, <1>5, FS_AddElement
<1> HIDE DEF S
<1>7. Cardinality(S) = Cardinality(Firsts(m, day))
  BY <1>2, <1>3, <1>4, <1>6
<1> QED
  BY <1>7 DEF S

\* With k firsts of month or more before a day there is one that is k months
\* back.
LEMMA FirstIsFound ==
    ASSUME NEW day \in Nat, NEW k \in Nat \ {0}, Cardinality(Firsts(1, day)) >= k
    PROVE  \E m \in FirstDays : m < day /\ Cardinality(Firsts(m, day)) = k
<1> DEFINE X == {x \in Firsts(1, day) : Cardinality(Firsts(x, day)) >= k}
<1>0. \A d \in FirstDays : d \in Nat /\ d > 0
  BY CalendarAssumption
<1>1. X # {}
  <2>1. Firsts(1, day) # {} /\ Firsts(1, day) \in SUBSET Nat
    BY FirstsType, FS_EmptySet
  <2>2. PICK x \in Firsts(1, day) : \A y \in Firsts(1, day) : x <= y
    BY <2>1, LeastExists
  <2>3. Firsts(x, day) = Firsts(1, day)
    BY <1>0, <2>2 DEF Firsts
  <2> QED
    BY <2>2, <2>3
<1>2. X \in SUBSET Nat /\ \A x \in X : x <= day
  BY <1>0 DEF Firsts
<1>3. PICK m \in X : \A x \in X : x <= m
  BY <1>1, <1>2, GreatestExists
<1>4. m \in FirstDays /\ m \in Nat /\ m < day /\ m \in Firsts(m, day) /\ Cardinality(Firsts(m, day)) >= k
  BY <1>0, <1>3 DEF Firsts
<1> HIDE DEF X
<1>5. ASSUME Cardinality(Firsts(m, day)) # k
      PROVE  FALSE
  <2> DEFINE later == Firsts(m, day) \ {m}
  <2>1. IsFiniteSet(Firsts(m, day)) /\ Cardinality(Firsts(m, day)) \in Nat
    BY FirstsType
  <2>2. IsFiniteSet(later) /\ Cardinality(later) = Cardinality(Firsts(m, day)) - 1
    BY <1>4, <2>1, FS_RemoveElement
  <2>3. Cardinality(later) >= k
    BY <1>4, <1>5, <2>1, <2>2
  <2>4. later # {} /\ later \in SUBSET Nat
    BY <2>3, FS_EmptySet, FirstsType
  <2>5. PICK y \in later : \A z \in later : y <= z
    BY <2>4, LeastExists
  <2>6. Firsts(y, day) = later
    <3>1. y \in FirstDays /\ m <= y /\ y # m
      BY <2>5 DEF Firsts
    <3>2. \A d \in FirstDays : y <= d => m <= d /\ d # m
      BY <1>0, <1>4, <3>1
    <3>3. \A d \in FirstDays : m <= d /\ d < day /\ d # m => y <= d
      BY <2>5 DEF Firsts
    <3>4. \A d \in FirstDays : (y <= d /\ d < day) <=> (m <= d /\ d < day /\ d # m)
      BY <3>2, <3>3
    <3> QED
      BY <3>4 DEF Firsts
  <2>7. y \in X /\ y > m
    <3>1. y \in Firsts(1, day) /\ y > m
      BY <1>0, <1>4, <2>5 DEF Firsts
    <3> QED
      BY <2>3, <2>6, <3>1 DEF X
  <2>8. y \in Nat
    BY <2>4, <2>5
  <2> QED
    BY <1>3, <1>4, <2>7, <2>8
<1> QED
  BY <1>4, <1>5

\* No more than k firsts of month are left by the date of k months ago.
LEMMA FewFirsts ==
    ASSUME NEW day \in FirstDays, NEW k \in Nat \ {0}
    PROVE  Cardinality({d \in FirstDays : MonthsBack(day, k) + 1 <= d /\ d <= day}) <= k
<1> DEFINE S == {d \in FirstDays : MonthsBack(day, k) + 1 <= d /\ d <= day}
<1>0. (\A d \in FirstDays : d \in Nat /\ d > 0) /\ day \in Nat \ {0}
  BY CalendarAssumption
<1>1. CASE /\ MonthsBack(day, k) = 0
           /\ \A m \in FirstDays : m < day => Cardinality(Firsts(m, day)) # k
  <2>1. ~(Cardinality(Firsts(1, day)) >= k)
    BY <1>0, <1>1, FirstIsFound
  <2>2. IsFiniteSet(Firsts(1, day)) /\ Cardinality(Firsts(1, day)) \in Nat /\ day \notin Firsts(1, day)
    BY <1>0, FirstsType DEF Firsts
  <2>3. S = Firsts(1, day) \cup {day}
    <3>1. \A d \in FirstDays : (0 + 1 <= d /\ d <= day) <=> ((1 <= d /\ d < day) \/ d = day)
      BY <1>0
    <3> QED
      BY <1>1, <3>1 DEF Firsts
  <2>4. Cardinality(Firsts(1, day) \cup {day}) = Cardinality(Firsts(1, day)) + 1
    BY <2>2, FS_AddElement
  <2> HIDE DEF S
  <2>5. Cardinality(S) <= k
    BY <2>1, <2>2, <2>3, <2>4
  <2> QED
    BY <2>5 DEF S
<1>2. CASE /\ MonthsBack(day, k) \in FirstDays
           /\ MonthsBack(day, k) < day
           /\ Cardinality(Firsts(MonthsBack(day, k), day)) = k
  <2>1. PICK m \in FirstDays : m = MonthsBack(day, k)
    BY <1>2
  <2>2. S = {d \in FirstDays : m < d /\ d <= day}
    <3>1. \A d \in FirstDays : m + 1 <= d <=> m < d
      BY <1>0
    <3> QED
      BY <2>1, <3>1
  <2>3. Cardinality({d \in FirstDays : m < d /\ d <= day}) = k
    BY <1>2, <2>1, FirstsAfter
  <2> HIDE DEF S
  <2>4. Cardinality(S) <= k
    BY <2>2, <2>3
  <2> QED
    BY <2>4 DEF S
<1>3. k \in Nat
  OBVIOUS
<1> QED
  BY <1>0, <1>1, <1>2, <1>3, MonthsBackIs

\* And at least k have come since.
LEMMA ManyFirsts ==
    ASSUME NEW day \in FirstDays, NEW k \in Nat, NEW d \in Nat \ {0}, d < MonthsBack(day, k) + 1
    PROVE  Cardinality({e \in FirstDays : d < e /\ e <= day}) >= k
<1> DEFINE S == {e \in FirstDays : d < e /\ e <= day}
<1>0. (\A f \in FirstDays : f \in Nat /\ f > 0) /\ day \in Nat \ {0}
  BY CalendarAssumption
<1>1. MonthsBack(day, k) # 0
  OBVIOUS
<1>2. /\ MonthsBack(day, k) \in FirstDays
      /\ MonthsBack(day, k) < day
      /\ Cardinality(Firsts(MonthsBack(day, k), day)) = k
  BY <1>0, <1>1, MonthsBackIs
<1>3. PICK m \in FirstDays : m = MonthsBack(day, k)
  BY <1>2
<1>4. Cardinality({e \in FirstDays : m < e /\ e <= day}) = k
  BY <1>2, <1>3, FirstsAfter
<1>5. {e \in FirstDays : m < e /\ e <= day} \subseteq S
  <2>1. d <= m
    BY <1>0, <1>3
  <2>2. \A e \in FirstDays : m < e => d < e
    BY <1>0, <2>1
  <2> QED
    BY <2>2
<1>6. S \in SUBSET Nat /\ \A e \in S : e <= day
  BY <1>0
<1>7. IsFiniteSet(S) /\ Cardinality(S) \in Nat
  BY <1>0, <1>6, DaysAreFinite
<1> HIDE DEF S
<1>8. Cardinality(S) >= k
  BY <1>4, <1>5, <1>7, FS_Subset
<1> QED
  BY <1>8 DEF S

\* What a rotation by date finds outdated is so many days, Sundays or firsts of
\* month old.
LEMMA TermIsOver ==
    ASSUME NEW r \in Rules, NEW p \in Periods, NEW day \in Nat \ {0}, NEW d \in Nat \ {0},
           p = "weekly" => day \in Sundays, p = "monthly" => day \in FirstDays,
           d < RetentionDate(r, p, day)
    PROVE  /\ p = "daily"   => day - d >= r.days
           /\ p = "weekly"  => Cardinality({e \in Sundays : d < e /\ e <= day}) >= r.weeks
           /\ p = "monthly" => Cardinality({e \in FirstDays : d < e /\ e <= day}) >= r.months
<1>1. r.days \in Nat /\ r.weeks \in Nat /\ r.months \in Nat
  BY DEF Rules
<1>2. ASSUME p = "daily"
      PROVE  day - d >= r.days
  <2>1. d < day - r.days + 1
    BY <1>2 DEF RetentionDate
  <2> QED
    BY <1>1, <2>1
<1>3. ASSUME p = "weekly"
      PROVE  Cardinality({e \in Sundays : d < e /\ e <= day}) >= r.weeks
  <2>1. d < day - 7 * r.weeks + 1 /\ day \in Sundays
    BY <1>3 DEF RetentionDate
  <2>2. d <= day - 7 * r.weeks
    BY <1>1, <2>1
  <2> QED
    BY <1>1, <2>1, <2>2, ManySundays
<1>4. ASSUME p = "monthly"
      PROVE  Cardinality({e \in FirstDays : d < e /\ e <= day}) >= r.months
  <2>1. d < MonthsBack(day, r.months) + 1 /\ day \in FirstDays
    BY <1>4 DEF RetentionDate
  <2> QED
    BY <1>1, <2>1, ManyFirsts
<1> QED
  BY <1>2, <1>3, <1>4

-----------------------------------------------------------------------------
\* What DeliverBackup may return; the members of the sets below are outcomes.
Outcomes == [held : Held, src : BOOLEAN, ok : BOOLEAN]

\* copy() leaves no file, a cut one, the old one or a complete one.
LEMMA AfterFailureType ==
    ASSUME NEW kind \in RemoteKinds, NEW srcThere \in BOOLEAN, NEW old \in Contents
    PROVE  AfterFailure(kind, srcThere, old) \subseteq Contents
<1>1. {old, "none", "cut", "archive"} \subseteq Contents
  BY DEF Contents
<1>2. /\ SftpFailure(srcThere, old) \subseteq Contents
      /\ SmbFailure(srcThere, old) \subseteq Contents
      /\ FtpFailure(srcThere, old) \subseteq Contents
      /\ S3Failure(srcThere, old) \subseteq Contents
  BY <1>1 DEF SftpFailure, SmbFailure, FtpFailure, S3Failure, LostAnswer
<1>3. NfsFailure(srcThere, old) \subseteq Contents /\ WebdavFailure(srcThere, old) \subseteq Contents
  BY <1>2 DEF NfsFailure, WebdavFailure
<1> QED
  BY <1>2, <1>3 DEF AfterFailure, RemoteKinds

\* A failed call of a remote DeliverBackup leaves copies of declared types.
LEMMA RemoteFailuresType ==
    ASSUME NEW kind \in RemoteKinds, NEW srcThere \in BOOLEAN, NEW held \in Held,
           NEW due \in SUBSET Periods, NEW day \in Nat
    PROVE  RemoteFailures(kind, srcThere, held, due, day) \subseteq Held
<1>1. ASSUME NEW q \in due, NEW c \in AfterFailure(kind, srcThere, held[q].is)
      PROVE  StoppedAt(q, c, held, due, day) \in Held
  <2>1. held[q] \in Slot /\ held[q].is \in Contents
    BY DEF Held, Slot
  <2>2. c \in Contents
    BY <2>1, AfterFailureType
  <2>3. File("archive", day) \in Slot
    BY FileType DEF Contents
  <2>4. Replaced(held[q], c, day) \in Slot
    BY <2>1, <2>2, FileType DEF Replaced
  <2>5. \A p \in Periods : held[p] \in Slot
    BY DEF Held, Slot
  <2> QED
    BY <2>3, <2>4, <2>5 DEF StoppedAt, Held, Slot
<1> QED
  BY <1>1 DEF RemoteFailures

\* A remote storage never touches the temporary archive; a call that returns
\* nil has put the archive into every due directory and left the others.
LEMMA RemoteDeliveryDoes ==
    ASSUME NEW kind \in RemoteKinds, NEW srcThere \in BOOLEAN, NEW held \in Held,
           NEW due \in SUBSET Periods, NEW day \in Nat,
           NEW o \in RemoteDelivery(kind, srcThere, held, due, day)
    PROVE  /\ o \in Outcomes
           /\ o.src = srcThere
           /\ o.ok => \A p \in due : Holds(o.held, p)
<1>1. Uploaded(held, due, day) \in Held
  <2>1. File("archive", day) \in Slot
    BY FileType DEF Contents
  <2> QED
    BY <2>1 DEF Uploaded, Held, Slot
<1>2. CASE o = [held |-> Uploaded(held, due, day), src |-> srcThere, ok |-> TRUE]
  <2>1. ASSUME NEW p \in due
        PROVE  Uploaded(held, due, day)[p].is = "archive"
    BY FileType DEF Uploaded, Contents
  <2> QED
    BY <1>1, <1>2, <2>1 DEF Outcomes, Holds
<1>3. CASE \E h \in RemoteFailures(kind, srcThere, held, due, day) :
              o = [held |-> h, src |-> srcThere, ok |-> FALSE]
  BY <1>3, RemoteFailuresType DEF Outcomes
<1> QED
  BY <1>2, <1>3 DEF RemoteDelivery

-----------------------------------------------------------------------------
\* The file os.Create writes lies in the same directory or in an earlier one.
LEMMA BehindIsEarlier ==
    ASSUME NEW held \in Held, NEW p \in Periods
    PROVE  /\ Behind(held, p) \in Periods
           /\ Behind(held, p) # p => held[p].is = "link" /\ Before(Behind(held, p), p)
<1> DEFINE written == {q \in Periods : Before(q, p) /\ held[q].is \in {"archive", "cut"}}
<1>1. CASE held[p].is = "link" /\ written # {}
  <2>1. Behind(held, p) = First(written)
    BY <1>1 DEF Behind
  <2>2. First(written) \in written
    BY <1>1, FirstOfDue
  <2> QED
    BY <1>1, <2>1, <2>2
<1>2. CASE ~(held[p].is = "link" /\ written # {})
  BY <1>2 DEF Behind
<1> QED
  BY <1>1, <1>2

\* Making the links changes the directories in rest only.  It returns nil
\* only with all of them made; if there are none, it does not fail.
LEMMA WithLinksDoes ==
    ASSUME NEW held \in Held, NEW srcThere \in BOOLEAN, NEW rest \in SUBSET Periods,
           NEW day \in Nat, NEW o \in WithLinks(held, srcThere, rest, day)
    PROVE  /\ o \in Outcomes
           /\ o.src = srcThere
           /\ \A p \in Periods \ rest : o.held[p] = held[p]
           /\ \A p \in Periods : o.held[p] \in {held[p], NoFile, File("link", day)}
           /\ o.ok => \A p \in rest : o.held[p].is = "link"
           /\ ~o.ok => rest # {}
<1>1. File("link", day) \in Slot /\ NoFile \in Slot /\ File("link", day).is = "link"
  BY FileType DEF Contents, NoFile
<1>2. ASSUME NEW links, NEW bad, NEW removed
      PROVE  /\ Linked(held, links, bad, removed, day) \in Held
             /\ \A p \in Periods : Linked(held, links, bad, removed, day)[p]
                                     \in {held[p], NoFile, File("link", day)}
  <2>1. \A p \in Periods : held[p] \in Slot
    BY DEF Held, Slot
  <2> QED
    BY <1>1, <2>1 DEF Linked, Held, Slot
<1>3. CASE o = [held |-> Linked(held, rest, {}, FALSE, day), src |-> srcThere, ok |-> TRUE]
  <2>1. \A p \in rest : Linked(held, rest, {}, FALSE, day)[p].is = "link"
    BY <1>1 DEF Linked
  <2>2. \A p \in Periods \ rest : Linked(held, rest, {}, FALSE, day)[p] = held[p]
    BY DEF Linked
  <2> QED
    BY <1>2, <1>3, <2>1, <2>2 DEF Outcomes
<1>4. ASSUME NEW links \in SUBSET rest, NEW bad \in rest, NEW removed \in BOOLEAN,
             o = [held |-> Linked(held, links, {bad}, removed, day), src |-> srcThere, ok |-> FALSE]
      PROVE  /\ o \in Outcomes /\ o.src = srcThere /\ ~o.ok
             /\ \A p \in Periods \ rest : o.held[p] = held[p]
             /\ \A p \in Periods : o.held[p] \in {held[p], NoFile, File("link", day)}
  <2>1. \A p \in Periods \ rest : Linked(held, links, {bad}, removed, day)[p] = held[p]
    BY DEF Linked
  <2> QED
    BY <1>2, <1>4, <2>1 DEF Outcomes
<1>5. \/ o = [held |-> Linked(held, rest, {}, FALSE, day), src |-> srcThere, ok |-> TRUE]
      \/ \E x \in [links : SUBSET rest, bad : rest, removed : BOOLEAN] :
            o = [held |-> Linked(held, x.links, {x.bad}, x.removed, day),
                 src |-> srcThere, ok |-> FALSE]
  BY DEF WithLinks
<1> QED
  BY <1>3, <1>4, <1>5

\* A file put into one period's directory.
LEMMA PutType ==
    ASSUME NEW held \in Held, NEW p \in Periods, NEW c \in Contents, NEW d \in Nat
    PROVE  /\ Put(held, p, c, d) \in Held
           /\ Put(held, p, c, d)[p].is = c
           /\ \A q \in Periods \ {p} : Put(held, p, c, d)[q] = held[q]
BY FileType DEF Put, Held, Slot

\* The links after the archive has been moved into the first due directory.
LEMMA MovedAndLinked ==
    ASSUME NEW held \in Held, NEW due \in SUBSET Periods, NEW top \in due,
           \A q \in due \ {top} : Before(top, q), held[top].is = "archive",
           NEW day \in Nat, NEW o \in WithLinks(held, FALSE, due \ {top}, day)
    PROVE  /\ o \in Outcomes /\ ~o.src
           /\ HoldsAny(o.held)
           /\ o.ok => \A p \in due : Holds(o.held, p)
           /\ (\A p, q \in due : p = q) => o.ok
<1> DEFINE rest == due \ {top}
<1>0. rest \in SUBSET Periods /\ FALSE \in BOOLEAN /\ o \in WithLinks(held, FALSE, rest, day)
  OBVIOUS
<1> HIDE DEF rest
<1>1. /\ o \in Outcomes
      /\ o.src = FALSE
      /\ \A p \in Periods \ rest : o.held[p] = held[p]
      /\ \A p \in Periods : o.held[p] \in {held[p], NoFile, File("link", day)}
      /\ o.ok => \A p \in rest : o.held[p].is = "link"
      /\ ~o.ok => rest # {}
  BY <1>0, WithLinksDoes, Zenon
<1> USE DEF rest
<1>5. o.held[top].is = "archive"
  BY <1>1
<1>6. HoldsAny(o.held)
  BY <1>5 DEF HoldsAny, Holds
<1>7. ASSUME o.ok, NEW p \in due
      PROVE  Holds(o.held, p)
  BY <1>1, <1>5, <1>7 DEF Holds
<1> QED
  BY <1>1, <1>6, <1>7

\* The links after the archive has been copied to b, behind the first due
\* directory.
LEMMA CopiedAndLinked ==
    ASSUME NEW held \in Held, NEW due \in SUBSET Periods, NEW top \in due, NEW b \in Periods,
           \A q \in due \ {top} : Before(top, q), held[b].is = "archive",
           b # top => held[top].is = "link" /\ Before(b, top),
           NEW day \in Nat, NEW o \in WithLinks(held, TRUE, due \ {top}, day)
    PROVE  /\ o \in Outcomes /\ o.src
           /\ o.ok => \A p \in due : Holds(o.held, p)
<1> DEFINE rest == due \ {top}
<1>0. rest \in SUBSET Periods /\ TRUE \in BOOLEAN /\ o \in WithLinks(held, TRUE, rest, day)
  OBVIOUS
<1> HIDE DEF rest
<1>1. /\ o \in Outcomes
      /\ o.src = TRUE
      /\ \A p \in Periods \ rest : o.held[p] = held[p]
      /\ \A p \in Periods : o.held[p] \in {held[p], NoFile, File("link", day)}
      /\ o.ok => \A p \in rest : o.held[p].is = "link"
      /\ ~o.ok => rest # {}
  BY <1>0, WithLinksDoes, Zenon
<1> USE DEF rest
<1>4. b \notin due \ {top}
  BY BeforeIsOrder
<1>5. o.held[b].is = "archive" /\ (b # top => o.held[top].is = "link")
  BY <1>1, <1>4
<1>6. ASSUME o.ok, NEW p \in due
      PROVE  Holds(o.held, p)
  <2>1. CASE p = top
    BY <1>5, <2>1 DEF Holds
  <2>2. CASE p # top
    <3>1. Before(b, p)
      <4>1. Before(top, p)
        BY <2>2
      <4>2. CASE b = top
        BY <4>1, <4>2
      <4>3. CASE b # top
        BY <4>1, <4>3, BeforeIsOrder
      <4> QED
        BY <4>2, <4>3
    <3> QED
      BY <1>1, <1>5, <1>6, <2>2, <3>1 DEF Holds
  <2> QED
    BY <2>1, <2>2
<1> QED
  BY <1>1, <1>6

\* The attempts of a local storage when some directory is due.
LEMMA LocalOutcomes ==
    ASSUME NEW srcThere, NEW madeOn, NEW held, NEW due, due # {}, NEW day,
           NEW o \in LocalDelivery(srcThere, madeOn, held, due, day)
    PROVE  LET top == First(due)
               b   == Behind(held, First(due))
           IN \/ o = [held |-> held, src |-> srcThere, ok |-> FALSE]
              \/ o = [held |-> Put(held, b, "cut", day), src |-> srcThere, ok |-> FALSE]
              \/ srcThere /\ o \in WithLinks(Put(held, top, "archive", madeOn), FALSE, due \ {top}, day)
              \/ srcThere /\ o \in WithLinks(Put(held, b, "archive", day), TRUE, due \ {top}, day)
BY DEF LocalDelivery, MovedOrCopied

\* A local storage may take the temporary archive only by moving it: then a
\* complete copy is in the first due directory.  A call that returns nil has
\* made every due directory lead to the archive.  A call for one directory
\* never fails after the move.
LEMMA LocalDeliveryDoes ==
    ASSUME NEW srcThere \in BOOLEAN, NEW madeOn \in Nat, NEW held \in Held,
           NEW due \in SUBSET Periods, NEW day \in Nat,
           NEW o \in LocalDelivery(srcThere, madeOn, held, due, day)
    PROVE  /\ o \in Outcomes
           /\ o.src => srcThere
           /\ srcThere /\ ~o.src => HoldsAny(o.held)
           /\ o.ok => \A p \in due : Holds(o.held, p)
           /\ srcThere /\ ~o.src /\ (\A p, q \in due : p = q) => o.ok
<1>1. CASE due = {}
  <2>1. o = [held |-> held, src |-> srcThere, ok |-> TRUE]
    BY <1>1 DEF LocalDelivery
  <2> QED
    BY <1>1, <2>1 DEF Outcomes
<1>2. CASE due # {}
  <2> DEFINE top == First(due)
             b   == Behind(held, top)
             cut    == Put(held, b, "cut", day)
             moved  == Put(held, top, "archive", madeOn)
             copied == Put(held, b, "archive", day)
  <2>1. \/ o = [held |-> held, src |-> srcThere, ok |-> FALSE]
        \/ o = [held |-> cut, src |-> srcThere, ok |-> FALSE]
        \/ srcThere /\ o \in WithLinks(moved, FALSE, due \ {top}, day)
        \/ srcThere /\ o \in WithLinks(copied, TRUE, due \ {top}, day)
    BY <1>2, LocalOutcomes
  <2>2. top \in due /\ \A q \in due \ {top} : Before(top, q)
    BY <1>2, FirstOfDue
  <2> HIDE DEF top
  <2>3. /\ b \in Periods
        /\ b # top => held[top].is = "link" /\ Before(b, top)
    BY <2>2, BehindIsEarlier
  <2> HIDE DEF b
  <2>4. CASE o = [held |-> held, src |-> srcThere, ok |-> FALSE]
    BY <2>4 DEF Outcomes
  <2>5. CASE o = [held |-> cut, src |-> srcThere, ok |-> FALSE]
    <3>1. cut \in Held
      BY <2>3, PutType DEF Contents
    <3> HIDE DEF cut
    <3> QED
      BY <2>5, <3>1 DEF Outcomes
  <2>6. CASE srcThere /\ o \in WithLinks(moved, FALSE, due \ {top}, day)
    <3>1. moved \in Held /\ moved[top].is = "archive"
      BY <2>2, PutType DEF Contents
    <3> HIDE DEF moved
    <3>2. /\ o \in Outcomes /\ ~o.src
          /\ HoldsAny(o.held)
          /\ o.ok => \A p \in due : Holds(o.held, p)
          /\ (\A p, q \in due : p = q) => o.ok
      BY <2>2, <2>6, <3>1, MovedAndLinked, Zenon
    <3> QED
      BY <3>2
  <2>7. CASE srcThere /\ o \in WithLinks(copied, TRUE, due \ {top}, day)
    <3>1. /\ copied \in Held /\ copied[b].is = "archive"
          /\ b # top => copied[top].is = "link" /\ Before(b, top)
      <4>1. /\ copied \in Held /\ copied[b].is = "archive"
            /\ \A q \in Periods \ {b} : copied[q] = held[q]
        BY <2>3, PutType DEF Contents
      <4> HIDE DEF copied
      <4> QED
        BY <2>2, <2>3, <4>1
    <3> HIDE DEF copied
    <3>2. /\ o \in Outcomes /\ o.src
          /\ o.ok => \A p \in due : Holds(o.held, p)
      BY <2>2, <2>3, <2>7, <3>1, CopiedAndLinked, Zenon
    <3> QED
      BY <2>7, <3>2
  <2> QED
    BY <2>1, <2>4, <2>5, <2>6, <2>7
<1> QED
  BY <1>1, <1>2

\* Both kinds of storages together.
LEMMA DeliverBackupDoes ==
    ASSUME NEW kind \in Kinds, NEW srcThere \in BOOLEAN, NEW madeOn \in Nat,
           NEW held \in Held, NEW due \in SUBSET Periods, NEW day \in Nat,
           NEW o \in DeliverBackup(kind, srcThere, madeOn, held, due, day)
    PROVE  /\ o \in Outcomes
           /\ o.src => srcThere
           /\ kind # "local" => o.src = srcThere
           /\ srcThere /\ ~o.src => HoldsAny(o.held)
           /\ o.ok => \A p \in due : Holds(o.held, p)
           /\ srcThere /\ ~o.src /\ (\A p, q \in due : p = q) => o.ok
<1>1. CASE kind = "local"
  BY <1>1, LocalDeliveryDoes DEF DeliverBackup
<1>2. CASE kind # "local"
  BY <1>2, RemoteDeliveryDoes DEF DeliverBackup, Kinds
<1> QED
  BY <1>1, <1>2

-----------------------------------------------------------------------------
\* No copy was last written before the day from.
Recent(held, from) == \A p \in Periods : held[p].is # "none" => held[p].day >= from

\* A new copy is as old as the day it is written, a moved one as the archive.
LEMMA PutIsRecent ==
    ASSUME NEW held \in Held, NEW p \in Periods, NEW c \in Contents,
           NEW from \in Nat, Recent(held, from), NEW d \in Nat, d >= from
    PROVE  Recent(Put(held, p, c, d), from)
BY FileType DEF Put, Recent, Held

LEMMA RemoteIsRecent ==
    ASSUME NEW kind \in RemoteKinds, NEW srcThere \in BOOLEAN, NEW held \in Held,
           NEW due \in SUBSET Periods, NEW day \in Nat,
           NEW from \in Nat, Recent(held, from), day >= from,
           NEW o \in RemoteDelivery(kind, srcThere, held, due, day)
    PROVE  Recent(o.held, from)
<1>1. File("archive", day).day = day
  BY FileType DEF Contents
<1>2. CASE o.held = Uploaded(held, due, day)
  BY <1>1, <1>2 DEF Uploaded, Recent
<1>3. CASE \E q \in due : \E c \in AfterFailure(kind, srcThere, held[q].is) :
              o.held = StoppedAt(q, c, held, due, day)
  <2>1. PICK q \in due, c \in Contents : o.held = StoppedAt(q, c, held, due, day)
    <3>1. PICK q \in due : \E c \in AfterFailure(kind, srcThere, held[q].is) :
                              o.held = StoppedAt(q, c, held, due, day)
      BY <1>3
    <3>2. held[q].is \in Contents
      BY DEF Held
    <3> QED
      BY <3>1, <3>2, AfterFailureType
  <2>2. Replaced(held[q], c, day) = held[q] \/ Replaced(held[q], c, day) = File(c, day)
    BY DEF Replaced
  <2>3. File(c, day).is = c /\ (c # "none" => File(c, day).day = day)
    BY FileType
  <2> QED
    BY <1>1, <2>1, <2>2, <2>3 DEF StoppedAt, Recent
<1>4. CASE o.held = held
  BY <1>4
<1>5. \/ o.held = Uploaded(held, due, day)
      \/ o.held \in RemoteFailures(kind, srcThere, held, due, day)
  BY DEF RemoteDelivery
<1>6. ASSUME o.held \in RemoteFailures(kind, srcThere, held, due, day)
      PROVE  \/ o.held = held
             \/ \E q \in due : \E c \in AfterFailure(kind, srcThere, held[q].is) :
                   o.held = StoppedAt(q, c, held, due, day)
  BY <1>6 DEF RemoteFailures
<1> QED
  BY <1>2, <1>3, <1>4, <1>5, <1>6

LEMMA LocalIsRecent ==
    ASSUME NEW srcThere \in BOOLEAN, NEW madeOn \in Nat, NEW held \in Held,
           NEW due \in SUBSET Periods, NEW day \in Nat,
           NEW from \in Nat, Recent(held, from), day >= from, srcThere => madeOn >= from,
           NEW o \in LocalDelivery(srcThere, madeOn, held, due, day)
    PROVE  Recent(o.held, from)
<1>1. CASE due = {}
  <2>1. o = [held |-> held, src |-> srcThere, ok |-> TRUE]
    BY <1>1 DEF LocalDelivery
  <2> QED
    BY <2>1
<1>2. ASSUME NEW h \in Held, Recent(h, from), NEW there \in BOOLEAN, NEW rest \in SUBSET Periods,
             NEW x \in WithLinks(h, there, rest, day)
      PROVE  Recent(x.held, from)
  <2>1. \A p \in Periods : x.held[p] \in {h[p], NoFile, File("link", day)}
    BY WithLinksDoes, Zenon
  <2>2. File("link", day).day = day /\ NoFile.is = "none"
    BY FileType DEF NoFile, Contents
  <2> QED
    BY <1>2, <2>1, <2>2 DEF Recent
<1>3. CASE due # {}
  <2> DEFINE top == First(due)
             b   == Behind(held, top)
             rest == due \ {top}
             cut    == Put(held, b, "cut", day)
             moved  == Put(held, top, "archive", madeOn)
             copied == Put(held, b, "archive", day)
  <2>1. \/ o = [held |-> held, src |-> srcThere, ok |-> FALSE]
        \/ o = [held |-> cut, src |-> srcThere, ok |-> FALSE]
        \/ srcThere /\ o \in WithLinks(moved, FALSE, rest, day)
        \/ srcThere /\ o \in WithLinks(copied, TRUE, rest, day)
    BY <1>3, LocalOutcomes
  <2>2. top \in Periods /\ b \in Periods
    BY <1>3, FirstOfDue, BehindIsEarlier
  <2>3. rest \in SUBSET Periods /\ TRUE \in BOOLEAN /\ FALSE \in BOOLEAN
    OBVIOUS
  <2> HIDE DEF top, b, rest
  <2>4. Recent(cut, from)
    BY <2>2, PutIsRecent DEF Contents
  <2>5. copied \in Held /\ Recent(copied, from)
    BY <2>2, PutType, PutIsRecent DEF Contents
  <2>6. srcThere => moved \in Held /\ Recent(moved, from)
    BY <2>2, PutType, PutIsRecent DEF Contents
  <2> HIDE DEF cut, moved, copied
  <2>7. CASE srcThere /\ o \in WithLinks(moved, FALSE, rest, day)
    BY <1>2, <2>3, <2>6, <2>7, Zenon
  <2>8. CASE srcThere /\ o \in WithLinks(copied, TRUE, rest, day)
    BY <1>2, <2>3, <2>5, <2>8, Zenon
  <2>9. CASE o = [held |-> held, src |-> srcThere, ok |-> FALSE]
    BY <2>9
  <2>10. CASE o = [held |-> cut, src |-> srcThere, ok |-> FALSE]
    BY <2>4, <2>10
  <2> QED
    BY <2>1, <2>7, <2>8, <2>9, <2>10
<1> QED
  BY <1>1, <1>3

\* No call makes a copy that is older than the archive and the day.
LEMMA DeliverBackupIsRecent ==
    ASSUME NEW kind \in Kinds, NEW srcThere \in BOOLEAN, NEW madeOn \in Nat,
           NEW held \in Held, NEW due \in SUBSET Periods, NEW day \in Nat,
           NEW from \in Nat, Recent(held, from), day >= from, srcThere => madeOn >= from,
           NEW o \in DeliverBackup(kind, srcThere, madeOn, held, due, day)
    PROVE  Recent(o.held, from)
<1>1. CASE kind = "local"
  BY <1>1, LocalIsRecent DEF DeliverBackup
<1>2. CASE kind # "local"
  BY <1>2, RemoteIsRecent DEF DeliverBackup, Kinds
<1> QED
  BY <1>1, <1>2

-----------------------------------------------------------------------------
\* A local storage that has no file of the archive's name.
Empty == [p \in Periods |-> NoFile]

\* The first due directory has the file, or a part of it; the others have
\* links, or nothing.  A success has made them all.  No copy looks older than
\* the archive.
LEMMA FreshDelivery ==
    ASSUME NEW due \in SUBSET Periods, NEW madeOn \in Nat, NEW day \in Nat, madeOn <= day,
           NEW o \in LocalDelivery(TRUE, madeOn, Empty, due, day)
    PROVE  /\ o.ok \in BOOLEAN
           /\ \A p \in Periods : o.held[p] \in Slot /\ (o.held[p].is # "none" => madeOn <= o.held[p].day)
           /\ \A p \in Periods : o.held[p].is = "link" => p \in due \ {First(due)}
           /\ \A p \in Periods \ due : o.held[p].is = "none"
           /\ o.ok => \A p \in due : o.held[p].is = IF p = First(due) THEN "archive" ELSE "link"
<1>1. NoFile \in Slot /\ NoFile.is = "none" /\ File("link", day).is = "link" /\ File("link", day) \in Slot
  BY FileType DEF NoFile, Contents
<1>2. Empty \in Held /\ \A p \in Periods : Empty[p] = NoFile
  BY <1>1 DEF Empty, Held, Slot
<1>3. o \in Outcomes /\ Recent(o.held, madeOn)
  <2>1. Recent(Empty, madeOn)
    BY <1>1, <1>2 DEF Recent
  <2>2. Empty \in Held /\ TRUE \in BOOLEAN /\ day >= madeOn /\ madeOn >= madeOn
    BY <1>2
  <2>3. o \in Outcomes
    BY <2>2, LocalDeliveryDoes, Zenon
  <2>4. Recent(o.held, madeOn)
    BY <2>1, <2>2, LocalIsRecent, Zenon
  <2> QED
    BY <2>3, <2>4
<1>4. /\ o.ok \in BOOLEAN
      /\ \A p \in Periods : o.held[p] \in Slot /\ (o.held[p].is # "none" => madeOn <= o.held[p].day)
  BY <1>3 DEF Outcomes, Held, Slot, Recent
<1>5. CASE due = {}
  <2>1. o = [held |-> Empty, src |-> TRUE, ok |-> TRUE]
    BY <1>5 DEF LocalDelivery
  <2> QED
    BY <1>1, <1>2, <1>4, <1>5, <2>1
<1>6. CASE due # {}
  <2> DEFINE top == First(due)
             cut == Put(Empty, top, "cut", day)
             moved == Put(Empty, top, "archive", madeOn)
             copied == Put(Empty, top, "archive", day)
             others == due \ {top}
             Goal == /\ \A p \in Periods : o.held[p].is = "link" => p \in others
                     /\ \A p \in Periods \ due : o.held[p].is = "none"
                     /\ o.ok => \A p \in due : o.held[p].is = IF p = top THEN "archive" ELSE "link"
  <2>1. top \in due
    BY <1>6, FirstOfDue
  <2> HIDE DEF top
  <2>2. Behind(Empty, top) = top
    BY <1>1, <1>2, <2>1, BehindIsEarlier
  <2>3. ASSUME NEW c \in Contents, NEW d \in Nat
        PROVE  /\ Put(Empty, top, c, d) \in Held /\ Put(Empty, top, c, d)[top].is = c
               /\ \A p \in Periods \ {top} : Put(Empty, top, c, d)[p].is = "none"
    <3>1. top \in Periods
      BY <2>1
    <3> QED
      BY <1>1, <1>2, <3>1, PutType
  <2>4. \/ o = [held |-> Empty, src |-> TRUE, ok |-> FALSE]
        \/ o = [held |-> cut, src |-> TRUE, ok |-> FALSE]
        \/ o \in WithLinks(copied, TRUE, others, day)
        \/ o \in WithLinks(moved, FALSE, others, day)
    BY <1>6, <2>2, LocalOutcomes DEF top
  <2>5. /\ cut \in Held /\ cut[top].is = "cut" /\ \A p \in Periods \ {top} : cut[p].is = "none"
        /\ moved \in Held /\ moved[top].is = "archive" /\ \A p \in Periods \ {top} : moved[p].is = "none"
        /\ copied \in Held /\ copied[top].is = "archive" /\ \A p \in Periods \ {top} : copied[p].is = "none"
    BY <2>3 DEF Contents
  <2> HIDE DEF cut, moved, copied, others
  <2>6. others = due \ {top} /\ others \in SUBSET Periods
    BY DEF others
  <2>7. ASSUME NEW whole \in Held, whole[top].is = "archive", \A p \in Periods \ {top} : whole[p].is = "none",
               NEW there \in BOOLEAN, o \in WithLinks(whole, there, others, day)
        PROVE  Goal
    <3>1. PICK x \in WithLinks(whole, there, others, day) : x = o
      BY <2>7
    <3>2. \A p \in Periods \ others : x.held[p] = whole[p]
      BY <2>6, WithLinksDoes
    <3>3. \A p \in Periods : x.held[p] \in {whole[p], NoFile, File("link", day)}
      BY <2>6, WithLinksDoes
    <3>4. x.ok => \A p \in others : x.held[p].is = "link"
      BY <2>6, WithLinksDoes
    <3> QED
      BY <1>1, <2>1, <2>6, <2>7, <3>1, <3>2, <3>3, <3>4
  <2>8. ASSUME NEW copies \in {Empty, cut}, o = [held |-> copies, src |-> TRUE, ok |-> FALSE]
        PROVE  Goal
    <3>1. \A p \in Periods : copies[p].is \in {"none", "cut"} /\ (p # top => copies[p].is = "none")
      BY <1>1, <1>2, <2>5
    <3> QED
      BY <2>1, <2>8, <3>1
  <2>9. Goal
    BY <2>4, <2>5, <2>7, <2>8, Zenon
  <2> QED
    BY <1>4, <2>9 DEF top, others
<1> QED
  BY <1>5, <1>6
=============================================================================
