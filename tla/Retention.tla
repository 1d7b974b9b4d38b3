------------------------------ MODULE Retention ------------------------------
(***************************************************************************)
(* The retention rules of modules/storage/common.go: on which days a       *)
(* storage receives a copy, into which of its period directories, and      *)
(* which of the files it holds a rotation deletes.                         *)
(*                                                                         *)
(* Days are numbered from 1.  FirstDays and Sundays are the days on which  *)
(* CurrentDayStr() is MonthlyBackupDay ("1") and CurrentDOWStr() is        *)
(* WeeklyBackupDay ("0").                                                  *)
(***************************************************************************)
EXTENDS Integers, FiniteSets

CONSTANTS FirstDays, \* days that are the first of a month
          Sundays    \* days that are a Sunday

ASSUME CalendarAssumption ==
    /\ FirstDays \subseteq Nat \ {0}
    /\ Sundays \subseteq Nat \ {0}

\* Sundays are seven days apart.
ASSUME SundayAssumption ==
    \A d \in Sundays : \A e \in 1 .. d : e \in Sundays <=> (d - e) % 7 = 0

Periods == {"monthly", "weekly", "daily"}

\* RetentionPeriodsList: the order in which the directories are visited.
Before(p, q) ==
    \/ p = "monthly" /\ q # "monthly"
    \/ p = "weekly"  /\ q = "daily"

\* The Retention struct; negative values are refused by jobsInit.
Rules == [days : Nat, weeks : Nat, months : Nat, useCount : BOOLEAN]

RetentionCount(rule, p) ==
    CASE p = "daily"   -> rule.days
      [] p = "weekly"  -> rule.weeks
      [] p = "monthly" -> rule.months

\* The condition GetRetention, IsNeedToBackup, GetBackupDstList and
\* GetBackupDstAndLinks share: period p of the rule is served on this day.
InEffect(rule, p, day) ==
    /\ RetentionCount(rule, p) > 0
    /\ p = "weekly"  => day \in Sundays
    /\ p = "monthly" => day \in FirstDays

IsNeedToBackup(rule, day) == \E p \in Periods : InEffect(rule, p, day)

\* The directories a copy made on this day goes to.
DstList(rule, day) == {p \in Periods : InEffect(rule, p, day)}

\* time.AddDate(0, -k, 0) from a first of month; 0 precedes every modelled day.
MonthsBack(day, k) ==
    LET hits == {f \in FirstDays :
                    f < day /\ Cardinality({g \in FirstDays : f <= g /\ g < day}) = k}
    IN IF hits = {} THEN 0 ELSE CHOOSE f \in hits : TRUE

\* Broken: a day off, either way.
RetentionDateLater(rule, p, day) ==
    CASE p = "daily"   -> day - rule.days + 2
      [] p = "weekly"  -> day - 7 * rule.weeks + 2
      [] p = "monthly" -> MonthsBack(day, rule.months) + 2

RetentionDateEarlier(rule, p, day) ==
    CASE p = "daily"   -> day - rule.days
      [] p = "weekly"  -> day - 7 * rule.weeks
      [] p = "monthly" -> MonthsBack(day, rule.months)

\* The day whose midnight is retentionDate: older files are outdated.
RetentionDate(rule, p, day) ==
    CASE p = "daily"   -> day - rule.days + 1
      [] p = "weekly"  -> day - 7 * rule.weeks + 1
      [] p = "monthly" -> MonthsBack(day, rule.months) + 1

\* The date branch of DGetRotatedObjects for one file last written on day d.
Outdated(rule, p, day, d) ==
    /\ InEffect(rule, p, day)
    /\ ~rule.useCount
    /\ d < RetentionDate(rule, p, day)

\* Broken: no room for the next copy; the order reversed.
SurplusWithoutRoom(rule, p, safe, objects) ==
    {f \in objects : Cardinality({g \in objects : g.at > f.at}) >= RetentionCount(rule, p)}

SurplusOfNewest(rule, p, safe, objects) ==
    LET keep == IF safe THEN RetentionCount(rule, p) ELSE RetentionCount(rule, p) - 1
    IN {f \in objects : Cardinality({g \in objects : g.at < f.at}) >= keep}

\* The count branch: with the files in the order of their modification times
\* (field at), all but the last ones; unsafe rotation makes room for one more.
Surplus(rule, p, safe, objects) ==
    LET keep == IF safe THEN RetentionCount(rule, p) ELSE RetentionCount(rule, p) - 1
    IN {f \in objects : Cardinality({g \in objects : g.at > f.at}) >= keep}

\* DGetRotatedObjects, and the check of GetRetention's result around it.  Its
\* filter lets only names pass that end in .tar or .tar.gz, and the copies of
\* one target all end alike: tar says whether in one of these.
RotatedObjects(rule, p, day, safe, tar, objects) ==
    IF ~tar \/ ~InEffect(rule, p, day) THEN {}
    ELSE IF rule.useCount THEN Surplus(rule, p, safe, objects)
    ELSE {f \in objects : Outdated(rule, p, day, f.day)}
=============================================================================
