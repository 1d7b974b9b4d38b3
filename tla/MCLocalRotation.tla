--------------------------- MODULE MCLocalRotation ---------------------------
(***************************************************************************)
(* Instances of LocalRotation for TLC: a calendar of ten days with two     *)
(* Sundays that are firsts of month, and one with a month of thirty days.  *)
(***************************************************************************)
EXTENDS LocalRotation, TLC

Dates(d, w, m) == [days |-> d, weeks |-> w, months |-> m, useCount |-> FALSE]
Counts(d, w, m) == [days |-> d, weeks |-> w, months |-> m, useCount |-> TRUE]

MCTenDays == {2, 9}
MCThirtyDays == {1, 31}
MCFiveSundays == {1, 8, 15, 22, 29}

MCLateRules == {Dates(9, 1, 1), Counts(1, 0, 2)}
MCRules ==
    {Dates(9, 3, 1), Dates(3, 3, 1), Dates(9, 0, 1), Dates(9, 1, 0), Dates(8, 1, 2), Counts(2, 1, 1)}
        \cup MCLateRules
MCFiveWeeks == {Dates(7, 5, 1)}

\* Midnight falls into runs with some of the rules, and without failures.
LateOrFailing == late => rule \in MCLateRules /\ faults = 0
=============================================================================
