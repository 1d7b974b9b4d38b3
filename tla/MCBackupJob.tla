---------------------------- MODULE MCBackupJob ----------------------------
(***************************************************************************)
(* Instances of BackupJob for TLC.  Day 8 is a Sunday and the first of a   *)
(* month, day 9 an ordinary one, as is day 7.                              *)
(***************************************************************************)
EXTENDS BackupJob, TLC

CONSTANTS local, remote, t1, t2

MCFirstDays == {8}
MCSundays == {1, 8}

Rule(d, w, m) == [days |-> d, weeks |-> w, months |-> m, useCount |-> FALSE]

MCTargets1 == {t1}
MCTargets2 == {t1, t2}

MCMixed == {local, remote}
MCLocalAndSftp == [s \in {local, remote} |-> IF s = local THEN "local" ELSE "sftp"]
MCLocalAndFtp == [s \in {local, remote} |-> IF s = local THEN "local" ELSE "ftp"]
MCLocalAndSmb == [s \in {local, remote} |-> IF s = local THEN "local" ELSE "smb"]

MCDailyOrWeekly == {Rule(2, 0, 0), Rule(0, 1, 0)}
MCDailyAndWeekly == {Rule(2, 1, 0)}
MCTwoPeriods == {Rule(0, 1, 1), Rule(2, 0, 0)}
MCEve == {7}
MCFirstSunday == {8}
=============================================================================
