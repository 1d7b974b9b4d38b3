-------------------------- MODULE MCStorageRotation --------------------------
(***************************************************************************)
(* Instances of StorageRotation for TLC.  Its calendar has Sundays seven   *)
(* days apart and three firsts of month, one of them a Sunday.             *)
(***************************************************************************)
EXTENDS StorageRotation, TLC

Dates(d, w, m) == [days |-> d, weeks |-> w, months |-> m, useCount |-> FALSE]
Counts(d, w, m) == [days |-> d, weeks |-> w, months |-> m, useCount |-> TRUE]

MCFirstDays == {2, 8, 12}
MCSundays == {1, 8}

MCRules == {Dates(2, 1, 1), Dates(0, 1, 2), Counts(2, 1, 1), Counts(1, 1, 2)}
MCFileServerAndS3 == {"nfs", "s3"}
=============================================================================
