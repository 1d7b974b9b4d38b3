------------------------------- MODULE Delivery -------------------------------
(***************************************************************************)
(* What one call of DeliverBackup does on each kind of storage: the copies *)
(* it leaves in the period directories and whether the temporary archive   *)
(* is still there afterwards.  A call that fails stops half-way: the       *)
(* operators give the set of everything it may leave behind.               *)
(*                                                                         *)
(* The copies of one target on one storage are a function from Periods:    *)
(*   none     no file                  cut   a file that was not written   *)
(*   archive  a complete copy                to its end                    *)
(*   link     a symlink to the copy in an earlier period's directory       *)
(* with the day of their modification time (0 when there is none).         *)
(***************************************************************************)
EXTENDS Retention

Contents == {"none", "cut", "archive", "link"}
RemoteKinds == {"sftp", "ftp", "nfs", "smb", "webdav", "s3"}
Kinds == RemoteKinds \cup {"local"}

File(c, day) == [is |-> c, day |-> IF c = "none" THEN 0 ELSE day]
NoFile == File("none", 0)
Held == [Periods -> [is : Contents, day : Nat]]

\* Reading period p yields the complete archive.
Holds(held, p) ==
    \/ held[p].is = "archive"
    \/ held[p].is = "link" /\ \E q \in Periods : Before(q, p) /\ held[q].is = "archive"

HoldsAny(held) == \E p \in Periods : Holds(held, p)

(***************************************************************************)
(* Remote storages: copy() for every due period, the first error ends it.  *)
(***************************************************************************)
\* What copy() leaves in the place of the old file when it returns an error.
\* sftp removes the destination and creates it before it opens the source,
\* smb creates it; ftp, nfs and webdav open the source first; s3 puts an
\* object in one piece.  A lost answer makes a failure of a complete copy.
LostAnswer(srcThere) == IF srcThere THEN {"archive"} ELSE {}

SftpFailure(srcThere, old) == {old, "none", "cut"} \cup LostAnswer(srcThere)
SmbFailure(srcThere, old) == {old, "cut"} \cup LostAnswer(srcThere)
FtpFailure(srcThere, old) == {old} \cup (IF srcThere THEN {"cut", "archive"} ELSE {})
NfsFailure(srcThere, old) == FtpFailure(srcThere, old)
WebdavFailure(srcThere, old) == FtpFailure(srcThere, old)
S3Failure(srcThere, old) == {old} \cup LostAnswer(srcThere)

AfterFailure(kind, srcThere, old) ==
    CASE kind = "sftp"   -> SftpFailure(srcThere, old)
      [] kind = "smb"    -> SmbFailure(srcThere, old)
      [] kind = "ftp"    -> FtpFailure(srcThere, old)
      [] kind = "nfs"    -> NfsFailure(srcThere, old)
      [] kind = "webdav" -> WebdavFailure(srcThere, old)
      [] kind = "s3"     -> S3Failure(srcThere, old)

Replaced(old, c, day) == IF c = old.is THEN old ELSE File(c, day)

\* The copy into q fails with c in its place, those before q are complete.
StoppedAt(q, c, held, due, day) ==
    [p \in Periods |->
        IF p \in due /\ Before(p, q) THEN File("archive", day)
        ELSE IF p = q THEN Replaced(held[q], c, day) ELSE held[p]]

RemoteFailures(kind, srcThere, held, due, day) ==
    (IF kind = "s3" THEN {held} ELSE {})
    \cup UNION {{StoppedAt(q, c, held, due, day) : c \in AfterFailure(kind, srcThere, held[q].is)} :
                   q \in {q \in due : srcThere \/ \A p \in due : ~Before(p, q)}}

Uploaded(held, due, day) ==
    [p \in Periods |-> IF p \in due THEN File("archive", day) ELSE held[p]]

RemoteDelivery(kind, srcThere, held, due, day) ==
    (IF srcThere \/ (due = {} /\ kind # "s3")
     THEN {[held |-> Uploaded(held, due, day), src |-> srcThere, ok |-> TRUE]}
     ELSE {})
    \cup {[held |-> h, src |-> srcThere, ok |-> FALSE] :
             h \in RemoteFailures(kind, srcThere, held, due, day)}

(***************************************************************************)
(* Local storage: the archive moves to the first due period, symlinks go   *)
(* to the others.  When rename fails (another file system, or no archive)  *)
(* the destination is created and the archive copied into it.              *)
(***************************************************************************)
\* The links that were made, and the one that failed: its old file is
\* there still or already removed.  No link fails when bad is empty.
Linked(held, links, bad, removed, day) ==
    [p \in Periods |->
        IF p \in links THEN File("link", day)
        ELSE IF p \in bad /\ removed THEN NoFile ELSE held[p]]

WithLinks(held, srcThere, rest, day) ==
    {[held |-> Linked(held, rest, {}, FALSE, day), src |-> srcThere, ok |-> TRUE]}
    \cup {[held |-> Linked(held, x.links, {x.bad}, x.removed, day), src |-> srcThere, ok |-> FALSE] :
             x \in {y \in [links : SUBSET rest, bad : rest, removed : BOOLEAN] : y.bad \notin y.links}}

\* GetBackupDstAndLinks: the first due period holds the file.
First(due) == CHOOSE p \in due : \A q \in due \ {p} : Before(p, q)

\* os.Create follows a symlink that an earlier attempt has left there.
Behind(held, p) ==
    LET files == {q \in Periods : Before(q, p) /\ held[q].is \in {"archive", "cut"}}
    IN IF held[p].is = "link" /\ files # {} THEN First(files) ELSE p

Put(held, p, c, day) == [held EXCEPT ![p] = File(c, day)]

MovedOrCopied(madeOn, held, top, rest, day) ==
    WithLinks(Put(held, top, "archive", madeOn), FALSE, rest, day)
    \cup WithLinks(Put(held, Behind(held, top), "archive", day), TRUE, rest, day)

LocalDelivery(srcThere, madeOn, held, due, day) ==
    IF due = {} THEN {[held |-> held, src |-> srcThere, ok |-> TRUE]}
    ELSE {[held |-> held, src |-> srcThere, ok |-> FALSE],
          [held |-> Put(held, Behind(held, First(due)), "cut", day), src |-> srcThere, ok |-> FALSE]}
         \cup (IF srcThere THEN MovedOrCopied(madeOn, held, First(due), due \ {First(due)}, day)
                           ELSE {})

\* One call of DeliverBackup: the copies it leaves, whether the temporary
\* archive remains, and whether it returned nil.
DeliverBackup(kind, srcThere, madeOn, held, due, day) ==
    IF kind = "local" THEN LocalDelivery(srcThere, madeOn, held, due, day)
                      ELSE RemoteDelivery(kind, srcThere, held, due, day)
=============================================================================
