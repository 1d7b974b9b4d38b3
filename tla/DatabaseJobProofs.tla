-------------------------- MODULE DatabaseJobProofs --------------------------
(***************************************************************************)
(* Proofs about DatabaseJob, for all databases, tables, configurations and *)
(* numbers of failing steps.                                               *)
(*                                                                         *)
(* createTmpBackup is a list of steps, and what makes it right is their    *)
(* order: Ordered says which step must have, or must not have, which later *)
(* ones, and holds of every suffix of the list.  The rest of the inductive *)
(* invariant speaks of the steps still ahead as a set: what the archive of *)
(* the current target holds once no step writes it any more (Completeness),*)
(* who still removes a dump (Dumps), a file with a password (Secrets), or  *)
(* starts a replica (Replication).                                         *)
(***************************************************************************)
EXTENDS DatabaseJob, TLAPS, SequenceTheorems

\* What is in a sequence: the steps ahead, the calls deferred.
Rest(s) == {s[i] : i \in 1 .. Len(s)}

Dumpers == {"mongodump", "dump to directory"}
Packers == {"Tar", "GZip"}
Writers == Packers \cup {"dump to archive"}

\* Step x may come before the later ones.
Fits(x, later) ==
    /\ x = "GetGZipFileWriter" => later \cap Writers # {}
    /\ x \in Packers => later \cap Dumpers = {}
    /\ x = "RemoveAll" => later \cap Packers = {}
    /\ x = "dump to directory" => "RemoveAll" \in later
    /\ x = "mongodump" => "defer RemoveAll" \notin later
    /\ x = "register" => later \cap {"dump to directory", "RemoveAll"} = {}

Ordered(s) == \A i \in 1 .. Len(s) : Fits(s[i], {s[j] : j \in (i + 1) .. Len(s)})

Ahead == Rest(steps)
Undone == Rest(defers)

\* What Init makes of the configuration.
Rightful ==
    /\ \A n \in DOMAIN targets :
          /\ job.type \in DatabaseTypes => n \notin job.excludes
          /\ targets[n] \subseteq {n} \X Tables
          /\ job.type \in DatabaseTypes \cup {"mysql_xtrabackup"} => targets[n] \cap job.excludes = {}
    /\ job.type = "external" => \A m, n \in DOMAIN targets : m = n

\* Where the job is tells what is still to come.
Course ==
    /\ pc # "run" => steps = <<>> /\ defers = <<>>
    /\ pc = "init" => DOMAIN targets = {}
    /\ pc \in {"deliverAll", "cleanup", "done"} /\ ~errs => undumped = {}
    /\ Ordered(steps)
    /\ Ahead \cap {"mongodump", "defer RemoveAll"} # {} => job.type = "mongodb"
    /\ Ahead \cap {"dump to directory", "GZip", "RemoveAll"} # {} => job.type # "mongodb"
    /\ "RemoveAll" \in Undone => job.type = "mongodb"
    /\ "mongodump" \in Ahead => "defer RemoveAll" \in Ahead \/ "RemoveAll" \in Undone

Secrets == \A n \in auth : n \in Ignored("auth") \/ (n = cur /\ "DeleteTmpMysqlAuthFile" \in Undone)

Replication == replica = "stopped" => Ignored("replica") # {} \/ "START SLAVE" \in Undone

\* The dumps that are not packed yet.
Dumps ==
    /\ \A n \in Names : raw[n] # None =>
          /\ n \in DOMAIN targets \ undumped /\ raw[n] \subseteq targets[n]
          /\ n \in dumped => n \in Ignored("raw")
          /\ n = cur => n \in Ignored("raw") \/ failing \/ "RemoveAll" \in Ahead
    /\ raw[None] # None /\ Ignored("raw") = {} =>
          job.type = "mongodb" /\ "RemoveAll" \in Undone /\ raw[None] \subseteq targets[cur]

\* A target whose dump is still to be made, or removed, is not registered.
Unregistered ==
    Ahead # {} =>
        /\ ~failing
        /\ Ahead \cap {"dump to directory", "RemoveAll"} # {} => cur \notin dumped

\* The archives and what the storage has of them.
Copies ==
    \A n \in Names :
        /\ archive[n] # None =>
              /\ n \in DOMAIN targets \ undumped
              /\ Ignored("raw") = {} => archive[n] \subseteq targets[n]
              /\ n \in dumped \/ n = cur \/ errs
        /\ stored[n] # None =>
              /\ n \in dumped
              /\ Ignored("raw") = {} => stored[n] \subseteq targets[n]
        /\ pc = "done" /\ ~errs /\ n \in dumped => archive[n] = None

\* File c holds all of target n, as far as the job can tell.
Whole(n, c) == c # None /\ (targets[n] \subseteq c \/ n \in Ignored("write"))

\* The target in work: its archive is whole when no step is ahead that writes
\* it; its dump is whole when none is ahead that dumps.
Progress ==
    pc = "run" /\ ~failing =>
        /\ Ahead \cap Writers = {} => Whole(cur, archive[cur])
        /\ Ahead \cap Packers # {} /\ Ahead \cap Dumpers = {} =>
              /\ targets[cur] \subseteq Held
              /\ "GZip" \in Ahead => raw[Dir(cur)] # None
        /\ job.type \in {"redis", "external"} /\ "register" \notin Ahead => cur \in dumped

\* The targets the loop is done with.
Completeness ==
    ~errs =>
        /\ \A n \in DOMAIN targets \ undumped :
              n # cur => n \in dumped /\ (pc # "done" => Whole(n, archive[n]))
        /\ \A n \in Names :
              /\ stored[n] # None => Whole(n, stored[n])
              /\ pc \in {"cleanup", "done"} /\ n \in dumped => stored[n] # None

IInv ==
    /\ TypeOK /\ Rightful /\ Course
    /\ Secrets /\ Replication
    /\ Dumps /\ Unregistered /\ Copies
    /\ Progress /\ Completeness

-----------------------------------------------------------------------------
(***************************************************************************)
(* Sequences of steps and their sets.                                      *)
(***************************************************************************)
LEMMA RestOfEmpty == ASSUME NEW s, s = <<>> PROVE Rest(s) = {} /\ Ordered(s)
<1>1. 1 .. Len(s) = {}
  OBVIOUS
<1> QED
  BY <1>1 DEF Rest, Ordered

LEMMA RestOfTail ==
    ASSUME NEW S, NEW s \in Seq(S), s # <<>>
    PROVE  /\ Head(s) \in S /\ Tail(s) \in Seq(S)
           /\ Rest(s) = {Head(s)} \cup Rest(Tail(s))
<1>1. /\ Len(s) \in Nat \ {0} /\ Head(s) = s[1] /\ Tail(s) \in Seq(S)
      /\ Len(Tail(s)) = Len(s) - 1
      /\ \A i \in 1 .. Len(Tail(s)) : Tail(s)[i] = s[i + 1]
  OBVIOUS
<1>2. Head(s) \in S
  BY <1>1
<1>3. ASSUME NEW i \in 1 .. Len(s), i # 1
      PROVE  i - 1 \in 1 .. Len(Tail(s)) /\ s[i] = Tail(s)[i - 1]
  <2>1. i - 1 \in 1 .. Len(Tail(s)) /\ (i - 1) + 1 = i
    BY <1>1, <1>3
  <2> QED
    BY <1>1, <2>1
<1>4. \A i \in 1 .. Len(Tail(s)) : i + 1 \in 1 .. Len(s)
  BY <1>1
<1>5. Rest(s) \subseteq {Head(s)} \cup Rest(Tail(s))
  BY <1>1, <1>3 DEF Rest
<1>6. Rest(Tail(s)) \subseteq Rest(s)
  BY <1>1, <1>4 DEF Rest
<1>7. Head(s) \in Rest(s)
  BY <1>1 DEF Rest
<1> QED
  BY <1>1, <1>2, <1>5, <1>6, <1>7

LEMMA RestOfCons ==
    ASSUME NEW S, NEW s \in Seq(S), NEW x \in S
    PROVE  /\ <<x>> \o s \in Seq(S) /\ <<x>> \o s # <<>>
           /\ Head(<<x>> \o s) = x /\ Tail(<<x>> \o s) = s
           /\ Rest(<<x>> \o s) = {x} \cup Rest(s)
<1>1. /\ <<x>> \in Seq(S) /\ Len(<<x>>) = 1 /\ <<x>>[1] = x
  OBVIOUS
<1>2. /\ <<x>> \o s \in Seq(S)
      /\ Len(<<x>> \o s) = 1 + Len(s)
      /\ \A i \in 1 .. 1 + Len(s) :
            (<<x>> \o s)[i] = IF i <= 1 THEN <<x>>[i] ELSE s[i - 1]
  BY <1>1, ConcatProperties
<1>3. Len(s) \in Nat
  OBVIOUS
<1>4. <<x>> \o s # <<>>
  BY <1>2, <1>3
<1>5. Head(<<x>> \o s) = x
  BY <1>1, <1>2, <1>3, <1>4
<1>6. Tail(<<x>> \o s) = s
  <2> DEFINE t == <<x>> \o s
  <2>1. t \in Seq(S) /\ t # <<>>
    BY <1>2, <1>4
  <2>2. Tail(t) \in Seq(S) /\ Len(Tail(t)) = Len(s)
        /\ \A i \in 1 .. Len(s) : Tail(t)[i] = t[i + 1]
    <3>1. Len(t) = 1 + Len(s)
      BY <1>2
    <3> HIDE DEF t
    <3>2. Len(Tail(t)) = Len(t) - 1 /\ Tail(t) \in Seq(S)
          /\ \A i \in 1 .. Len(Tail(t)) : Tail(t)[i] = t[i + 1]
      BY <2>1
    <3> QED
      BY <3>1, <3>2, <1>3
  <2>3. \A i \in 1 .. Len(s) : t[i + 1] = s[i]
    BY <1>2, <1>3
  <2> HIDE DEF t
  <2>4. Tail(t) = s
    BY <2>2, <2>3, SeqEqual
  <2> QED
    BY <2>4 DEF t
<1>7. Rest(<<x>> \o s) = {x} \cup Rest(s)
  BY <1>2, <1>4, <1>5, <1>6, RestOfTail
<1> QED
  BY <1>2, <1>4, <1>5, <1>6, <1>7

\* What is ahead of the first step, and the order of the others.
LEMMA OrderOfTail ==
    ASSUME NEW S, NEW s \in Seq(S), s # <<>>, Ordered(s)
    PROVE  Fits(Head(s), Rest(Tail(s))) /\ Ordered(Tail(s))
<1>1. /\ Len(s) \in Nat \ {0} /\ Head(s) = s[1]
      /\ Len(Tail(s)) = Len(s) - 1
      /\ \A i \in 1 .. Len(Tail(s)) : Tail(s)[i] = s[i + 1]
  OBVIOUS
<1>2. ASSUME NEW i \in 0 .. Len(Tail(s))
      PROVE  {s[j] : j \in (i + 2) .. Len(s)} = {Tail(s)[j] : j \in (i + 1) .. Len(Tail(s))}
  <2>1. ASSUME NEW j \in (i + 2) .. Len(s)
        PROVE  j - 1 \in (i + 1) .. Len(Tail(s)) /\ s[j] = Tail(s)[j - 1]
    <3>1. j - 1 \in (i + 1) .. Len(Tail(s)) /\ (j - 1) + 1 = j /\ j - 1 \in 1 .. Len(Tail(s))
      BY <1>1
    <3> QED
      BY <1>1, <3>1
  <2>2. ASSUME NEW j \in (i + 1) .. Len(Tail(s))
        PROVE  j + 1 \in (i + 2) .. Len(s) /\ s[j + 1] = Tail(s)[j]
    BY <1>1
  <2>3. {s[j] : j \in (i + 2) .. Len(s)} \subseteq {Tail(s)[j] : j \in (i + 1) .. Len(Tail(s))}
    BY <2>1
  <2>4. {Tail(s)[j] : j \in (i + 1) .. Len(Tail(s))} \subseteq {s[j] : j \in (i + 2) .. Len(s)}
    BY <2>2
  <2> QED
    BY <2>3, <2>4
<1>3. Fits(Head(s), Rest(Tail(s)))
  <2>1. {s[j] : j \in (0 + 2) .. Len(s)} = {Tail(s)[j] : j \in (0 + 1) .. Len(Tail(s))}
    BY <1>1, <1>2
  <2>2. Fits(s[1], {s[j] : j \in (1 + 1) .. Len(s)})
    BY <1>1 DEF Ordered
  <2>3. {s[j] : j \in (1 + 1) .. Len(s)} = Rest(Tail(s))
    BY <2>1 DEF Rest
  <2> QED
    BY <1>1, <2>2, <2>3
<1>4. ASSUME NEW i \in 1 .. Len(Tail(s))
      PROVE  Fits(Tail(s)[i], {Tail(s)[j] : j \in (i + 1) .. Len(Tail(s))})
  <2>1. i + 1 \in 1 .. Len(s) /\ (i + 1) + 1 = i + 2 /\ Tail(s)[i] = s[i + 1] /\ i \in 0 .. Len(Tail(s))
    BY <1>1
  <2>2. Fits(s[i + 1], {s[j] : j \in ((i + 1) + 1) .. Len(s)})
    BY <2>1 DEF Ordered
  <2>3. {s[j] : j \in ((i + 1) + 1) .. Len(s)} = {Tail(s)[j] : j \in (i + 1) .. Len(Tail(s))}
    BY <1>2, <2>1
  <2> QED
    BY <2>1, <2>2, <2>3
<1> QED
  BY <1>3, <1>4 DEF Ordered

LEMMA OrderOfCons ==
    ASSUME NEW S, NEW s \in Seq(S), NEW x \in S, Ordered(s), Fits(x, Rest(s))
    PROVE  Ordered(<<x>> \o s)
<1> DEFINE t == <<x>> \o s
<1>1. /\ t \in Seq(S) /\ t # <<>> /\ Head(t) = x /\ Tail(t) = s
  BY RestOfCons
<1> HIDE DEF t
<1>2. /\ Len(t) \in Nat \ {0} /\ t[1] = x
      /\ Len(s) = Len(t) - 1
      /\ \A i \in 1 .. Len(s) : s[i] = t[i + 1]
  BY <1>1
<1>3. ASSUME NEW i \in 1 .. Len(t)
      PROVE  {t[j] : j \in (i + 1) .. Len(t)} = {s[j] : j \in i .. Len(s)}
  <2>1. ASSUME NEW j \in (i + 1) .. Len(t)
        PROVE  j - 1 \in i .. Len(s) /\ t[j] = s[j - 1]
    <3>1. j - 1 \in i .. Len(s) /\ (j - 1) + 1 = j /\ j - 1 \in 1 .. Len(s)
      BY <1>2
    <3> QED
      BY <1>2, <3>1
  <2>2. ASSUME NEW j \in i .. Len(s)
        PROVE  j + 1 \in (i + 1) .. Len(t) /\ t[j + 1] = s[j]
    BY <1>2
  <2>3. {t[j] : j \in (i + 1) .. Len(t)} \subseteq {s[j] : j \in i .. Len(s)}
    BY <2>1
  <2>4. {s[j] : j \in i .. Len(s)} \subseteq {t[j] : j \in (i + 1) .. Len(t)}
    BY <2>2
  <2> QED
    BY <2>3, <2>4
<1>4. ASSUME NEW i \in 1 .. Len(t)
      PROVE  Fits(t[i], {t[j] : j \in (i + 1) .. Len(t)})
  <2>1. CASE i = 1
    <3>1. {t[j] : j \in (i + 1) .. Len(t)} = Rest(s)
      BY <1>3, <2>1 DEF Rest
    <3> QED
      BY <1>2, <2>1, <3>1
  <2>2. CASE i # 1
    <3>1. i - 1 \in 1 .. Len(s) /\ (i - 1) + 1 = i
      BY <1>2, <2>2
    <3>2. t[i] = s[i - 1]
      BY <1>2, <3>1
    <3>3. Fits(s[i - 1], {s[j] : j \in ((i - 1) + 1) .. Len(s)})
      BY <3>1 DEF Ordered
    <3>4. Fits(s[i - 1], {s[j] : j \in i .. Len(s)})
      BY <3>1, <3>3
    <3> QED
      BY <1>3, <3>2, <3>4
  <2> QED
    BY <2>1, <2>2
<1> QED
  BY <1>4 DEF Ordered, t

-----------------------------------------------------------------------------
(***************************************************************************)
(* The lists of steps, written out: JoinMN joins one of M and one of N     *)
(* steps, ListN is the order of a list of N steps.                         *)
(***************************************************************************)
LEMMA Joined ==
    ASSUME NEW S, NEW s \in Seq(S), NEW t \in Seq(S), NEW u \in Seq(S),
           Len(u) = Len(s) + Len(t),
           \A i \in 1 .. Len(s) : u[i] = s[i],
           \A i \in 1 .. Len(t) : u[Len(s) + i] = t[i]
    PROVE  s \o t = u
<1>1. /\ s \o t \in Seq(S) /\ Len(s \o t) = Len(s) + Len(t)
      /\ \A i \in 1 .. Len(s) + Len(t) :
            (s \o t)[i] = IF i <= Len(s) THEN s[i] ELSE t[i - Len(s)]
  BY ConcatProperties
<1>2. Len(s) \in Nat /\ Len(t) \in Nat
  OBVIOUS
<1>3. ASSUME NEW i \in 1 .. Len(u)
      PROVE  (s \o t)[i] = u[i]
  <2>1. CASE i <= Len(s)
    BY <1>1, <1>2, <2>1
  <2>2. CASE ~(i <= Len(s))
    <3>1. i - Len(s) \in 1 .. Len(t) /\ Len(s) + (i - Len(s)) = i
      BY <1>2, <2>2
    <3>2. u[i] = t[i - Len(s)]
      BY <3>1
    <3> QED
      BY <1>1, <2>2, <3>2
  <2> QED
    BY <2>1, <2>2
<1> DEFINE j == s \o t
<1>4. j \in Seq(S) /\ Len(j) = Len(u) /\ \A i \in 1 .. Len(j) : j[i] = u[i]
  BY <1>1, <1>3
<1> HIDE DEF j
<1>5. j = u
  BY <1>4, SeqEqual
<1> QED
  BY <1>5 DEF j

LEMMA Join10 ==
    ASSUME NEW a
    PROVE  <<a>> \o <<>> = <<a>>
<1> DEFINE S == {a}
<1>1. <<a>> \in Seq(S) /\ <<>> \in Seq(S) /\ <<a>> \in Seq(S)
  OBVIOUS
<1>2. Len(<<a>>) = Len(<<a>>) + Len(<<>>)
  OBVIOUS
<1>3. \A i \in 1 .. Len(<<a>>) : <<a>>[i] = <<a>>[i]
  OBVIOUS
<1>4. \A i \in 1 .. Len(<<>>) : <<a>>[Len(<<a>>) + i] = <<>>[i]
  OBVIOUS
<1> HIDE DEF S
<1> QED
  BY <1>1, <1>2, <1>3, <1>4, Joined, Zenon

LEMMA Join20 ==
    ASSUME NEW a, NEW b
    PROVE  <<a, b>> \o <<>> = <<a, b>>
<1> DEFINE S == {a, b}
<1>1. <<a, b>> \in Seq(S) /\ <<>> \in Seq(S) /\ <<a, b>> \in Seq(S)
  OBVIOUS
<1>2. Len(<<a, b>>) = Len(<<a, b>>) + Len(<<>>)
  OBVIOUS
<1>3. \A i \in 1 .. Len(<<a, b>>) : <<a, b>>[i] = <<a, b>>[i]
  OBVIOUS
<1>4. \A i \in 1 .. Len(<<>>) : <<a, b>>[Len(<<a, b>>) + i] = <<>>[i]
  OBVIOUS
<1> HIDE DEF S
<1> QED
  BY <1>1, <1>2, <1>3, <1>4, Joined, Zenon

LEMMA Join11 ==
    ASSUME NEW a, NEW b
    PROVE  <<a>> \o <<b>> = <<a, b>>
<1> DEFINE S == {a, b}
<1>1. <<a>> \in Seq(S) /\ <<b>> \in Seq(S) /\ <<a, b>> \in Seq(S)
  OBVIOUS
<1>2. Len(<<a, b>>) = Len(<<a>>) + Len(<<b>>)
  OBVIOUS
<1>3. \A i \in 1 .. Len(<<a>>) : <<a, b>>[i] = <<a>>[i]
  OBVIOUS
<1>4. \A i \in 1 .. Len(<<b>>) : <<a, b>>[Len(<<a>>) + i] = <<b>>[i]
  OBVIOUS
<1> HIDE DEF S
<1> QED
  BY <1>1, <1>2, <1>3, <1>4, Joined, Zenon

LEMMA Join12 ==
    ASSUME NEW a, NEW b, NEW c
    PROVE  <<a>> \o <<b, c>> = <<a, b, c>>
<1> DEFINE S == {a, b, c}
<1>1. <<a>> \in Seq(S) /\ <<b, c>> \in Seq(S) /\ <<a, b, c>> \in Seq(S)
  OBVIOUS
<1>2. Len(<<a, b, c>>) = Len(<<a>>) + Len(<<b, c>>)
  OBVIOUS
<1>3. \A i \in 1 .. Len(<<a>>) : <<a, b, c>>[i] = <<a>>[i]
  OBVIOUS
<1>4. \A i \in 1 .. Len(<<b, c>>) : <<a, b, c>>[Len(<<a>>) + i] = <<b, c>>[i]
  OBVIOUS
<1> HIDE DEF S
<1> QED
  BY <1>1, <1>2, <1>3, <1>4, Joined, Zenon

LEMMA Join13 ==
    ASSUME NEW a, NEW b, NEW c, NEW d
    PROVE  <<a>> \o <<b, c, d>> = <<a, b, c, d>>
<1> DEFINE S == {a, b, c, d}
<1>1. <<a>> \in Seq(S) /\ <<b, c, d>> \in Seq(S) /\ <<a, b, c, d>> \in Seq(S)
  OBVIOUS
<1>2. Len(<<a, b, c, d>>) = Len(<<a>>) + Len(<<b, c, d>>)
  OBVIOUS
<1>3. \A i \in 1 .. Len(<<a>>) : <<a, b, c, d>>[i] = <<a>>[i]
  OBVIOUS
<1>4. \A i \in 1 .. Len(<<b, c, d>>) : <<a, b, c, d>>[Len(<<a>>) + i] = <<b, c, d>>[i]
  OBVIOUS
<1> HIDE DEF S
<1> QED
  BY <1>1, <1>2, <1>3, <1>4, Joined, Zenon

LEMMA Join14 ==
    ASSUME NEW a, NEW b, NEW c, NEW d, NEW e
    PROVE  <<a>> \o <<b, c, d, e>> = <<a, b, c, d, e>>
<1> DEFINE S == {a, b, c, d, e}
<1>1. <<a>> \in Seq(S) /\ <<b, c, d, e>> \in Seq(S) /\ <<a, b, c, d, e>> \in Seq(S)
  OBVIOUS
<1>2. Len(<<a, b, c, d, e>>) = Len(<<a>>) + Len(<<b, c, d, e>>)
  OBVIOUS
<1>3. \A i \in 1 .. Len(<<a>>) : <<a, b, c, d, e>>[i] = <<a>>[i]
  OBVIOUS
<1>4. \A i \in 1 .. Len(<<b, c, d, e>>) : <<a, b, c, d, e>>[Len(<<a>>) + i] = <<b, c, d, e>>[i]
  OBVIOUS
<1> HIDE DEF S
<1> QED
  BY <1>1, <1>2, <1>3, <1>4, Joined, Zenon

LEMMA Join15 ==
    ASSUME NEW a, NEW b, NEW c, NEW d, NEW e, NEW f
    PROVE  <<a>> \o <<b, c, d, e, f>> = <<a, b, c, d, e, f>>
<1> DEFINE S == {a, b, c, d, e, f}
<1>1. <<a>> \in Seq(S) /\ <<b, c, d, e, f>> \in Seq(S) /\ <<a, b, c, d, e, f>> \in Seq(S)
  OBVIOUS
<1>2. Len(<<a, b, c, d, e, f>>) = Len(<<a>>) + Len(<<b, c, d, e, f>>)
  OBVIOUS
<1>3. \A i \in 1 .. Len(<<a>>) : <<a, b, c, d, e, f>>[i] = <<a>>[i]
  OBVIOUS
<1>4. \A i \in 1 .. Len(<<b, c, d, e, f>>) : <<a, b, c, d, e, f>>[Len(<<a>>) + i] = <<b, c, d, e, f>>[i]
  OBVIOUS
<1> HIDE DEF S
<1> QED
  BY <1>1, <1>2, <1>3, <1>4, Joined, Zenon

LEMMA Join21 ==
    ASSUME NEW a, NEW b, NEW c
    PROVE  <<a, b>> \o <<c>> = <<a, b, c>>
<1> DEFINE S == {a, b, c}
<1>1. <<a, b>> \in Seq(S) /\ <<c>> \in Seq(S) /\ <<a, b, c>> \in Seq(S)
  OBVIOUS
<1>2. Len(<<a, b, c>>) = Len(<<a, b>>) + Len(<<c>>)
  OBVIOUS
<1>3. \A i \in 1 .. Len(<<a, b>>) : <<a, b, c>>[i] = <<a, b>>[i]
  OBVIOUS
<1>4. \A i \in 1 .. Len(<<c>>) : <<a, b, c>>[Len(<<a, b>>) + i] = <<c>>[i]
  OBVIOUS
<1> HIDE DEF S
<1> QED
  BY <1>1, <1>2, <1>3, <1>4, Joined, Zenon

LEMMA Join22 ==
    ASSUME NEW a, NEW b, NEW c, NEW d
    PROVE  <<a, b>> \o <<c, d>> = <<a, b, c, d>>
<1> DEFINE S == {a, b, c, d}
<1>1. <<a, b>> \in Seq(S) /\ <<c, d>> \in Seq(S) /\ <<a, b, c, d>> \in Seq(S)
  OBVIOUS
<1>2. Len(<<a, b, c, d>>) = Len(<<a, b>>) + Len(<<c, d>>)
  OBVIOUS
<1>3. \A i \in 1 .. Len(<<a, b>>) : <<a, b, c, d>>[i] = <<a, b>>[i]
  OBVIOUS
<1>4. \A i \in 1 .. Len(<<c, d>>) : <<a, b, c, d>>[Len(<<a, b>>) + i] = <<c, d>>[i]
  OBVIOUS
<1> HIDE DEF S
<1> QED
  BY <1>1, <1>2, <1>3, <1>4, Joined, Zenon

LEMMA Join31 ==
    ASSUME NEW a, NEW b, NEW c, NEW d
    PROVE  <<a, b, c>> \o <<d>> = <<a, b, c, d>>
<1> DEFINE S == {a, b, c, d}
<1>1. <<a, b, c>> \in Seq(S) /\ <<d>> \in Seq(S) /\ <<a, b, c, d>> \in Seq(S)
  OBVIOUS
<1>2. Len(<<a, b, c, d>>) = Len(<<a, b, c>>) + Len(<<d>>)
  OBVIOUS
<1>3. \A i \in 1 .. Len(<<a, b, c>>) : <<a, b, c, d>>[i] = <<a, b, c>>[i]
  OBVIOUS
<1>4. \A i \in 1 .. Len(<<d>>) : <<a, b, c, d>>[Len(<<a, b, c>>) + i] = <<d>>[i]
  OBVIOUS
<1> HIDE DEF S
<1> QED
  BY <1>1, <1>2, <1>3, <1>4, Joined, Zenon

LEMMA Join32 ==
    ASSUME NEW a, NEW b, NEW c, NEW d, NEW e
    PROVE  <<a, b, c>> \o <<d, e>> = <<a, b, c, d, e>>
<1> DEFINE S == {a, b, c, d, e}
<1>1. <<a, b, c>> \in Seq(S) /\ <<d, e>> \in Seq(S) /\ <<a, b, c, d, e>> \in Seq(S)
  OBVIOUS
<1>2. Len(<<a, b, c, d, e>>) = Len(<<a, b, c>>) + Len(<<d, e>>)
  OBVIOUS
<1>3. \A i \in 1 .. Len(<<a, b, c>>) : <<a, b, c, d, e>>[i] = <<a, b, c>>[i]
  OBVIOUS
<1>4. \A i \in 1 .. Len(<<d, e>>) : <<a, b, c, d, e>>[Len(<<a, b, c>>) + i] = <<d, e>>[i]
  OBVIOUS
<1> HIDE DEF S
<1> QED
  BY <1>1, <1>2, <1>3, <1>4, Joined, Zenon

LEMMA Join42 ==
    ASSUME NEW a, NEW b, NEW c, NEW d, NEW e, NEW f
    PROVE  <<a, b, c, d>> \o <<e, f>> = <<a, b, c, d, e, f>>
<1> DEFINE S == {a, b, c, d, e, f}
<1>1. <<a, b, c, d>> \in Seq(S) /\ <<e, f>> \in Seq(S) /\ <<a, b, c, d, e, f>> \in Seq(S)
  OBVIOUS
<1>2. Len(<<a, b, c, d, e, f>>) = Len(<<a, b, c, d>>) + Len(<<e, f>>)
  OBVIOUS
<1>3. \A i \in 1 .. Len(<<a, b, c, d>>) : <<a, b, c, d, e, f>>[i] = <<a, b, c, d>>[i]
  OBVIOUS
<1>4. \A i \in 1 .. Len(<<e, f>>) : <<a, b, c, d, e, f>>[Len(<<a, b, c, d>>) + i] = <<e, f>>[i]
  OBVIOUS
<1> HIDE DEF S
<1> QED
  BY <1>1, <1>2, <1>3, <1>4, Joined, Zenon

LEMMA List1 ==
    ASSUME NEW a,
           Fits(a, {})
    PROVE  /\ Rest(<<a>>) = {a} /\ Ordered(<<a>>)
           /\ \A T : a \in T => <<a>> \in Seq(T)
<1> DEFINE S == {a}
<1>1. a \in S /\ <<>> \in Seq(S) /\ <<a>> \o <<>> = <<a>>
  BY ConcatEmptySeq, <<a>> \in Seq(S)
<1>2. Rest(<<>>) = {} /\ Ordered(<<>>)
  BY RestOfEmpty
<1>3. Fits(a, Rest(<<>>))
  BY <1>2, Zenon
<1>4. Rest(<<a>> \o <<>>) = {a} \cup Rest(<<>>)
  BY <1>1, RestOfCons, Zenon
<1>5. Ordered(<<a>> \o <<>>)
  BY <1>1, <1>2, <1>3, OrderOfCons, Zenon
<1>6. Rest(<<a>>) = {a} \cup {} /\ Ordered(<<a>>)
  BY <1>1, <1>2, <1>4, <1>5, Zenon
<1>7. \A T : a \in T => <<a>> \in Seq(T)
  OBVIOUS
<1> QED
  BY <1>6, <1>7

LEMMA List2 ==
    ASSUME NEW a, NEW b,
           Fits(a, {b}), Fits(b, {})
    PROVE  /\ Rest(<<a, b>>) = {a, b} /\ Ordered(<<a, b>>)
           /\ \A T : a \in T /\ b \in T => <<a, b>> \in Seq(T)
<1> DEFINE S == {a, b}
<1>1. a \in S /\ <<b>> \in Seq(S) /\ <<a>> \o <<b>> = <<a, b>>
  BY Join11
<1>2. Rest(<<b>>) = {b} /\ Ordered(<<b>>)
  BY List1
<1>3. Rest(<<a, b>>) = {a} \cup {b} /\ Ordered(<<a, b>>)
  BY <1>1, <1>2, RestOfCons, OrderOfCons, Zenon
<1>4. \A T : a \in T /\ b \in T => <<a, b>> \in Seq(T)
  OBVIOUS
<1> QED
  BY <1>3, <1>4, Zenon

LEMMA List3 ==
    ASSUME NEW a, NEW b, NEW c,
           Fits(a, {b, c}), Fits(b, {c}), Fits(c, {})
    PROVE  /\ Rest(<<a, b, c>>) = {a, b, c} /\ Ordered(<<a, b, c>>)
           /\ \A T : a \in T /\ b \in T /\ c \in T => <<a, b, c>> \in Seq(T)
<1> DEFINE S == {a, b, c}
<1>1. a \in S /\ <<b, c>> \in Seq(S) /\ <<a>> \o <<b, c>> = <<a, b, c>>
  BY Join12
<1>2. Rest(<<b, c>>) = {b, c} /\ Ordered(<<b, c>>)
  BY List2
<1>3. Rest(<<a, b, c>>) = {a} \cup {b, c} /\ Ordered(<<a, b, c>>)
  BY <1>1, <1>2, RestOfCons, OrderOfCons, Zenon
<1>4. \A T : a \in T /\ b \in T /\ c \in T => <<a, b, c>> \in Seq(T)
  OBVIOUS
<1> QED
  BY <1>3, <1>4, Zenon

LEMMA List4 ==
    ASSUME NEW a, NEW b, NEW c, NEW d,
           Fits(a, {b, c, d}), Fits(b, {c, d}), Fits(c, {d}), Fits(d, {})
    PROVE  /\ Rest(<<a, b, c, d>>) = {a, b, c, d} /\ Ordered(<<a, b, c, d>>)
           /\ \A T : a \in T /\ b \in T /\ c \in T /\ d \in T => <<a, b, c, d>> \in Seq(T)
<1> DEFINE S == {a, b, c, d}
<1>1. a \in S /\ <<b, c, d>> \in Seq(S) /\ <<a>> \o <<b, c, d>> = <<a, b, c, d>>
  BY Join13
<1>2. Rest(<<b, c, d>>) = {b, c, d} /\ Ordered(<<b, c, d>>)
  BY List3
<1>3. Rest(<<a, b, c, d>>) = {a} \cup {b, c, d} /\ Ordered(<<a, b, c, d>>)
  BY <1>1, <1>2, RestOfCons, OrderOfCons, Zenon
<1>4. \A T : a \in T /\ b \in T /\ c \in T /\ d \in T => <<a, b, c, d>> \in Seq(T)
  OBVIOUS
<1> QED
  BY <1>3, <1>4, Zenon

LEMMA List5 ==
    ASSUME NEW a, NEW b, NEW c, NEW d, NEW e,
           Fits(a, {b, c, d, e}), Fits(b, {c, d, e}), Fits(c, {d, e}), Fits(d, {e}), Fits(e, {})
    PROVE  /\ Rest(<<a, b, c, d, e>>) = {a, b, c, d, e} /\ Ordered(<<a, b, c, d, e>>)
           /\ \A T : a \in T /\ b \in T /\ c \in T /\ d \in T /\ e \in T => <<a, b, c, d, e>> \in Seq(T)
<1> DEFINE S == {a, b, c, d, e}
<1>1. a \in S /\ <<b, c, d, e>> \in Seq(S) /\ <<a>> \o <<b, c, d, e>> = <<a, b, c, d, e>>
  BY Join14
<1>2. Rest(<<b, c, d, e>>) = {b, c, d, e} /\ Ordered(<<b, c, d, e>>)
  BY List4
<1>3. Rest(<<a, b, c, d, e>>) = {a} \cup {b, c, d, e} /\ Ordered(<<a, b, c, d, e>>)
  BY <1>1, <1>2, RestOfCons, OrderOfCons, Zenon
<1>4. \A T : a \in T /\ b \in T /\ c \in T /\ d \in T /\ e \in T => <<a, b, c, d, e>> \in Seq(T)
  OBVIOUS
<1> QED
  BY <1>3, <1>4, Zenon

LEMMA List6 ==
    ASSUME NEW a, NEW b, NEW c, NEW d, NEW e, NEW f,
           Fits(a, {b, c, d, e, f}), Fits(b, {c, d, e, f}), Fits(c, {d, e, f}), Fits(d, {e, f}), Fits(e, {f}), Fits(f, {})
    PROVE  /\ Rest(<<a, b, c, d, e, f>>) = {a, b, c, d, e, f} /\ Ordered(<<a, b, c, d, e, f>>)
           /\ \A T : a \in T /\ b \in T /\ c \in T /\ d \in T /\ e \in T /\ f \in T => <<a, b, c, d, e, f>> \in Seq(T)
<1> DEFINE S == {a, b, c, d, e, f}
<1>1. a \in S /\ <<b, c, d, e, f>> \in Seq(S) /\ <<a>> \o <<b, c, d, e, f>> = <<a, b, c, d, e, f>>
  BY Join15
<1>2. Rest(<<b, c, d, e, f>>) = {b, c, d, e, f} /\ Ordered(<<b, c, d, e, f>>)
  BY List5
<1>3. Rest(<<a, b, c, d, e, f>>) = {a} \cup {b, c, d, e, f} /\ Ordered(<<a, b, c, d, e, f>>)
  BY <1>1, <1>2, RestOfCons, OrderOfCons, Zenon
<1>4. \A T : a \in T /\ b \in T /\ c \in T /\ d \in T /\ e \in T /\ f \in T => <<a, b, c, d, e, f>> \in Seq(T)
  OBVIOUS
<1> QED
  BY <1>3, <1>4, Zenon

\* The lists of createTmpBackup of each type.
Planned(L) ==
    /\ L \cap Writers # {}
    /\ L \cap Packers # {} => L \cap Dumpers # {}
    /\ job.type \in {"redis", "external"} => "register" \in L
    /\ "mongodump" \in L => "defer RemoveAll" \in L
    /\ L \cap {"mongodump", "defer RemoveAll"} # {} => job.type = "mongodb"
    /\ L \cap {"dump to directory", "GZip", "RemoveAll"} # {} => job.type # "mongodb"

LEMMA StepsInOrder ==
    ASSUME job \in Jobs
    PROVE  Steps \in Seq(StepNames) /\ Ordered(Steps) /\ Planned(Rest(Steps))
<1> DEFINE Fit(s) == s \in Seq(StepNames) /\ Ordered(s) /\ Planned(Rest(s))
<1>1. job.type \in Types /\ job.gzip \in BOOLEAN /\ job.isSlave \in BOOLEAN /\ job.prepare \in BOOLEAN
  BY DEF Jobs
<1>2. CASE job.type = "mongodb"
  <2>0. Steps = MongodumpSteps
    BY <1>2 DEF Steps
  <2>1. Fit(MongodumpSteps)
    <3> DEFINE a == "defer RemoveAll"
               b == "mongodump"
               c == "Tar"
    <3>1. /\ a \in StepNames /\ b \in StepNames /\ c \in StepNames
      BY DEF StepNames
    <3>2. /\ Fits(a, {b, c})
          /\ Fits(b, {c})
          /\ Fits(c, {})
      BY DEF Fits, Writers, Packers, Dumpers
    <3>3. Planned({a, b, c})
      BY <1>2 DEF Planned, Writers, Packers, Dumpers
    <3>4. MongodumpSteps = <<a, b, c>>
      BY <1>2, Zenon DEF MongodumpSteps
    <3> HIDE DEF a, b, c
    <3>5. /\ Rest(<<a, b, c>>) = {a, b, c} /\ Ordered(<<a, b, c>>)
          /\ <<a, b, c>> \in Seq(StepNames)
      BY <3>1, <3>2, List3, Zenon
    <3> QED
      BY <3>3, <3>4, <3>5, Zenon
  <2> QED
    BY <2>0, <2>1
<1>3. CASE job.type = "mysql"
  <2>0. Steps = MysqldumpSteps
    BY <1>3 DEF Steps
  <2>1. ASSUME job.isSlave PROVE Fit(MysqldumpSteps)
    <3> DEFINE a == "GetGZipFileWriter"
               b == "STOP SLAVE"
               c == "CreateTmpMysqlAuthFile"
               d == "dump to archive"
    <3>1. /\ a \in StepNames /\ b \in StepNames /\ c \in StepNames
          /\ d \in StepNames
      BY DEF StepNames
    <3>2. /\ Fits(a, {b, c, d})
          /\ Fits(b, {c, d})
          /\ Fits(c, {d})
          /\ Fits(d, {})
      BY DEF Fits, Writers, Packers, Dumpers
    <3>3. Planned({a, b, c, d})
      BY <1>3 DEF Planned, Writers, Packers, Dumpers
    <3>4. MysqldumpSteps = <<a>> \o <<b>> \o <<c, d>>
      BY <1>3, <2>1, Zenon DEF MysqldumpSteps, Option
    <3> HIDE DEF a, b, c, d
    <3>5. <<a>> \o <<b>> = <<a, b>>
      BY Join11, Zenon
    <3>6. <<a, b>> \o <<c, d>> = <<a, b, c, d>>
      BY Join22, Zenon
    <3>7. /\ Rest(<<a, b, c, d>>) = {a, b, c, d} /\ Ordered(<<a, b, c, d>>)
          /\ <<a, b, c, d>> \in Seq(StepNames)
      BY <3>1, <3>2, List4, Zenon
    <3> QED
      BY <3>3, <3>4, <3>5, <3>6, <3>7, Zenon
  <2>2. ASSUME ~job.isSlave PROVE Fit(MysqldumpSteps)
    <3> DEFINE a == "GetGZipFileWriter"
               b == "CreateTmpMysqlAuthFile"
               c == "dump to archive"
    <3>1. /\ a \in StepNames /\ b \in StepNames /\ c \in StepNames
      BY DEF StepNames
    <3>2. /\ Fits(a, {b, c})
          /\ Fits(b, {c})
          /\ Fits(c, {})
      BY DEF Fits, Writers, Packers, Dumpers
    <3>3. Planned({a, b, c})
      BY <1>3 DEF Planned, Writers, Packers, Dumpers
    <3>4. MysqldumpSteps = <<a>> \o <<>> \o <<b, c>>
      BY <1>3, <2>2, Zenon DEF MysqldumpSteps, Option
    <3> HIDE DEF a, b, c
    <3>5. <<a>> \o <<>> = <<a>>
      BY Join10, Zenon
    <3>6. <<a>> \o <<b, c>> = <<a, b, c>>
      BY Join12, Zenon
    <3>7. /\ Rest(<<a, b, c>>) = {a, b, c} /\ Ordered(<<a, b, c>>)
          /\ <<a, b, c>> \in Seq(StepNames)
      BY <3>1, <3>2, List3, Zenon
    <3> QED
      BY <3>3, <3>4, <3>5, <3>6, <3>7, Zenon
  <2> QED
    BY <2>0, <2>1, <2>2
<1>4. CASE job.type = "mysql_xtrabackup"
  <2>0. Steps = XtrabackupSteps
    BY <1>4 DEF Steps
  <2>1. ASSUME job.prepare PROVE Fit(XtrabackupSteps)
    <3> DEFINE a == "CreateTmpMysqlAuthFile"
               b == "dump to directory"
               c == "prepare"
               d == "Tar"
               e == "RemoveAll"
    <3>1. /\ a \in StepNames /\ b \in StepNames /\ c \in StepNames
          /\ d \in StepNames /\ e \in StepNames
      BY DEF StepNames
    <3>2. /\ Fits(a, {b, c, d, e})
          /\ Fits(b, {c, d, e})
          /\ Fits(c, {d, e})
          /\ Fits(d, {e})
          /\ Fits(e, {})
      BY DEF Fits, Writers, Packers, Dumpers
    <3>3. Planned({a, b, c, d, e})
      BY <1>4 DEF Planned, Writers, Packers, Dumpers
    <3>4. XtrabackupSteps = <<a, b>> \o <<c>> \o <<d, e>>
      BY <1>4, <2>1, Zenon DEF XtrabackupSteps, Option
    <3> HIDE DEF a, b, c, d, e
    <3>5. <<a, b>> \o <<c>> = <<a, b, c>>
      BY Join21, Zenon
    <3>6. <<a, b, c>> \o <<d, e>> = <<a, b, c, d, e>>
      BY Join32, Zenon
    <3>7. /\ Rest(<<a, b, c, d, e>>) = {a, b, c, d, e} /\ Ordered(<<a, b, c, d, e>>)
          /\ <<a, b, c, d, e>> \in Seq(StepNames)
      BY <3>1, <3>2, List5, SMTT(60)
    <3> QED
      BY <3>3, <3>4, <3>5, <3>6, <3>7, Zenon
  <2>2. ASSUME ~job.prepare PROVE Fit(XtrabackupSteps)
    <3> DEFINE a == "CreateTmpMysqlAuthFile"
               b == "dump to directory"
               c == "Tar"
               d == "RemoveAll"
    <3>1. /\ a \in StepNames /\ b \in StepNames /\ c \in StepNames
          /\ d \in StepNames
      BY DEF StepNames
    <3>2. /\ Fits(a, {b, c, d})
          /\ Fits(b, {c, d})
          /\ Fits(c, {d})
          /\ Fits(d, {})
      BY DEF Fits, Writers, Packers, Dumpers
    <3>3. Planned({a, b, c, d})
      BY <1>4 DEF Planned, Writers, Packers, Dumpers
    <3>4. XtrabackupSteps = <<a, b>> \o <<>> \o <<c, d>>
      BY <1>4, <2>2, Zenon DEF XtrabackupSteps, Option
    <3> HIDE DEF a, b, c, d
    <3>5. <<a, b>> \o <<>> = <<a, b>>
      BY Join20, Zenon
    <3>6. <<a, b>> \o <<c, d>> = <<a, b, c, d>>
      BY Join22, Zenon
    <3>7. /\ Rest(<<a, b, c, d>>) = {a, b, c, d} /\ Ordered(<<a, b, c, d>>)
          /\ <<a, b, c, d>> \in Seq(StepNames)
      BY <3>1, <3>2, List4, Zenon
    <3> QED
      BY <3>3, <3>4, <3>5, <3>6, <3>7, Zenon
  <2> QED
    BY <2>0, <2>1, <2>2
<1>5. CASE job.type = "postgresql"
  <2>0. Steps = PgDumpSteps
    BY <1>5 DEF Steps
  <2>1. Fit(PgDumpSteps)
    <3> DEFINE a == "GetGZipFileWriter"
               b == "dump to archive"
    <3>1. /\ a \in StepNames /\ b \in StepNames
      BY DEF StepNames
    <3>2. /\ Fits(a, {b})
          /\ Fits(b, {})
      BY DEF Fits, Writers, Packers, Dumpers
    <3>3. Planned({a, b})
      BY <1>5 DEF Planned, Writers, Packers, Dumpers
    <3>4. PgDumpSteps = <<a, b>>
      BY <1>5, Zenon DEF PgDumpSteps
    <3> HIDE DEF a, b
    <3>5. /\ Rest(<<a, b>>) = {a, b} /\ Ordered(<<a, b>>)
          /\ <<a, b>> \in Seq(StepNames)
      BY <3>1, <3>2, List2, Zenon
    <3> QED
      BY <3>3, <3>4, <3>5, Zenon
  <2> QED
    BY <2>0, <2>1
<1>6. CASE job.type = "postgresql_basebackup"
  <2>0. Steps = PgBasebackupSteps
    BY <1>6 DEF Steps
  <2>1. Fit(PgBasebackupSteps)
    <3> DEFINE a == "dump to directory"
               b == "Tar"
               c == "RemoveAll"
    <3>1. /\ a \in StepNames /\ b \in StepNames /\ c \in StepNames
      BY DEF StepNames
    <3>2. /\ Fits(a, {b, c})
          /\ Fits(b, {c})
          /\ Fits(c, {})
      BY DEF Fits, Writers, Packers, Dumpers
    <3>3. Planned({a, b, c})
      BY <1>6 DEF Planned, Writers, Packers, Dumpers
    <3>4. PgBasebackupSteps = <<a, b, c>>
      BY <1>6, Zenon DEF PgBasebackupSteps
    <3> HIDE DEF a, b, c
    <3>5. /\ Rest(<<a, b, c>>) = {a, b, c} /\ Ordered(<<a, b, c>>)
          /\ <<a, b, c>> \in Seq(StepNames)
      BY <3>1, <3>2, List3, Zenon
    <3> QED
      BY <3>3, <3>4, <3>5, Zenon
  <2> QED
    BY <2>0, <2>1
<1>7. CASE job.type = "redis"
  <2>0. Steps = RedisSteps
    BY <1>7 DEF Steps
  <2>1. ASSUME job.gzip PROVE Fit(RedisSteps)
    <3> DEFINE a == "dump to directory"
               b == "GZip"
               c == "RemoveAll"
               d == "register"
    <3>1. /\ a \in StepNames /\ b \in StepNames /\ c \in StepNames
          /\ d \in StepNames
      BY DEF StepNames
    <3>2. /\ Fits(a, {b, c, d})
          /\ Fits(b, {c, d})
          /\ Fits(c, {d})
          /\ Fits(d, {})
      BY DEF Fits, Writers, Packers, Dumpers
    <3>3. Planned({a, b, c, d})
      BY <1>7 DEF Planned, Writers, Packers, Dumpers
    <3>4. RedisSteps = <<a, b, c>> \o <<d>>
      BY <1>7, <2>1, Zenon DEF RedisSteps
    <3> HIDE DEF a, b, c, d
    <3>5. <<a, b, c>> \o <<d>> = <<a, b, c, d>>
      BY Join31, Zenon
    <3>6. /\ Rest(<<a, b, c, d>>) = {a, b, c, d} /\ Ordered(<<a, b, c, d>>)
          /\ <<a, b, c, d>> \in Seq(StepNames)
      BY <3>1, <3>2, List4, Zenon
    <3> QED
      BY <3>3, <3>4, <3>5, <3>6, Zenon
  <2>2. ASSUME ~job.gzip PROVE Fit(RedisSteps)
    <3> DEFINE a == "dump to archive"
               b == "register"
    <3>1. /\ a \in StepNames /\ b \in StepNames
      BY DEF StepNames
    <3>2. /\ Fits(a, {b})
          /\ Fits(b, {})
      BY DEF Fits, Writers, Packers, Dumpers
    <3>3. Planned({a, b})
      BY <1>7 DEF Planned, Writers, Packers, Dumpers
    <3>4. RedisSteps = <<a>> \o <<b>>
      BY <1>7, <2>2, Zenon DEF RedisSteps
    <3> HIDE DEF a, b
    <3>5. <<a>> \o <<b>> = <<a, b>>
      BY Join11, Zenon
    <3>6. /\ Rest(<<a, b>>) = {a, b} /\ Ordered(<<a, b>>)
          /\ <<a, b>> \in Seq(StepNames)
      BY <3>1, <3>2, List2, Zenon
    <3> QED
      BY <3>3, <3>4, <3>5, <3>6, Zenon
  <2> QED
    BY <2>0, <2>1, <2>2
<1>8. CASE job.type = "external"
  <2>0. Steps = ExternalSteps
    BY <1>8 DEF Steps
  <2>1. ASSUME job.gzip PROVE Fit(ExternalSteps)
    <3> DEFINE a == "dump to directory"
               b == "parse"
               c == "GZip"
               d == "RemoveAll"
               e == "register"
               f == "Stat"
    <3>1. /\ a \in StepNames /\ b \in StepNames /\ c \in StepNames
          /\ d \in StepNames /\ e \in StepNames /\ f \in StepNames
      BY DEF StepNames
    <3>2. /\ Fits(a, {b, c, d, e, f})
          /\ Fits(b, {c, d, e, f})
          /\ Fits(c, {d, e, f})
          /\ Fits(d, {e, f})
          /\ Fits(e, {f})
          /\ Fits(f, {})
      BY DEF Fits, Writers, Packers, Dumpers
    <3>3. Planned({a, b, c, d, e, f})
      BY <1>8 DEF Planned, Writers, Packers, Dumpers
    <3>4. ExternalSteps = <<a, b, c, d>> \o <<e, f>>
      BY <1>8, <2>1, Zenon DEF ExternalSteps
    <3> HIDE DEF a, b, c, d, e, f
    <3>5. <<a, b, c, d>> \o <<e, f>> = <<a, b, c, d, e, f>>
      BY Join42, SMTT(60)
    <3>6. /\ Rest(<<a, b, c, d, e, f>>) = {a, b, c, d, e, f} /\ Ordered(<<a, b, c, d, e, f>>)
          /\ <<a, b, c, d, e, f>> \in Seq(StepNames)
      BY <3>1, <3>2, List6, SMTT(60)
    <3> QED
      BY <3>3, <3>4, <3>5, <3>6, Zenon
  <2>2. ASSUME ~job.gzip PROVE Fit(ExternalSteps)
    <3> DEFINE a == "dump to archive"
               b == "parse"
               c == "register"
               d == "Stat"
    <3>1. /\ a \in StepNames /\ b \in StepNames /\ c \in StepNames
          /\ d \in StepNames
      BY DEF StepNames
    <3>2. /\ Fits(a, {b, c, d})
          /\ Fits(b, {c, d})
          /\ Fits(c, {d})
          /\ Fits(d, {})
      BY DEF Fits, Writers, Packers, Dumpers
    <3>3. Planned({a, b, c, d})
      BY <1>8 DEF Planned, Writers, Packers, Dumpers
    <3>4. ExternalSteps = <<a, b>> \o <<c, d>>
      BY <1>8, <2>2, Zenon DEF ExternalSteps
    <3> HIDE DEF a, b, c, d
    <3>5. <<a, b>> \o <<c, d>> = <<a, b, c, d>>
      BY Join22, Zenon
    <3>6. /\ Rest(<<a, b, c, d>>) = {a, b, c, d} /\ Ordered(<<a, b, c, d>>)
          /\ <<a, b, c, d>> \in Seq(StepNames)
      BY <3>1, <3>2, List4, Zenon
    <3> QED
      BY <3>3, <3>4, <3>5, <3>6, Zenon
  <2> QED
    BY <2>0, <2>1, <2>2
<1> QED
  BY <1>1, <1>2, <1>3, <1>4, <1>5, <1>6, <1>7, <1>8 DEF Types, DatabaseTypes, SourceTypes

-----------------------------------------------------------------------------
(***************************************************************************)
(* The steps of createTmpBackup.                                           *)
(***************************************************************************)
Calls == {"Close", "START SLAVE", "DeleteTmpMysqlAuthFile", "RemoveAll"}

\* Step x went well, or ended createTmpBackup.
Moved(x) ==
    \/ Ahead = {x} \cup Ahead' /\ Fits(x, Ahead') /\ failing' = failing
    \/ Ahead' = {} /\ failing' /\ \E later : Ahead = {x} \cup later /\ Fits(x, later)

LEMMA Moves ==
    ASSUME TypeOK, Course, NEW x, At(x), Proceed \/ Return
    PROVE  /\ Moved(x) /\ x \in Ahead
           /\ Ordered(steps') /\ steps' \in Seq(StepNames) /\ failing' \in BOOLEAN
<1>1. steps \in Seq(StepNames) /\ steps # <<>> /\ Head(steps) = x /\ Ordered(steps) /\ failing \in BOOLEAN
  BY DEF TypeOK, Course, At
<1>2. Rest(steps) = {x} \cup Rest(Tail(steps)) /\ Tail(steps) \in Seq(StepNames)
  BY <1>1, RestOfTail
<1>3. Fits(x, Rest(Tail(steps))) /\ Ordered(Tail(steps))
  BY <1>1, OrderOfTail
<1>4. CASE Proceed
  BY <1>1, <1>2, <1>3, <1>4 DEF Proceed, Moved, Ahead
<1>5. CASE Return
  <2>1. steps' = <<>> /\ failing' = TRUE
    BY <1>5 DEF Return
  <2>2. Rest(steps') = {} /\ Ordered(steps')
    BY <2>1, RestOfEmpty
  <2>3. steps' \in Seq(StepNames)
    BY <2>1
  <2>4. \E later : Ahead = {x} \cup later /\ Fits(x, later)
    BY <1>2, <1>3 DEF Ahead
  <2> QED
    BY <1>2, <2>1, <2>2, <2>3, <2>4 DEF Moved, Ahead
<1> QED
  BY <1>4, <1>5

LEMMA Defers ==
    ASSUME TypeOK, NEW what \in Calls, Defer(what)
    PROVE  Undone' = {what} \cup Undone /\ defers' \in Seq(Calls)
BY RestOfCons DEF TypeOK, Calls, Defer, Undone

\* The invariant's facts about the target in work.
LEMMA Working ==
    ASSUME TypeOK, pc = "run"
    PROVE  /\ cur \in Names /\ cur # None
           /\ cur \in DOMAIN targets \ undumped
           /\ targets[cur] \in SUBSET Pairs /\ targets[cur] # None /\ {} # None
           /\ Dir(cur) \in Names \cup {None}
<1>1. cur \in DOMAIN targets \ undumped /\ DOMAIN targets \subseteq Names /\ targets[cur] \subseteq Pairs
  BY DEF TypeOK
<1>2. cur \in Names /\ None \notin Names /\ \A dump \in SUBSET Pairs : dump # None
  BY <1>1, DatabaseJobAssumption DEF Pairs
<1> QED
  BY <1>1, <1>2 DEF Dir

\* What none of the steps changes, and what may change only at the target in
\* work.
Still ==
    /\ pc = "run" /\ UNCHANGED <<loop, pc, stored, errs>>
    /\ \A n \in Names : n # cur => archive'[n] = archive[n] /\ raw'[n] = raw[n]
    /\ dumped \subseteq dumped' /\ dumped' \subseteq dumped \cup {cur}
    /\ \A what, n : <<what, n>> \in ignored => <<what, n>> \in ignored'

LEMMA FaultsCounted == ASSUME TypeOK, NoFault \/ Fault PROVE faults' \in 0 .. MaxFaults
<1>1. faults \in 0 .. MaxFaults /\ MaxFaults \in Nat
  BY DatabaseJobAssumption DEF TypeOK
<1> QED
  BY <1>1 DEF NoFault, Fault

Faults == {"write", "raw", "replica", "auth"}

LEMMA Ignoring ==
    ASSUME TypeOK, pc = "run", NEW what \in Faults, Ignore(what)
    PROVE  /\ ignored \subseteq ignored' /\ ignored' \subseteq Faults \X Names
           /\ \A w \in Faults : Ignored(w)' = IF w = what THEN Ignored(w) \cup {cur} ELSE Ignored(w)
<1>1. cur \in Names /\ ignored \subseteq Faults \X Names /\ ignored' = ignored \cup {<<what, cur>>}
  BY Working DEF TypeOK, Faults, Ignore
<1>2. ignored' \subseteq Faults \X Names
  BY <1>1, <<what, cur>> \in Faults \X Names
<1>3. ASSUME NEW w \in Faults
      PROVE  Ignored(w)' = IF w = what THEN Ignored(w) \cup {cur} ELSE Ignored(w)
  BY <1>1 DEF Ignored
<1> QED
  BY <1>1, <1>2, <1>3

LEMMA StepTypes ==
    ASSUME TypeOK, Course, CreateTmpBackup
    PROVE  TypeOK' /\ Still
<1>0. pc = "run"
  BY DEF CreateTmpBackup, DeferRemoveAll, GetGZipFileWriter, StopSlave, CreateTmpMysqlAuthFile,
         DumpToArchive, Mongodump, DumpToDirectory, MayFail, Tar, GZip, RemoveAll, Register,
         RunDeferred, At
<1> DEFINE Moving == steps' \in Seq(StepNames) /\ failing' \in BOOLEAN
           Filed == /\ archive' \in [Names -> Contents] /\ raw' \in [Names \cup {None} -> Contents]
                    /\ auth' \subseteq Names /\ replica' \in {"runs", "stopped"}
                    /\ \A n \in Names : n # cur => archive'[n] = archive[n] /\ raw'[n] = raw[n]
           Told == /\ dumped \subseteq dumped' /\ dumped' \subseteq dumped \cup {cur}
                   /\ ignored \subseteq ignored'
                   /\ ignored' \subseteq {"write", "raw", "replica", "auth"} \X Names
<1>1. /\ cur \in Names /\ targets[cur] \in Contents /\ {} \in Contents
      /\ Dir(cur) \in Names \cup {None} /\ Dir(cur) \in {cur, None} /\ None \notin Names
  BY <1>0, Working, DatabaseJobAssumption DEF Contents, Dir, Pairs
<1>2. /\ archive \in [Names -> Contents] /\ raw \in [Names \cup {None} -> Contents]
      /\ auth \subseteq Names /\ replica \in {"runs", "stopped"}
      /\ ignored \subseteq {"write", "raw", "replica", "auth"} \X Names
      /\ defers \in Seq(Calls) /\ steps \in Seq(StepNames) /\ failing \in BOOLEAN
  BY DEF TypeOK, Calls
<1>3. SUFFICES /\ Outside /\ Moving /\ Filed /\ Told
               /\ defers' \in Seq(Calls) /\ (NoFault \/ Fault)
  <2>1. faults' \in 0 .. MaxFaults
    BY <1>3, FaultsCounted
  <2>2. dumped' \subseteq DOMAIN targets \ undumped
    BY <1>0, <1>3 DEF TypeOK
  <2>3. TypeOK'
    BY <1>0, <1>3, <2>1, <2>2 DEF TypeOK, Outside, loop, Calls
  <2>4. Still
    BY <1>0, <1>3 DEF Still, Outside
  <2> QED
    BY <2>3, <2>4
<1>4. CASE DeferRemoveAll
  <2>1. Moving
    BY <1>4, Moves DEF DeferRemoveAll
  <2>2. defers' \in Seq(Calls)
    BY <1>4, Defers DEF DeferRemoveAll, Calls
  <2> QED
    BY <1>1, <1>2, <1>4, <2>1, <2>2 DEF DeferRemoveAll, NoFault, files
<1>5. CASE GetGZipFileWriter
  <2>1. Moving
    BY <1>5, Moves DEF GetGZipFileWriter
  <2>2. defers' \in Seq(Calls)
    BY <1>2, <1>5, Defers DEF GetGZipFileWriter, Calls
  <2> QED
    BY <1>1, <1>2, <1>5, <2>1, <2>2 DEF GetGZipFileWriter
<1>6. CASE StopSlave
  <2>1. Moving
    BY <1>6, Moves DEF StopSlave
  <2>2. defers' \in Seq(Calls)
    BY <1>2, <1>6, Defers DEF StopSlave, Calls
  <2> QED
    BY <1>1, <1>2, <1>6, <2>1, <2>2 DEF StopSlave, files
<1>7. CASE CreateTmpMysqlAuthFile
  <2>1. Moving
    BY <1>7, Moves DEF CreateTmpMysqlAuthFile
  <2>2. defers' \in Seq(Calls)
    BY <1>2, <1>7, Defers DEF CreateTmpMysqlAuthFile, Calls
  <2>3. ignored \subseteq ignored' /\ ignored' \subseteq {"write", "raw", "replica", "auth"} \X Names
    BY <1>1, <1>2, <1>7 DEF CreateTmpMysqlAuthFile, Ignore
  <2> QED
    BY <1>1, <1>2, <1>7, <2>1, <2>2, <2>3 DEF CreateTmpMysqlAuthFile
<1>8. CASE DumpToArchive
  <2>1. Moving
    BY <1>8, Moves DEF DumpToArchive
  <2> QED
    BY <1>1, <1>2, <1>8, <2>1 DEF DumpToArchive
<1>9. CASE Mongodump
  <2>1. Moving
    BY <1>9, Moves DEF Mongodump
  <2> DEFINE held == Held
  <2>2. held \in SUBSET Pairs
    <3>1. Dir(cur) \in Names \cup {None}
      BY <1>0, Working DEF Dir
    <3> QED
      BY <1>2, <3>1 DEF Contents, Held
  <2>3. targets[cur] \in SUBSET Pairs
    BY <1>0, Working
  <2>4. \/ raw' = [raw EXCEPT ![None] = IF targets[cur] = {} THEN @ ELSE held \cup targets[cur]]
        \/ \E part \in SUBSET targets[cur] : raw' = [raw EXCEPT ![None] = held \cup part]
    BY <1>9 DEF Mongodump
  <2> HIDE DEF held
  <2>5. raw' \in [Names \cup {None} -> Contents] /\ \A n \in Names : raw'[n] = raw[n]
    BY <1>1, <1>2, <2>2, <2>3, <2>4 DEF Contents
  <2> QED
    BY <1>1, <1>2, <1>9, <2>1, <2>5 DEF Mongodump
<1>10. CASE DumpToDirectory
  <2>1. Moving
    BY <1>10, Moves DEF DumpToDirectory
  <2> QED
    BY <1>1, <1>2, <1>10, <2>1 DEF DumpToDirectory
<1>11. CASE \E s \in {"prepare", "parse", "Stat"} : MayFail(s)
  <2>1. Moving
    BY <1>11, Moves DEF MayFail
  <2> QED
    BY <1>1, <1>2, <1>11, <2>1 DEF MayFail, files
<1>12. ASSUME NEW packed \in Contents, Packed(packed)
       PROVE  /\ archive' \in [Names -> Contents]
              /\ \A n \in Names : n # cur => archive'[n] = archive[n]
              /\ ignored \subseteq ignored'
              /\ ignored' \subseteq {"write", "raw", "replica", "auth"} \X Names
              /\ (Proceed \/ Return) /\ (NoFault \/ Fault)
  <2>1. Ignore("write") => /\ ignored \subseteq ignored'
                           /\ ignored' \subseteq {"write", "raw", "replica", "auth"} \X Names
    BY <1>0, Ignoring DEF Faults
  <2> QED
    BY <1>1, <1>2, <1>12, <2>1 DEF Packed
<1>13. CASE Tar
  <2>1. raw[Dir(cur)] \in Contents
    BY <1>1, <1>2
  <2>2. /\ archive' \in [Names -> Contents]
        /\ \A n \in Names : n # cur => archive'[n] = archive[n]
        /\ ignored \subseteq ignored'
        /\ ignored' \subseteq {"write", "raw", "replica", "auth"} \X Names
        /\ (Proceed \/ Return) /\ (NoFault \/ Fault)
    <3>1. Held \in Contents
      BY <1>1, <2>1 DEF Held
    <3> QED
      BY <1>12, <1>13, <3>1 DEF Tar
  <2>3. Moving
    BY <1>13, <2>2, Moves DEF Tar
  <2> QED
    BY <1>1, <1>2, <1>13, <2>2, <2>3 DEF Tar
<1>14. CASE GZip
  <2>1. raw[cur] \in Contents
    BY <1>1, <1>2
  <2>2. /\ archive' \in [Names -> Contents]
        /\ \A n \in Names : n # cur => archive'[n] = archive[n]
        /\ ignored \subseteq ignored'
        /\ ignored' \subseteq {"write", "raw", "replica", "auth"} \X Names
        /\ (Proceed \/ Return) /\ (NoFault \/ Fault)
    BY <1>12, <1>14, <2>1 DEF GZip
  <2>3. Moving
    BY <1>14, <2>2, Moves DEF GZip
  <2> QED
    BY <1>1, <1>2, <1>14, <2>2, <2>3 DEF GZip
<1>15. CASE RemoveAll
  <2>1. Moving
    BY <1>15, Moves DEF RemoveAll
  <2> QED
    BY <1>1, <1>2, <1>15, <2>1 DEF RemoveAll, Ignore, Contents
<1>16. CASE Register
  <2>1. Moving
    BY <1>16, Moves DEF Register
  <2> QED
    BY <1>1, <1>2, <1>16, <2>1 DEF Register, files, NoFault
<1>17. CASE RunDeferred
  <2>1. Head(defers) \in Calls /\ Tail(defers) \in Seq(Calls)
    BY <1>2, <1>17, RestOfTail DEF RunDeferred, Deferred
  <2>2. CASE /\ raw' = IF Head(defers) = "RemoveAll" THEN [raw EXCEPT ![Dir(cur)] = None] ELSE raw
             /\ replica' = IF Head(defers) = "START SLAVE" THEN "runs" ELSE replica
             /\ auth' = IF Head(defers) = "DeleteTmpMysqlAuthFile" THEN auth \ {cur} ELSE auth
             /\ UNCHANGED <<archive, ignored>> /\ NoFault
    <3>1. raw' \in [Names \cup {None} -> Contents] /\ \A n \in Names : n # cur => raw'[n] = raw[n]
      BY <1>1, <1>2, <2>2 DEF Contents
    <3> QED
      BY <1>1, <1>2, <1>17, <2>1, <2>2, <3>1 DEF RunDeferred
  <2>3. CASE /\ archive' = IF Head(defers) = "Close" THEN [archive EXCEPT ![cur] = {}] ELSE archive
             /\ Ignore(CASE Head(defers) = "Close" -> "write" [] Head(defers) = "RemoveAll" -> "raw"
                          [] Head(defers) = "START SLAVE" -> "replica" [] OTHER -> "auth")
             /\ UNCHANGED <<raw, replica, auth>> /\ Fault
    <3>1. archive' \in [Names -> Contents] /\ \A n \in Names : n # cur => archive'[n] = archive[n]
      BY <1>1, <1>2, <2>3
    <3>2. ignored \subseteq ignored' /\ ignored' \subseteq {"write", "raw", "replica", "auth"} \X Names
      <4>1. PICK what \in Faults : Ignore(what)
        BY <2>3 DEF Faults
      <4> QED
        BY <1>0, <4>1, Ignoring DEF Faults
    <3> QED
      BY <1>1, <1>2, <1>17, <2>1, <2>3, <3>1, <3>2 DEF RunDeferred
  <2> QED
    BY <1>17, <2>2, <2>3 DEF RunDeferred
<1> QED
  BY <1>4, <1>5, <1>6, <1>7, <1>8, <1>9, <1>10, <1>11, <1>13, <1>14, <1>15, <1>16, <1>17
     DEF CreateTmpBackup

\* A step x of the list and what it defers.
StepOf(x) ==
    /\ At(x) /\ x \in Ahead /\ Moved(x) /\ Ordered(steps')
    /\ Undone \subseteq Undone'
    /\ "RemoveAll" \in Undone' => "RemoveAll" \in Undone \/ x = "defer RemoveAll"
    /\ x = "defer RemoveAll" => "RemoveAll" \in Undone'

LEMMA DeferringStep ==
    ASSUME TypeOK, Course, NEW x, NEW y \in Calls, At(x), (Proceed /\ Defer(y)) \/ (Return /\ UNCHANGED defers),
           y = "RemoveAll" <=> x = "defer RemoveAll", x = "defer RemoveAll" => Defer(y)
    PROVE  StepOf(x)
<1>1. Moved(x) /\ x \in Ahead /\ Ordered(steps')
  BY Moves
<1>2. Undone' = {y} \cup Undone \/ (Undone' = Undone /\ x # "defer RemoveAll")
  BY Defers DEF Undone
<1> QED
  BY <1>1, <1>2 DEF StepOf

LEMMA PlainStep ==
    ASSUME TypeOK, Course, NEW x, At(x), Proceed \/ Return, UNCHANGED defers, x # "defer RemoveAll"
    PROVE  StepOf(x)
BY Moves DEF StepOf, Undone

LEMMA Packs == ASSUME NEW packed, Packed(packed) PROVE Proceed \/ Return
BY DEF Packed

LEMMA StepForms ==
    ASSUME TypeOK, Course, CreateTmpBackup
    PROVE  /\ DeferRemoveAll => StepOf("defer RemoveAll")
           /\ GetGZipFileWriter => StepOf("GetGZipFileWriter")
           /\ StopSlave => StepOf("STOP SLAVE")
           /\ CreateTmpMysqlAuthFile => StepOf("CreateTmpMysqlAuthFile")
           /\ DumpToArchive => StepOf("dump to archive")
           /\ Mongodump => StepOf("mongodump")
           /\ DumpToDirectory => StepOf("dump to directory")
           /\ \A s \in {"prepare", "parse", "Stat"} : MayFail(s) => StepOf(s)
           /\ Tar => StepOf("Tar")
           /\ GZip => StepOf("GZip")
           /\ RemoveAll => StepOf("RemoveAll")
           /\ Register => StepOf("register")
<1>1. DeferRemoveAll => StepOf("defer RemoveAll")
  BY DeferringStep DEF DeferRemoveAll, Calls
<1>2. GetGZipFileWriter => StepOf("GetGZipFileWriter")
  BY DeferringStep DEF GetGZipFileWriter, Calls
<1>3. StopSlave => StepOf("STOP SLAVE")
  BY DeferringStep DEF StopSlave, Calls
<1>4. CreateTmpMysqlAuthFile => StepOf("CreateTmpMysqlAuthFile")
  BY DeferringStep DEF CreateTmpMysqlAuthFile, Calls
<1>5. DumpToArchive => StepOf("dump to archive")
  BY PlainStep DEF DumpToArchive
<1>6. Mongodump => StepOf("mongodump")
  BY PlainStep DEF Mongodump
<1>7. DumpToDirectory => StepOf("dump to directory")
  BY PlainStep DEF DumpToDirectory
<1>8. \A s \in {"prepare", "parse", "Stat"} : MayFail(s) => StepOf(s)
  BY PlainStep DEF MayFail
<1>9. Tar => StepOf("Tar")
  BY PlainStep, Packs DEF Tar
<1>10. GZip => StepOf("GZip")
  BY PlainStep, Packs DEF GZip
<1>11. RemoveAll => StepOf("RemoveAll")
  BY PlainStep DEF RemoveAll
<1>12. Register => StepOf("register")
  BY PlainStep DEF Register
<1> QED
  BY <1>1, <1>2, <1>3, <1>4, <1>5, <1>6, <1>7, <1>8, <1>9, <1>10, <1>11, <1>12

\* A deferred call.
Called(y) ==
    /\ steps = <<>> /\ Ahead = {} /\ Ahead' = {} /\ steps' = steps /\ failing' = failing
    /\ y \in Calls /\ Head(defers) = y /\ Undone = {y} \cup Undone'

LEMMA CallForm ==
    ASSUME TypeOK, RunDeferred
    PROVE  \E y \in Calls : Called(y)
<1>1. defers \in Seq(Calls) /\ defers # <<>> /\ defers' = Tail(defers) /\ steps = <<>> /\ steps' = steps /\ failing' = failing
  BY DEF TypeOK, Calls, RunDeferred, Deferred
<1>2. Head(defers) \in Calls /\ Rest(defers) = {Head(defers)} \cup Rest(Tail(defers))
  BY <1>1, RestOfTail
<1>3. Rest(steps) = {}
  BY <1>1, RestOfEmpty
<1> QED
  BY <1>1, <1>2, <1>3 DEF Called, Ahead, Undone

LEMMA CallEffect ==
    ASSUME RunDeferred, NEW y \in Calls, Called(y)
    PROVE  \/ /\ raw' = IF y = "RemoveAll" THEN [raw EXCEPT ![Dir(cur)] = None] ELSE raw
              /\ replica' = IF y = "START SLAVE" THEN "runs" ELSE replica
              /\ auth' = IF y = "DeleteTmpMysqlAuthFile" THEN auth \ {cur} ELSE auth
              /\ UNCHANGED <<archive, ignored>>
           \/ /\ archive' = IF y = "Close" THEN [archive EXCEPT ![cur] = {}] ELSE archive
              /\ y = "Close" => Ignore("write")
              /\ y = "RemoveAll" => Ignore("raw")
              /\ y = "START SLAVE" => Ignore("replica")
              /\ y = "DeleteTmpMysqlAuthFile" => Ignore("auth")
              /\ UNCHANGED <<raw, replica, auth>>
<1> DEFINE what == CASE y = "Close" -> "write" [] y = "RemoveAll" -> "raw"
                     [] y = "START SLAVE" -> "replica" [] OTHER -> "auth"
<1>1. Head(defers) = y
  BY DEF Called
<1>2. \/ /\ raw' = IF y = "RemoveAll" THEN [raw EXCEPT ![Dir(cur)] = None] ELSE raw
         /\ replica' = IF y = "START SLAVE" THEN "runs" ELSE replica
         /\ auth' = IF y = "DeleteTmpMysqlAuthFile" THEN auth \ {cur} ELSE auth
         /\ UNCHANGED <<archive, ignored>>
      \/ /\ archive' = IF y = "Close" THEN [archive EXCEPT ![cur] = {}] ELSE archive
         /\ Ignore(what)
         /\ UNCHANGED <<raw, replica, auth>>
  BY <1>1 DEF RunDeferred
<1>3. /\ y = "Close" => what = "write"
      /\ y = "RemoveAll" => what = "raw"
      /\ y = "START SLAVE" => what = "replica"
      /\ y = "DeleteTmpMysqlAuthFile" => what = "auth"
  OBVIOUS
<1> HIDE DEF what
<1> QED
  BY <1>2, <1>3

LEMMA StepCourse ==
    ASSUME TypeOK, Course, Still, TypeOK',
           (\E x \in StepNames : StepOf(x)) \/ (\E y \in Calls : Called(y))
    PROVE  Course'
<1>0. pc = "run" /\ pc' = "run" /\ job' = job
  BY DEF Still, loop
<1>1. Ahead' \subseteq Ahead /\ Ordered(steps')
  <2>1. ASSUME NEW x \in StepNames, StepOf(x) PROVE Ahead' \subseteq Ahead /\ Ordered(steps')
    BY <2>1 DEF StepOf, Moved
  <2>2. ASSUME NEW y \in Calls, Called(y) PROVE Ahead' \subseteq Ahead /\ Ordered(steps')
    BY <2>2 DEF Called, Course
  <2> QED
    BY <2>1, <2>2
<1>2. "RemoveAll" \in Undone' => job.type = "mongodb"
  <2>1. ASSUME NEW x \in StepNames, StepOf(x), "RemoveAll" \in Undone'
        PROVE  job.type = "mongodb"
    BY <2>1 DEF StepOf, Course
  <2>2. ASSUME NEW y \in Calls, Called(y), "RemoveAll" \in Undone'
        PROVE  job.type = "mongodb"
    BY <2>2 DEF Called, Course
  <2> QED
    BY <2>1, <2>2
<1>3. "mongodump" \in Ahead' => "defer RemoveAll" \in Ahead' \/ "RemoveAll" \in Undone'
  <2>1. ASSUME NEW x \in StepNames, StepOf(x), "mongodump" \in Ahead'
        PROVE  "defer RemoveAll" \in Ahead' \/ "RemoveAll" \in Undone'
    BY <2>1 DEF StepOf, Moved, Course
  <2>2. ASSUME NEW y \in Calls, Called(y), "mongodump" \in Ahead'
        PROVE  FALSE
    BY <2>2 DEF Called
  <2> QED
    BY <2>1, <2>2
<1> QED
  BY <1>0, <1>1, <1>2, <1>3 DEF Course

LEMMA StillIgnored == ASSUME Still, NEW w PROVE Ignored(w) \subseteq Ignored(w)'
BY DEF Still, Ignored

LEMMA StepSecrets ==
    ASSUME TypeOK, Course, Secrets, CreateTmpBackup
    PROVE  Secrets'
<1>1. Still /\ cur' = cur /\ cur \in Names /\ Ignored("auth") \subseteq Ignored("auth")'
  BY StepTypes, StillIgnored, Working DEF Still, loop
<1>2. CASE auth' = auth /\ Undone \subseteq Undone'
  BY <1>1, <1>2 DEF Secrets
<1>3. CASE CreateTmpMysqlAuthFile
  <2>1. Undone \subseteq Undone'
    BY <1>3, StepForms DEF StepOf
  <2>2. CASE auth' = auth \cup {cur} /\ Defer("DeleteTmpMysqlAuthFile")
    <3>1. "DeleteTmpMysqlAuthFile" \in Undone'
      BY <2>2, Defers DEF Calls
    <3> QED
      BY <1>1, <2>1, <2>2, <3>1 DEF Secrets
  <2>3. CASE auth' = auth \cup {cur} /\ Ignore("auth")
    <3>1. cur \in Ignored("auth")'
      BY <1>1, <2>3 DEF Ignored, Ignore
    <3> QED
      BY <1>1, <2>1, <2>3, <3>1 DEF Secrets
  <2> QED
    BY <1>2, <1>3, <2>1, <2>2, <2>3 DEF CreateTmpMysqlAuthFile
<1>4. CASE RunDeferred
  <2>1. PICK y \in Calls : Called(y)
    BY <1>4, CallForm
  <2>2. CASE y = "DeleteTmpMysqlAuthFile"
    <3>1. auth' = auth \ {cur} \/ (auth' = auth /\ Ignore("auth"))
      BY <1>4, <2>1, <2>2, CallEffect
    <3>2. Ignore("auth") => cur \in Ignored("auth")'
      BY <1>1 DEF Ignored, Ignore
    <3>3. \A n \in auth : n # cur => n \in Ignored("auth")
      BY DEF Secrets
    <3> QED
      BY <1>1, <3>1, <3>2, <3>3 DEF Secrets
  <2>3. CASE y # "DeleteTmpMysqlAuthFile"
    <3>1. auth' = auth
      BY <1>4, <2>1, <2>3, CallEffect
    <3>2. "DeleteTmpMysqlAuthFile" \in Undone => "DeleteTmpMysqlAuthFile" \in Undone'
      BY <2>1, <2>3 DEF Called
    <3> QED
      BY <1>1, <3>1, <3>2 DEF Secrets
  <2> QED
    BY <2>2, <2>3
<1>5. CASE ~CreateTmpMysqlAuthFile /\ ~RunDeferred
  <2>1. Undone \subseteq Undone'
    BY <1>5, StepForms DEF CreateTmpBackup, StepOf
  <2>2. auth' = auth
    BY <1>5 DEF CreateTmpBackup, DeferRemoveAll, GetGZipFileWriter, StopSlave, DumpToArchive,
                Mongodump, DumpToDirectory, MayFail, Tar, GZip, RemoveAll, Register, files
  <2> QED
    BY <1>2, <2>1, <2>2
<1> QED
  BY <1>3, <1>4, <1>5

LEMMA StepReplication ==
    ASSUME TypeOK, Course, Replication, CreateTmpBackup
    PROVE  Replication'
<1>1. Still /\ cur \in Names /\ Ignored("replica") \subseteq Ignored("replica")'
  BY StepTypes, StillIgnored, Working DEF Still
<1>2. CASE StopSlave
  <2>1. Undone \subseteq Undone'
    BY <1>2, StepForms DEF StepOf
  <2>2. Defer("START SLAVE") => "START SLAVE" \in Undone'
    BY Defers DEF Calls
  <2> QED
    BY <1>1, <1>2, <2>1, <2>2 DEF Replication, StopSlave
<1>3. CASE RunDeferred
  <2>1. PICK y \in Calls : Called(y)
    BY <1>3, CallForm
  <2>2. CASE y = "START SLAVE"
    <3>1. replica' = "runs" \/ Ignore("replica")
      BY <1>3, <2>1, <2>2, CallEffect
    <3>2. Ignore("replica") => cur \in Ignored("replica")'
      BY <1>1 DEF Ignored, Ignore
    <3> QED
      BY <3>1, <3>2 DEF Replication
  <2>3. CASE y # "START SLAVE"
    <3>1. replica' = replica
      BY <1>3, <2>1, <2>3, CallEffect
    <3>2. "START SLAVE" \in Undone => "START SLAVE" \in Undone'
      BY <2>1, <2>3 DEF Called
    <3> QED
      BY <1>1, <3>1, <3>2 DEF Replication
  <2> QED
    BY <2>2, <2>3
<1>4. CASE ~StopSlave /\ ~RunDeferred
  <2>1. Undone \subseteq Undone'
    BY <1>4, StepForms DEF CreateTmpBackup, StepOf
  <2>2. replica' = replica
    BY <1>4 DEF CreateTmpBackup, DeferRemoveAll, GetGZipFileWriter, CreateTmpMysqlAuthFile, DumpToArchive,
                Mongodump, DumpToDirectory, MayFail, Tar, GZip, RemoveAll, Register
  <2> QED
    BY <1>1, <2>1, <2>2 DEF Replication
<1> QED
  BY <1>2, <1>3, <1>4

\* raw is as it was: who removes it is still to come.
LEMMA DumpsStay ==
    ASSUME TypeOK, Course, Dumps, Still, raw' = raw,
           UNCHANGED dumped \/ raw[cur] = None \/ cur \in Ignored("raw"),
           \/ \E x \in StepNames : StepOf(x) /\ x # "RemoveAll"
           \/ \E y \in Calls : Called(y) /\ (y = "RemoveAll" => Ignored("raw")' # {})
    PROVE  Dumps'
<1>1. /\ UNCHANGED <<job, targets, undumped, cur>> /\ Ignored("raw") \subseteq Ignored("raw")'
      /\ dumped' \subseteq dumped \cup {cur}
  BY StillIgnored DEF Still, loop
<1>2. "RemoveAll" \in Undone => "RemoveAll" \in Undone' \/ Ignored("raw")' # {}
  BY DEF StepOf, Called
<1>3. failing \/ "RemoveAll" \in Ahead => failing' \/ "RemoveAll" \in Ahead'
  BY DEF StepOf, Called, Moved
<1> QED
  BY <1>1, <1>2, <1>3 DEF Dumps

LEMMA StepUnregistered ==
    ASSUME TypeOK, Course, Unregistered, CreateTmpBackup
    PROVE  Unregistered'
<1>1. /\ Still /\ cur' = cur /\ dumped' \subseteq dumped \cup {cur}
  BY StepTypes DEF Still, loop
<1> SUFFICES ASSUME Ahead' # {}
             PROVE  /\ ~failing'
                    /\ Ahead' \cap {"dump to directory", "RemoveAll"} # {} => cur \notin dumped'
  BY <1>1 DEF Unregistered
<1>2. PICK x \in StepNames : StepOf(x) /\ (x = "register" \/ UNCHANGED dumped)
  <2>1. CASE Register
    BY <2>1, StepForms DEF StepNames
  <2>2. CASE RunDeferred
    BY <2>2, CallForm DEF Called
  <2>3. CASE ~Register /\ ~RunDeferred
    <3>1. dumped' = dumped
      BY <2>3 DEF CreateTmpBackup, DeferRemoveAll, GetGZipFileWriter, StopSlave, CreateTmpMysqlAuthFile,
                  DumpToArchive, Mongodump, DumpToDirectory, MayFail, Tar, GZip, RemoveAll
    <3> QED
      BY <2>3, <3>1, StepForms DEF CreateTmpBackup, StepNames
  <2> QED
    BY <2>1, <2>2, <2>3
<1>3. Ahead = {x} \cup Ahead' /\ Fits(x, Ahead') /\ failing' = failing
  BY <1>2 DEF StepOf, Moved
<1>4. ~failing /\ (Ahead' \cap {"dump to directory", "RemoveAll"} # {} => cur \notin dumped)
  BY <1>3 DEF Unregistered
<1> QED
  BY <1>2, <1>3, <1>4 DEF Fits

LEMMA StepDumps ==
    ASSUME TypeOK, Course, Dumps, Unregistered, CreateTmpBackup
    PROVE  Dumps'
<1>1. /\ Still /\ UNCHANGED <<job, targets, undumped, cur>> /\ cur \in Names /\ cur # None /\ None \notin Names
      /\ cur \in DOMAIN targets \ undumped /\ {} # None
      /\ raw \in [Names \cup {None} -> Contents]
      /\ Ignored("raw") \subseteq Ignored("raw")'
  BY StepTypes, StillIgnored, Working, DatabaseJobAssumption DEF Still, loop, TypeOK
<1>2. CASE Mongodump
  <2>1. StepOf("mongodump")
    BY <1>2, StepForms
  <2>2. job.type = "mongodb" /\ "RemoveAll" \in Undone'
    BY <2>1 DEF StepOf, Moved, Course, Fits
  <2>3. \A n \in Names : raw'[n] = raw[n]
    BY <1>1, <1>2 DEF Mongodump
  <2>4. failing \/ "RemoveAll" \in Ahead => failing' \/ "RemoveAll" \in Ahead'
    BY <2>1 DEF StepOf, Moved
  <2>5. Ignored("raw")' = Ignored("raw")
    BY <1>2 DEF Mongodump, Ignored
  <2>6. raw'[None] # None /\ Ignored("raw") = {} => raw'[None] \subseteq targets[cur]
    <3> DEFINE held == IF raw[None] = None THEN {} ELSE raw[None]
    <3>1. \/ raw' = [raw EXCEPT ![None] = IF targets[cur] = {} THEN @ ELSE held \cup targets[cur]]
          \/ \E part \in SUBSET targets[cur] : raw' = [raw EXCEPT ![None] = held \cup part]
      BY <1>2, <2>2 DEF Mongodump, Held, Dir
    <3>2. Ignored("raw") = {} => held \subseteq targets[cur]
      BY DEF Dumps
    <3>3. raw'[None] # None => raw'[None] = raw[None] \/ \E part \in SUBSET targets[cur] : raw'[None] = held \cup part
      BY <1>1, <3>1
    <3>4. raw[None] # None /\ Ignored("raw") = {} => raw[None] \subseteq targets[cur]
      BY DEF Dumps
    <3> HIDE DEF held
    <3> QED
      BY <3>2, <3>3, <3>4
  <2>7. dumped' = dumped
    BY <1>2 DEF Mongodump
  <2> QED
    BY <1>1, <2>2, <2>3, <2>4, <2>5, <2>6, <2>7 DEF Dumps
<1>3. CASE DumpToDirectory
  <2>0. dumped' = dumped /\ cur \notin dumped
    BY <1>3, StepForms DEF DumpToDirectory, StepOf, Unregistered
  <2>1. StepOf("dump to directory") /\ (UNCHANGED raw \/ \E c \in SUBSET targets[cur] : raw' = [raw EXCEPT ![cur] = c])
    BY <1>3, StepForms DEF DumpToDirectory
  <2>2. failing' \/ "RemoveAll" \in Ahead'
    BY <2>1 DEF StepOf, Moved, Fits
  <2>3. \A n \in Names : n # cur => raw'[n] = raw[n]
    BY <1>1 DEF Still
  <2>4. raw'[cur] # None => raw'[cur] \subseteq targets[cur]
    BY <1>1, <2>1 DEF Dumps
  <2>5. raw'[None] = raw[None] /\ Undone \subseteq Undone'
    BY <1>1, <2>1 DEF StepOf
  <2> QED
    BY <1>1, <2>0, <2>2, <2>3, <2>4, <2>5 DEF Dumps
<1>4. CASE RemoveAll
  <2>0. dumped' = dumped
    BY <1>4 DEF RemoveAll
  <2>1. StepOf("RemoveAll") /\ (raw' = [raw EXCEPT ![cur] = None] \/ (raw' = raw /\ Ignore("raw")))
    BY <1>4, StepForms DEF RemoveAll
  <2>2. CASE raw' = [raw EXCEPT ![cur] = None]
    <3>1. raw'[cur] = None /\ raw'[None] = raw[None] /\ \A n \in Names : n # cur => raw'[n] = raw[n]
      BY <1>1, <2>2
    <3>2. Undone \subseteq Undone'
      BY <2>1 DEF StepOf
    <3> QED
      BY <1>1, <2>0, <3>1, <3>2 DEF Dumps
  <2>3. CASE raw' = raw /\ Ignore("raw")
    <3>1. cur \in Ignored("raw")'
      BY <1>1, <2>3 DEF Ignored, Ignore
    <3>2. \A n \in Names : n \in Ignored("raw") => n \in Ignored("raw")'
      BY <1>1
    <3> QED
      BY <1>1, <2>0, <2>3, <3>1, <3>2 DEF Dumps
  <2> QED
    BY <2>1, <2>2, <2>3
<1>5. CASE RunDeferred
  <2>0. dumped' = dumped
    BY <1>5 DEF RunDeferred
  <2>1. PICK y \in Calls : Called(y)
    BY <1>5, CallForm
  <2>2. CASE y = "RemoveAll" /\ raw' = [raw EXCEPT ![Dir(cur)] = None]
    <3>1. Dir(cur) = None
      BY <2>1, <2>2 DEF Called, Course, Dir
    <3>2. raw'[None] = None /\ \A n \in Names : raw'[n] = raw[n]
      BY <1>1, <2>2, <3>1
    <3>3. failing' = failing /\ "RemoveAll" \notin Ahead
      BY <2>1 DEF Called
    <3> QED
      BY <1>1, <2>0, <3>2, <3>3 DEF Dumps
  <2>3. CASE y = "RemoveAll" /\ raw' = raw /\ Ignore("raw")
    <3>1. Ignored("raw")' # {}
      BY <1>1, <2>3 DEF Ignored, Ignore
    <3> QED
      BY <1>1, <2>0, <2>1, <2>3, <3>1, DumpsStay
  <2>4. CASE y # "RemoveAll" /\ raw' = raw
    BY <1>1, <2>0, <2>1, <2>4, DumpsStay
  <2> QED
    BY <1>5, <2>1, <2>2, <2>3, <2>4, CallEffect
<1>6. CASE ~Mongodump /\ ~DumpToDirectory /\ ~RemoveAll /\ ~RunDeferred
  <2>1. \E x \in StepNames : StepOf(x) /\ x # "RemoveAll"
    BY <1>6, StepForms DEF CreateTmpBackup, StepNames
  <2>2. raw' = raw
    BY <1>6 DEF CreateTmpBackup, DeferRemoveAll, GetGZipFileWriter, StopSlave, CreateTmpMysqlAuthFile,
                DumpToArchive, MayFail, Tar, GZip, Register, files
  <2>3. UNCHANGED dumped \/ raw[cur] = None \/ cur \in Ignored("raw")
    <3>1. CASE Register
      <4>1. StepOf("register")
        BY <3>1, StepForms
      <4>2. Ahead = {"register"} \cup Ahead' /\ Fits("register", Ahead')
        BY <3>1, <4>1 DEF StepOf, Moved, Register, Proceed, Unregistered
      <4>3. ~failing /\ "RemoveAll" \notin Ahead
        BY <4>2 DEF Fits, Unregistered
      <4> QED
        BY <1>1, <4>3 DEF Dumps
    <3>2. CASE ~Register
      BY <1>6, <3>2 DEF CreateTmpBackup, DeferRemoveAll, GetGZipFileWriter, StopSlave, CreateTmpMysqlAuthFile,
                        DumpToArchive, MayFail, Tar, GZip
    <3> QED
      BY <3>1, <3>2
  <2> QED
    BY <1>1, <2>1, <2>2, <2>3, DumpsStay
<1> QED
  BY <1>2, <1>3, <1>4, <1>5, <1>6

\* What a step does to the archive of the target.
LEMMA StepArchive ==
    ASSUME TypeOK, Course, Dumps, CreateTmpBackup
    PROVE  archive'[cur] # None =>
               archive'[cur] = archive[cur] \/ (Ignored("raw") = {} => archive'[cur] \subseteq targets[cur])
<1>1. /\ pc = "run" /\ cur \in Names /\ cur \in DOMAIN targets /\ Dir(cur) \in {cur, None}
      /\ archive \in [Names -> Contents]
  BY StepTypes, Working DEF Still, TypeOK, Dir
<1>2. ASSUME NEW packed, Packed(packed), packed # None => packed \subseteq targets[cur] \/ Ignored("raw") # {}
      PROVE  archive'[cur] # None =>
                 archive'[cur] = archive[cur] \/ (Ignored("raw") = {} => archive'[cur] \subseteq targets[cur])
  BY <1>1, <1>2 DEF Packed
<1>3. CASE Tar
  <2>1. raw[Dir(cur)] # None => raw[Dir(cur)] \subseteq targets[cur] \/ Ignored("raw") # {}
    BY <1>1 DEF Dumps
  <2>2. Held \subseteq targets[cur] \/ Ignored("raw") # {}
    BY <2>1 DEF Held
  <2> QED
    BY <1>2, <1>3, <2>2 DEF Tar
<1>4. CASE GZip
  <2>1. raw[cur] # None => raw[cur] \subseteq targets[cur] \/ Ignored("raw") # {}
    BY <1>1 DEF Dumps
  <2> QED
    BY <1>2, <1>4, <2>1 DEF GZip
<1>5. CASE DumpToArchive \/ GetGZipFileWriter
  BY <1>1, <1>5 DEF DumpToArchive, GetGZipFileWriter
<1>6. CASE RunDeferred
  <2>1. archive' = archive \/ archive' = [archive EXCEPT ![cur] = {}]
    BY <1>6, CallForm, CallEffect
  <2> QED
    BY <1>1, <2>1
<1>7. CASE ~Tar /\ ~GZip /\ ~DumpToArchive /\ ~GetGZipFileWriter /\ ~RunDeferred
  <2>1. archive' = archive
    BY <1>7 DEF CreateTmpBackup, DeferRemoveAll, StopSlave, CreateTmpMysqlAuthFile, Mongodump,
                DumpToDirectory, MayFail, RemoveAll, Register, files
  <2> QED
    BY <2>1
<1> QED
  BY <1>3, <1>4, <1>5, <1>6, <1>7

LEMMA StepCopies ==
    ASSUME TypeOK, Course, Dumps, Copies, CreateTmpBackup
    PROVE  Copies'
<1>1. /\ Still /\ pc' = "run" /\ UNCHANGED <<targets, undumped, cur, errs, stored>>
      /\ cur \in DOMAIN targets \ undumped /\ cur \in Names
      /\ Ignored("raw") \subseteq Ignored("raw")' /\ dumped \subseteq dumped'
      /\ \A n \in Names : n # cur => archive'[n] = archive[n]
  BY StepTypes, StillIgnored, Working DEF Still, loop
<1>2. ASSUME NEW n \in Names, archive'[n] # None
      PROVE  /\ n \in DOMAIN targets \ undumped
             /\ Ignored("raw")' = {} => archive'[n] \subseteq targets[n]
             /\ n \in dumped' \/ n = cur \/ errs
  <2>1. CASE n = cur
    <3>1. archive'[cur] = archive[cur] /\ Ignored("raw") = {} => archive'[cur] \subseteq targets[cur]
      BY <1>1, <1>2, <2>1 DEF Copies
    <3> QED
      BY <1>1, <1>2, <2>1, <3>1, StepArchive
  <2>2. CASE n # cur
    BY <1>1, <1>2, <2>2 DEF Copies
  <2> QED
    BY <2>1, <2>2
<1> QED
  BY <1>1, <1>2 DEF Copies

LEMMA WholeStays ==
    ASSUME Still, NEW n, NEW c, Whole(n, c)
    PROVE  c # None /\ (targets'[n] \subseteq c \/ n \in Ignored("write")')
<1>1. targets' = targets /\ Ignored("write") \subseteq Ignored("write")'
  BY StillIgnored DEF Still, loop
<1> QED
  BY <1>1 DEF Whole

LEMMA StepCompleteness ==
    ASSUME TypeOK, Course, Completeness, CreateTmpBackup
    PROVE  Completeness'
<1>1. /\ Still /\ pc = "run" /\ pc' = "run" /\ UNCHANGED <<targets, undumped, cur, errs, stored>>
      /\ dumped \subseteq dumped' /\ DOMAIN targets \subseteq Names
      /\ \A n \in Names : n # cur => archive'[n] = archive[n]
  BY StepTypes DEF Still, loop, TypeOK
<1>2. \A n, c : Whole(n, c) => c # None /\ (targets'[n] \subseteq c \/ n \in Ignored("write")')
  BY <1>1, WholeStays
<1> SUFFICES ASSUME ~errs
             PROVE  /\ \A n \in DOMAIN targets \ undumped :
                          n # cur => n \in dumped' /\ Whole(n, archive[n])'
                    /\ \A n \in Names : stored[n] # None => Whole(n, stored[n])'
  BY <1>1 DEF Completeness
<1>3. ASSUME NEW n \in DOMAIN targets \ undumped, n # cur
      PROVE  n \in dumped' /\ Whole(n, archive[n])'
  <2>1. n \in dumped /\ Whole(n, archive[n]) /\ archive'[n] = archive[n]
    BY <1>1, <1>3 DEF Completeness
  <2> QED
    BY <1>1, <1>2, <2>1 DEF Whole
<1>4. ASSUME NEW n \in Names, stored[n] # None
      PROVE  Whole(n, stored[n])'
  <2>1. Whole(n, stored[n]) /\ stored'[n] = stored[n]
    BY <1>1, <1>4 DEF Completeness
  <2> QED
    BY <1>2, <2>1 DEF Whole
<1> QED
  BY <1>3, <1>4

-----------------------------------------------------------------------------
(***************************************************************************)
(* The progress of the target in work, part by part.                       *)
(***************************************************************************)
Archived == ~failing /\ Ahead \cap Writers = {} => Whole(cur, archive[cur])

Dumped ==
    ~failing /\ Ahead \cap Packers # {} /\ Ahead \cap Dumpers = {} =>
        /\ targets[cur] \subseteq Held
        /\ "GZip" \in Ahead => raw[Dir(cur)] # None

Registered ==
    ~failing /\ job.type \in {"redis", "external"} /\ "register" \notin Ahead => cur \in dumped

LEMMA ProgressParts == ASSUME pc = "run" PROVE Progress <=> Archived /\ Dumped /\ Registered
BY DEF Progress, Archived, Dumped, Registered

LEMMA WentWell ==
    ASSUME NEW x, StepOf(x), ~failing'
    PROVE  ~failing /\ x \in Ahead /\ Ahead = {x} \cup Ahead' /\ Fits(x, Ahead')
<1>1. x \in Ahead /\ Moved(x)
  BY DEF StepOf
<1>2. Ahead = {x} \cup Ahead' /\ Fits(x, Ahead') /\ failing' = failing
  BY <1>1, Zenon DEF Moved
<1>3. ~failing
  BY <1>2, Zenon
<1> QED
  BY <1>1, <1>2, <1>3

LEMMA CallWentWell ==
    ASSUME NEW y, Called(y), ~failing'
    PROVE  ~failing /\ Ahead = {} /\ Ahead' = {}
<1>1. failing' = failing /\ Ahead = {} /\ Ahead' = {}
  BY DEF Called
<1>2. ~failing
  BY <1>1, Zenon
<1> QED
  BY <1>1, <1>2

\* What packs before it ends well has a whole dump to pack.
LEMMA PackedIsWhole ==
    ASSUME TypeOK, Course, Dumped, CreateTmpBackup, NEW x \in Packers, StepOf(x), ~failing',
           Packed(Held)
    PROVE  Whole(cur, archive[cur])'
<1>1. /\ cur \in Names /\ cur' = cur /\ {} # None /\ targets' = targets
      /\ archive \in [Names -> Contents] /\ Held # None
  BY StepTypes, Working DEF Still, loop, TypeOK, Held
<1>2. ~failing /\ Ahead \cap Packers # {} /\ Ahead \cap Dumpers = {}
  <2>1. ~failing /\ x \in Ahead /\ Ahead = {x} \cup Ahead' /\ Fits(x, Ahead')
    BY WentWell
  <2> QED
    BY <2>1 DEF Fits, Packers, Dumpers
<1>3. targets[cur] \subseteq Held
  BY <1>2 DEF Dumped
<1>4. ~Return
  BY DEF Return
<1>5. CASE archive' = [archive EXCEPT ![cur] = Held]
  <2>1. archive'[cur] = Held
    BY <1>1, <1>5
  <2> QED
    BY <1>1, <1>3, <2>1 DEF Whole
<1>6. CASE archive' = [archive EXCEPT ![cur] = {}] /\ Ignore("write")
  <2>1. archive'[cur] = {} /\ cur \in Ignored("write")'
    BY <1>1, <1>6 DEF Ignored, Ignore
  <2> QED
    BY <1>1, <2>1 DEF Whole
<1> QED
  BY <1>4, <1>5, <1>6 DEF Packed

LEMMA StepArchived ==
    ASSUME TypeOK, Course, Archived, Dumped, CreateTmpBackup
    PROVE  Archived'
<1>1. /\ Still /\ UNCHANGED <<job, targets, cur>> /\ cur \in Names
      /\ targets[cur] # None /\ {} # None
      /\ archive \in [Names -> Contents]
      /\ Ignored("write") \subseteq Ignored("write")'
  BY StepTypes, StillIgnored, Working DEF Still, loop, TypeOK
<1> SUFFICES ASSUME ~failing', Ahead' \cap Writers = {}
             PROVE  Whole(cur, archive[cur])'
  BY DEF Archived
<1>2. CASE archive' = archive /\ ((\E x \in StepNames : StepOf(x) /\ x \notin Writers) \/ \E y \in Calls : Called(y))
  <2>1. ~failing /\ Ahead \cap Writers = {}
    BY <1>2, WentWell, CallWentWell
  <2> QED
    BY <1>1, <1>2, <2>1 DEF Archived, Whole
<1>3. CASE GetGZipFileWriter
  <2>1. StepOf("GetGZipFileWriter")
    BY <1>3, StepForms
  <2> QED
    BY <2>1 DEF StepOf, Moved, Fits
<1>4. CASE DumpToArchive
  <2>1. archive' = [archive EXCEPT ![cur] = targets[cur]]
    BY <1>4 DEF DumpToArchive, Return
  <2>2. archive'[cur] = targets[cur]
    BY <1>1, <2>1
  <2> QED
    BY <1>1, <2>2 DEF Whole
<1>5. CASE Tar
  <2>1. StepOf("Tar")
    BY <1>5, StepForms
  <2>2. Packed(Held)
    BY <1>5 DEF Tar
  <2> QED
    BY <2>1, <2>2, PackedIsWhole DEF Packers
<1>6. CASE GZip
  <2>1. StepOf("GZip")
    BY <1>6, StepForms
  <2>2. ~failing /\ "GZip" \in Ahead /\ Ahead \cap Dumpers = {}
    BY <2>1, WentWell DEF Fits, Packers, Dumpers
  <2>3. Dir(cur) = cur /\ Packed(raw[cur])
    BY <1>6, <2>2 DEF GZip, Course, Dir
  <2>4. raw[Dir(cur)] # None
    BY <2>2 DEF Dumped, Packers
  <2>5. Packed(Held)
    BY <2>3, <2>4 DEF Held
  <2> QED
    BY <2>1, <2>5, PackedIsWhole DEF Packers
<1>7. CASE RunDeferred
  <2>1. PICK y \in Calls : Called(y)
    BY <1>7, CallForm
  <2>2. archive' = archive \/ (archive' = [archive EXCEPT ![cur] = {}] /\ Ignore("write"))
    BY <1>7, <2>1, CallEffect
  <2>3. CASE archive' = [archive EXCEPT ![cur] = {}] /\ Ignore("write")
    <3>1. archive'[cur] = {} /\ cur \in Ignored("write")'
      BY <1>1, <2>3 DEF Ignored, Ignore
    <3> QED
      BY <1>1, <3>1 DEF Whole
  <2> QED
    BY <1>2, <2>1, <2>2, <2>3
<1>8. CASE ~GetGZipFileWriter /\ ~DumpToArchive /\ ~Tar /\ ~GZip /\ ~RunDeferred
  <2>1. \E x \in StepNames : StepOf(x) /\ x \notin Writers
    BY <1>8, StepForms DEF CreateTmpBackup, StepNames, Writers, Packers
  <2>2. archive' = archive
    BY <1>8 DEF CreateTmpBackup, DeferRemoveAll, StopSlave, CreateTmpMysqlAuthFile, Mongodump,
                DumpToDirectory, MayFail, RemoveAll, Register, files
  <2> QED
    BY <1>2, <2>1, <2>2
<1> QED
  BY <1>3, <1>4, <1>5, <1>6, <1>7, <1>8

LEMMA StepDumped ==
    ASSUME TypeOK, Course, Dumped, CreateTmpBackup
    PROVE  Dumped'
<1>1. /\ Still /\ UNCHANGED <<job, targets, cur>> /\ cur \in Names /\ None \notin Names
      /\ targets[cur] # None
      /\ raw \in [Names \cup {None} -> Contents]
      /\ Dir(cur)' = Dir(cur)
  BY StepTypes, Working, DatabaseJobAssumption DEF Still, loop, TypeOK, Dir
<1> SUFFICES ASSUME ~failing', Ahead' \cap Packers # {}, Ahead' \cap Dumpers = {}
             PROVE  /\ targets[cur] \subseteq IF raw'[Dir(cur)] = None THEN {} ELSE raw'[Dir(cur)]
                    /\ "GZip" \in Ahead' => raw'[Dir(cur)] # None
  BY <1>1 DEF Dumped, Held
<1>2. CASE Mongodump
  <2>1. StepOf("mongodump")
    BY <1>2, StepForms
  <2>2. job.type = "mongodb"
    BY <2>1 DEF StepOf, Course
  <2>3. Dir(cur) = None /\ "GZip" \notin Ahead'
    BY <2>1, <2>2 DEF Dir, StepOf, Moved, Course
  <2>4. raw' = [raw EXCEPT ![None] = IF targets[cur] = {} THEN @ ELSE Held \cup targets[cur]]
    BY <1>2 DEF Mongodump, Return
  <2>5. raw'[None] # None => targets[cur] \subseteq raw'[None]
    BY <1>1, <2>4
  <2>6. raw'[None] = None => targets[cur] = {}
    <3>1. Held \cup targets[cur] \in SUBSET Pairs /\ targets[cur] \in SUBSET Pairs
      BY <1>1, <2>3, StepTypes, Working DEF TypeOK, Held, Contents, Still
    <3>2. Held \cup targets[cur] # None
      BY <3>1, DatabaseJobAssumption DEF Pairs
    <3> QED
      BY <1>1, <2>4, <3>2
  <2> QED
    BY <2>3, <2>5, <2>6
<1>3. CASE DumpToDirectory
  <2>1. StepOf("dump to directory")
    BY <1>3, StepForms
  <2>2. Dir(cur) = cur
    BY <2>1 DEF StepOf, Course, Dir
  <2>3. raw' = [raw EXCEPT ![cur] = targets[cur]]
    BY <1>3 DEF DumpToDirectory, Return
  <2>4. raw'[cur] = targets[cur]
    BY <1>1, <2>3
  <2> QED
    BY <1>1, <2>2, <2>4
<1>4. CASE RemoveAll
  <2>1. StepOf("RemoveAll")
    BY <1>4, StepForms
  <2> QED
    BY <2>1 DEF StepOf, Moved, Fits
<1>5. CASE RunDeferred
  <2>1. Ahead' = {}
    BY <1>5, CallForm DEF Called
  <2> QED
    BY <2>1
<1>6. CASE ~Mongodump /\ ~DumpToDirectory /\ ~RemoveAll /\ ~RunDeferred
  <2>1. \E x \in StepNames : StepOf(x) /\ x \notin Dumpers
    BY <1>6, StepForms DEF CreateTmpBackup, StepNames, Dumpers
  <2>2. raw' = raw
    BY <1>6 DEF CreateTmpBackup, DeferRemoveAll, GetGZipFileWriter, StopSlave, CreateTmpMysqlAuthFile,
                DumpToArchive, MayFail, Tar, GZip, Register, files
  <2>3. ~failing /\ Ahead \cap Packers # {} /\ Ahead \cap Dumpers = {} /\ Ahead' \subseteq Ahead
    BY <2>1, WentWell
  <2> QED
    BY <2>2, <2>3 DEF Dumped, Held
<1> QED
  BY <1>2, <1>3, <1>4, <1>5, <1>6

LEMMA StepRegistered ==
    ASSUME TypeOK, Course, Registered, CreateTmpBackup
    PROVE  Registered'
<1>1. Still /\ UNCHANGED <<job, cur>> /\ dumped \subseteq dumped'
  BY StepTypes DEF Still, loop
<1> SUFFICES ASSUME ~failing', job.type \in {"redis", "external"}, "register" \notin Ahead'
             PROVE  cur \in dumped'
  BY <1>1 DEF Registered
<1>2. CASE Register
  BY <1>2 DEF Register
<1>3. CASE RunDeferred
  <2>1. ~failing /\ Ahead = {}
    BY <1>3, CallForm DEF Called
  <2> QED
    BY <1>1, <2>1 DEF Registered
<1>4. CASE ~Register /\ ~RunDeferred
  <2>1. \E x \in StepNames : StepOf(x) /\ x # "register"
    BY <1>4, StepForms DEF CreateTmpBackup, StepNames
  <2>2. ~failing /\ "register" \notin Ahead
    BY <2>1, WentWell
  <2> QED
    BY <1>1, <2>2 DEF Registered
<1> QED
  BY <1>2, <1>3, <1>4

\* The steps of createTmpBackup keep the invariant.
LEMMA StepInv == ASSUME IInv, CreateTmpBackup PROVE IInv'
<1>1. TypeOK' /\ Still /\ pc = "run" /\ pc' = "run" /\ UNCHANGED <<job, server, targets>>
  BY StepTypes DEF IInv, Still, loop
<1>2. Rightful'
  BY <1>1 DEF IInv, Rightful
<1>3. Course'
  <2>1. (\E x \in StepNames : StepOf(x)) \/ (\E y \in Calls : Called(y))
    BY StepForms, CallForm DEF CreateTmpBackup, StepNames, IInv
  <2> QED
    BY <1>1, <2>1, StepCourse DEF IInv
<1>4. Secrets' /\ Replication'
  BY StepSecrets, StepReplication DEF IInv
<1>5. Dumps' /\ Unregistered' /\ Copies'
  BY StepDumps, StepUnregistered, StepCopies DEF IInv
<1>6. Progress'
  <2>1. Archived /\ Dumped /\ Registered
    BY <1>1, ProgressParts DEF IInv
  <2>2. Archived' /\ Dumped' /\ Registered'
    BY <2>1, StepArchived, StepDumped, StepRegistered DEF IInv
  <2> QED
    BY <1>1, <2>2 DEF Progress, Archived, Dumped, Registered
<1>7. Completeness'
  BY StepCompleteness DEF IInv
<1> QED
  BY <1>1, <1>2, <1>3, <1>4, <1>5, <1>6, <1>7 DEF IInv

-----------------------------------------------------------------------------
(***************************************************************************)
(* The job around createTmpBackup.                                         *)
(***************************************************************************)
\* Nothing is ahead but in a run.
LEMMA Idle ==
    /\ steps = <<>> => Ahead = {} /\ Ordered(steps)
    /\ defers = <<>> => Undone = {}
BY RestOfEmpty DEF Ahead, Undone

LEMMA IdleNext ==
    /\ steps' = <<>> => Ahead' = {} /\ Ordered(steps')
    /\ defers' = <<>> => Undone' = {}
BY RestOfEmpty DEF Ahead, Undone

\* What Init asks for is what the configuration wants.
LEMMA InitRightful ==
    ASSUME TypeOK, NEW t \in TargetChoices
    PROVE  /\ DOMAIN t \subseteq Names
           /\ \A n \in DOMAIN t :
                 /\ job.type \in DatabaseTypes => n \notin job.excludes
                 /\ t[n] \subseteq {n} \X Tables
                 /\ job.type \in DatabaseTypes \cup {"mysql_xtrabackup"} => t[n] \cap job.excludes = {}
           /\ job.type = "external" => \A m, n \in DOMAIN t : m = n
<1>1. /\ server \in [Names -> SUBSET Tables]
      /\ job.type \in Types /\ job.targets \subseteq Names \cup {All}
  BY DatabaseJobAssumption DEF TypeOK, Jobs
<1>2. Databases \subseteq Names /\ \A n \in Databases : n \notin job.excludes
  BY <1>1 DEF Databases
<1>3. \A n \in Names : /\ Wanted(n) \subseteq {n} \X Tables /\ Wanted(n) \cap job.excludes = {}
                       /\ {n} \X server[n] \subseteq {n} \X Tables
  <2>1. ASSUME NEW n \in Names PROVE {n} \X server[n] \subseteq {n} \X Tables
    BY <1>1
  <2> QED
    BY <2>1 DEF Wanted
<1>4. CASE job.type \in DatabaseTypes
  <2>1. t = [n \in Databases |-> Wanted(n)]
    BY <1>4 DEF TargetChoices, DatabaseTypes, MongodumpTargets, MysqldumpTargets, PgDumpTargets
  <2>2. job.type # "external"
    BY <1>4 DEF DatabaseTypes
  <2>3. DOMAIN t = Databases /\ \A n \in Databases : t[n] = Wanted(n)
    BY <2>1
  <2> QED
    BY <1>2, <1>3, <2>2, <2>3
<1>5. CASE job.type = "mysql_xtrabackup"
  <2>1. t = [n \in Names |-> Wanted(n)]
    BY <1>5 DEF TargetChoices, XtrabackupTargets
  <2>2. DOMAIN t = Names /\ \A n \in Names : t[n] = Wanted(n)
    BY <2>1
  <2>3. job.type # "external" /\ job.type \notin DatabaseTypes
    BY <1>5 DEF DatabaseTypes
  <2> QED
    BY <1>3, <2>2, <2>3
<1>6. CASE job.type \in {"postgresql_basebackup", "redis"}
  <2>1. t = [n \in Names |-> {n} \X server[n]]
    BY <1>6 DEF TargetChoices, PgBasebackupTargets, RedisTargets
  <2>2. DOMAIN t = Names /\ \A n \in Names : t[n] = {n} \X server[n]
    BY <2>1
  <2>3. job.type # "external" /\ job.type \notin DatabaseTypes \cup {"mysql_xtrabackup"}
    BY <1>6 DEF DatabaseTypes
  <2> QED
    BY <1>3, <2>2, <2>3
<1>7. CASE job.type = "external"
  <2>1. PICK m \in Names : t = [n \in {m} |-> {n} \X server[n]]
    BY <1>7 DEF TargetChoices, ExternalTargets
  <2>2. DOMAIN t = {m} /\ t[m] = {m} \X server[m]
    BY <2>1
  <2>3. job.type \notin DatabaseTypes \cup {"mysql_xtrabackup"}
    BY <1>7 DEF DatabaseTypes
  <2> QED
    BY <1>3, <2>2, <2>3
<1> QED
  BY <1>1, <1>4, <1>5, <1>6, <1>7 DEF Types, SourceTypes

LEMMA InitInv == ASSUME Init PROVE IInv
<1>1. /\ job \in JobChoices /\ server \in [Names -> SUBSET Tables]
      /\ targets = <<>> /\ undumped = {} /\ cur = None /\ pc = "init" /\ steps = <<>> /\ defers = <<>>
      /\ failing = FALSE /\ replica = "runs" /\ auth = {} /\ dumped = {} /\ errs = FALSE /\ ignored = {} /\ faults = 0
      /\ archive \in [Names -> {None}] /\ raw \in [Names \cup {None} -> {None}] /\ stored \in [Names -> {None}]
  BY DEF Init
<1>2. DOMAIN targets = {}
  BY <1>1
<1>3. Ahead = {} /\ Undone = {} /\ Ordered(steps)
  BY <1>1, Idle
<1>4. TypeOK
  <2>1. faults \in 0 .. MaxFaults
    BY <1>1, DatabaseJobAssumption
  <2>2. archive \in [Names -> Contents] /\ raw \in [Names \cup {None} -> Contents] /\ stored \in [Names -> Contents]
    BY <1>1 DEF Contents
  <2>3. steps \in Seq(StepNames) /\ defers \in Seq({"Close", "START SLAVE", "DeleteTmpMysqlAuthFile", "RemoveAll"})
    BY <1>1
  <2> QED
    BY <1>1, <1>2, <2>1, <2>2, <2>3 DEF TypeOK
<1>5. Rightful /\ Course
  BY <1>1, <1>2, <1>3 DEF Rightful, Course
<1>6. Secrets /\ Replication /\ Dumps /\ Unregistered /\ Copies
  BY <1>1, <1>3 DEF Secrets, Replication, Dumps, Unregistered, Copies
<1>7. Progress /\ Completeness
  BY <1>1, <1>2 DEF Progress, Completeness
<1> QED
  BY <1>4, <1>5, <1>6, <1>7 DEF IInv

LEMMA InitJobInv == ASSUME IInv, InitJob PROVE IInv'
<1>1. /\ pc = "init" /\ pc' = "loop" /\ targets' \in TargetChoices /\ undumped' = DOMAIN targets'
      /\ UNCHANGED <<job, server, cur, steps, defers, failing, archive, raw, auth, replica, dumped, stored, errs,
                     ignored, faults>>
  BY DEF InitJob, body, files
<1>2. /\ DOMAIN targets = {} /\ dumped = {} /\ cur = None /\ None \notin Names
      /\ steps = <<>> /\ defers = <<>>
  BY <1>1, DatabaseJobAssumption DEF IInv, TypeOK, Course
<1>3. DOMAIN targets' \subseteq Names /\ \A n \in DOMAIN targets' : targets'[n] \subseteq Pairs
  <2>1. DOMAIN targets' \subseteq Names
    BY <1>1, InitRightful DEF IInv
  <2>2. ASSUME NEW n \in DOMAIN targets' PROVE targets'[n] \subseteq Pairs
    <3>1. targets'[n] \subseteq {n} \X Tables /\ n \in Names
      BY <1>1, <2>1, <2>2, InitRightful DEF IInv
    <3> QED
      BY <3>1 DEF Pairs
  <2> QED
    BY <2>1, <2>2
<1>4. TypeOK'
  BY <1>1, <1>2, <1>3 DEF IInv, TypeOK
<1>5. Rightful'
  <2>1. \A n \in DOMAIN targets' :
            /\ job.type \in DatabaseTypes => n \notin job.excludes
            /\ targets'[n] \subseteq {n} \X Tables
            /\ job.type \in DatabaseTypes \cup {"mysql_xtrabackup"} => targets'[n] \cap job.excludes = {}
    BY <1>1, InitRightful DEF IInv
  <2>2. job.type = "external" => \A m, n \in DOMAIN targets' : m = n
    BY <1>1, InitRightful DEF IInv
  <2> QED
    BY <1>1, <2>1, <2>2 DEF Rightful
<1>6. Ahead' = {} /\ Undone' = {} /\ Ordered(steps')
  BY <1>1, <1>2, IdleNext
<1>7. Course'
  BY <1>1, <1>2, <1>6 DEF Course
<1>8. archive = [n \in Names |-> None] /\ stored = [n \in Names |-> None] /\ \A n \in Names : raw[n] = None
  <2>1. \A n \in Names : archive[n] = None /\ stored[n] = None /\ raw[n] = None
    BY <1>2 DEF IInv, Copies, Dumps
  <2> QED
    BY <2>1 DEF IInv, TypeOK
<1>9. Ahead = {} /\ Undone = {}
  BY <1>2, Idle
<1>10. Secrets' /\ Replication'
  BY <1>1, <1>6, <1>9 DEF IInv, Secrets, Replication, Ignored
<1>11. Dumps' /\ Unregistered' /\ Copies'
  BY <1>1, <1>2, <1>8, <1>9 DEF Unregistered, Ahead, IInv, Dumps, Copies, Ignored
<1>12. Progress' /\ Completeness'
  BY <1>1, <1>8 DEF Progress, Completeness
<1> QED
  BY <1>4, <1>5, <1>7, <1>10, <1>11, <1>12 DEF IInv

LEMMA InitFailsInv == ASSUME IInv, InitFails PROVE IInv'
<1>1. /\ pc = "init" /\ pc' = "done" /\ errs' = TRUE /\ (NoFault \/ Fault)
      /\ UNCHANGED <<job, server, targets, undumped, cur, steps, defers, failing, archive, raw, auth, replica, dumped,
                     stored, ignored>>
  BY DEF InitFails, loop, body, files
<1>2. TypeOK'
  <2>1. faults' \in 0 .. MaxFaults
    BY <1>1, FaultsCounted DEF IInv
  <2> QED
    BY <1>1, <2>1 DEF IInv, TypeOK
<1>3. Rightful' /\ Course'
  BY <1>1 DEF IInv, Rightful, Course, Ahead, Undone
<1>4. Secrets' /\ Replication'
  BY <1>1 DEF IInv, Secrets, Replication, Ignored, Undone
<1>5. Dumps' /\ Unregistered' /\ Copies'
  BY <1>1 DEF Unregistered, Ahead, IInv, Dumps, Copies, Ignored, Undone
<1>6. Progress' /\ Completeness'
  BY <1>1 DEF Progress, Completeness
<1> QED
  BY <1>2, <1>3, <1>4, <1>5, <1>6 DEF IInv

LEMMA BeginTargetInv == ASSUME IInv, NEW n \in Names, BeginTarget(n) PROVE IInv'
<1>1. /\ pc = "loop" /\ pc' = "run" /\ n \in undumped /\ undumped' = undumped \ {n} /\ cur' = n
      /\ steps' = Steps /\ defers' = <<>> /\ failing' = FALSE
      /\ UNCHANGED <<job, server, targets, archive, raw, auth, replica, dumped, stored, errs, ignored, faults>>
  BY DEF BeginTarget, files
<1>2. /\ cur = None /\ None \notin Names /\ undumped \subseteq DOMAIN targets /\ DOMAIN targets \subseteq Names
      /\ job \in Jobs
  BY <1>1, DatabaseJobAssumption DEF IInv, TypeOK
<1>3. Undone = {} /\ Undone' = {}
  BY <1>1, Idle, IdleNext DEF IInv, Course
<1>4. steps' \in Seq(StepNames) /\ Ordered(steps') /\ Planned(Ahead')
  BY <1>1, <1>2, StepsInOrder DEF Ahead
<1>5. TypeOK'
  <2>1. defers' \in Seq({"Close", "START SLAVE", "DeleteTmpMysqlAuthFile", "RemoveAll"})
    BY <1>1
  <2> QED
    BY <1>1, <1>2, <1>4, <2>1 DEF IInv, TypeOK
<1>6. Rightful' /\ Course'
  BY <1>1, <1>3, <1>4 DEF IInv, Rightful, Course, Planned
<1>7. Secrets' /\ Replication'
  BY <1>1, <1>3 DEF IInv, Secrets, Replication, Ignored
<1>8. Dumps' /\ Unregistered' /\ Copies'
  <2>1. dumped \subseteq DOMAIN targets \ undumped
    BY DEF IInv, TypeOK
  <2>2. n \notin dumped /\ raw[n] = None
    BY <1>1, <2>1 DEF IInv, Dumps
  <2>3. raw[None] = None \/ Ignored("raw") # {}
    BY <1>3 DEF IInv, Dumps
  <2>4. \A m \in Names : raw[m] # None =>
            /\ m \in DOMAIN targets \ undumped' /\ raw[m] \subseteq targets[m]
            /\ m \in dumped => m \in Ignored("raw")
    BY <1>1 DEF IInv, Dumps
  <2>5. Dumps'
    BY <1>1, <2>2, <2>3, <2>4 DEF Dumps, Ignored
  <2>6. Unregistered'
    BY <1>1, <2>2 DEF Unregistered
  <2>7. Copies'
    BY <1>1, <1>2 DEF IInv, Copies, Ignored
  <2> QED
    BY <2>5, <2>6, <2>7
<1>9. Progress'
  BY <1>1, <1>4 DEF Progress, Planned
<1>10. Completeness'
  BY <1>1, <1>2 DEF IInv, Completeness, Whole, Ignored
<1> QED
  BY <1>5, <1>6, <1>7, <1>8, <1>9, <1>10 DEF IInv

LEMMA MkdirFailsInv == ASSUME IInv, NEW n \in Names, MkdirFails(n) PROVE IInv'
<1>1. /\ pc = "loop" /\ n \in undumped /\ undumped' = undumped \ {n} /\ errs' = TRUE /\ Fault
      /\ UNCHANGED <<job, server, targets, cur, pc, steps, defers, failing, archive, raw, auth, replica, dumped, stored,
                     ignored>>
  BY DEF MkdirFails, body, files
<1>2. cur = None /\ undumped \subseteq DOMAIN targets
  BY <1>1 DEF IInv, TypeOK
<1>3. TypeOK'
  <2>1. faults' \in 0 .. MaxFaults
    BY <1>1, FaultsCounted DEF IInv
  <2> QED
    BY <1>1, <1>2, <2>1 DEF IInv, TypeOK
<1>4. Rightful' /\ Course'
  BY <1>1 DEF IInv, Rightful, Course, Ahead, Undone
<1>5. Secrets' /\ Replication'
  BY <1>1 DEF IInv, Secrets, Replication, Ignored, Undone
<1>6. Dumps' /\ Unregistered' /\ Copies'
  BY <1>1 DEF Unregistered, Ahead, IInv, Dumps, Copies, Ignored, Undone
<1>7. Progress' /\ Completeness'
  BY <1>1 DEF Progress, Completeness
<1> QED
  BY <1>3, <1>4, <1>5, <1>6, <1>7 DEF IInv

\* createTmpBackup has returned and done what it deferred.
LEMMA Returned ==
    ASSUME IInv, pc = "run", steps = <<>>, ~Deferred
    PROVE  /\ Ahead = {} /\ Undone = {}
           /\ cur \in DOMAIN targets \ undumped /\ cur \in Names /\ None \notin Names
           /\ ~failing => Whole(cur, archive[cur]) /\ (job.type \in {"redis", "external"} => cur \in dumped)
<1>1. Ahead = {} /\ Undone = {}
  BY Idle DEF Deferred
<1>2. cur \in DOMAIN targets \ undumped /\ cur \in Names /\ None \notin Names
  BY Working, DatabaseJobAssumption DEF IInv
<1>3. ~failing => Whole(cur, archive[cur]) /\ (job.type \in {"redis", "external"} => cur \in dumped)
  BY <1>1 DEF IInv, Progress
<1> QED
  BY <1>1, <1>2, <1>3

\* The end of a target: what is the same for all types.
Ended ==
    /\ pc = "run" /\ steps = <<>> /\ ~Deferred
    /\ cur' = None /\ errs' = (errs \/ failing)
    /\ dumped \subseteq dumped' /\ dumped' \subseteq dumped \cup {cur}
    /\ ~failing => cur \in dumped'
    /\ failing => dumped' = dumped
    /\ \/ pc' \in {"loop", "deliver"}
       \/ pc' = "deliverAll" /\ undumped = {}
       \/ pc' = "cleanup" /\ failing
    /\ UNCHANGED <<job, server, targets, undumped, steps, defers, failing, archive, raw, auth, replica, stored,
                   ignored, faults>>

LEMMA EndedInv == ASSUME IInv, Ended PROVE IInv'
<1>1. /\ pc = "run" /\ steps = <<>> /\ ~Deferred
      /\ cur' = None /\ dumped \subseteq dumped' /\ dumped' \subseteq dumped \cup {cur}
      /\ ~failing => cur \in dumped'
      /\ failing => dumped' = dumped
      /\ pc' \in {"loop", "deliver", "deliverAll", "cleanup"}
      /\ pc' = "deliverAll" => undumped = {}
      /\ pc' = "cleanup" => failing
      /\ UNCHANGED <<job, server, targets, undumped, steps, defers, failing, archive, raw, auth, replica, stored,
                     ignored, faults>>
  BY DEF Ended
<1>2. (errs => errs') /\ (failing => errs') /\ (~errs' => ~errs /\ ~failing) /\ errs' \in BOOLEAN
  BY Zenon DEF Ended
<1>3. /\ Ahead = {} /\ Undone = {} /\ cur \in DOMAIN targets \ undumped /\ cur \in Names /\ None \notin Names
      /\ ~failing => Whole(cur, archive[cur])
  BY <1>1, Returned
<1>4. Ahead' = {} /\ Undone' = {}
  BY <1>1, <1>3 DEF Ahead, Undone
<1>5. defers = <<>>
  BY <1>1 DEF Deferred
<1>6. TypeOK'
  BY <1>1, <1>2, <1>3 DEF IInv, TypeOK
<1>7. Rightful' /\ Course'
  BY <1>1, <1>2, <1>4, <1>5 DEF IInv, Rightful, Course
<1>8. Secrets' /\ Replication'
  BY <1>1, <1>3, <1>4 DEF IInv, Secrets, Replication, Ignored
<1>9. Dumps' /\ Unregistered'
  <2>1. \A n \in Names : raw[n] # None =>
            n \in DOMAIN targets \ undumped /\ raw[n] \subseteq targets[n] /\ (n \in dumped' => n \in Ignored("raw"))
    BY <1>1, <1>3 DEF IInv, Dumps
  <2>2. \A n \in Names : n # cur'
    BY <1>1, <1>3
  <2>3. raw[None] = None \/ Ignored("raw") # {}
    BY <1>3 DEF IInv, Dumps
  <2>4. Dumps'
    BY <1>1, <2>1, <2>2, <2>3 DEF Dumps, Ignored
  <2> QED
    BY <1>4, <2>4 DEF Unregistered
<1>10. Copies'
  BY <1>1, <1>2, <1>3 DEF IInv, Copies, Ignored
<1>11. Progress'
  BY <1>1 DEF Progress
<1>12. Completeness'
  BY <1>1, <1>2, <1>3 DEF IInv, Completeness, Whole, Ignored
<1> QED
  BY <1>6, <1>7, <1>8, <1>9, <1>10, <1>11, <1>12 DEF IInv

LEMMA CreatedTmpBackupInv == ASSUME IInv, CreatedTmpBackup PROVE IInv'
<1>1. pc = "run" /\ steps = <<>> /\ ~Deferred
  BY DEF CreatedTmpBackup
<1>2. ~failing => cur \in dumped'
  BY <1>1, Returned DEF CreatedTmpBackup
<1>3. Ended
  BY <1>2 DEF CreatedTmpBackup, Ended, body, files
<1> QED
  BY <1>3, EndedInv

LEMMA ExternalDoneInv == ASSUME IInv, ExternalDone PROVE IInv'
<1>1. pc = "run" /\ steps = <<>> /\ ~Deferred /\ job.type = "external" /\ dumped' = dumped
  BY DEF ExternalDone
<1>2. ~failing => cur \in dumped'
  BY <1>1, Returned
<1>3. undumped = {}
  <2>1. \A m, n \in DOMAIN targets : m = n
    BY <1>1 DEF IInv, Rightful
  <2>2. cur \in DOMAIN targets \ undumped /\ undumped \subseteq DOMAIN targets
    BY <1>1 DEF IInv, TypeOK
  <2> QED
    BY <2>1, <2>2
<1>4. Ended
  BY <1>1, <1>2, <1>3 DEF ExternalDone, Ended, body, files
<1> QED
  BY <1>4, EndedInv

LEMMA TargetsDoneInv == ASSUME IInv, TargetsDone PROVE IInv'
<1>1. /\ pc = "loop" /\ pc' = "deliverAll" /\ undumped = {}
      /\ UNCHANGED <<job, server, targets, undumped, cur, steps, defers, failing, archive, raw, auth, replica, dumped,
                     stored, errs, ignored, faults>>
  BY DEF TargetsDone, loop, body, files
<1>2. TypeOK'
  BY <1>1 DEF IInv, TypeOK
<1>3. Rightful' /\ Course'
  BY <1>1 DEF IInv, Rightful, Course, Ahead, Undone
<1>4. Secrets' /\ Replication'
  BY <1>1 DEF IInv, Secrets, Replication, Ignored, Undone
<1>5. Dumps' /\ Unregistered' /\ Copies'
  BY <1>1 DEF Unregistered, Ahead, IInv, Dumps, Copies, Ignored, Undone, Ahead
<1>6. Progress' /\ Completeness'
  BY <1>1 DEF IInv, Progress, Completeness, Whole, Ignored
<1> QED
  BY <1>2, <1>3, <1>4, <1>5, <1>6 DEF IInv

LEMMA DeliveryInv == ASSUME IInv, Delivery PROVE IInv'
<1>1. /\ pc \in {"deliver", "deliverAll"}
      /\ pc = "deliver" => pc' = "loop"
      /\ pc = "deliverAll" => pc' = "cleanup"
      /\ UNCHANGED <<job, server, targets, undumped, cur, steps, defers, failing, archive, raw, auth, replica, dumped,
                     ignored>>
  BY DEF Delivery, loop, body, files
<1>2. PICK taken \in SUBSET {n \in dumped : stored[n] = None} :
          /\ stored' = [n \in Names |-> IF n \in taken THEN archive[n] ELSE stored[n]]
          /\ \/ taken = {n \in dumped : stored[n] = None} /\ NoFault /\ UNCHANGED errs
             \/ Fault /\ errs' = TRUE
  BY DEF Delivery
<1>3. /\ cur = None /\ None \notin Names /\ dumped \subseteq DOMAIN targets \ undumped /\ DOMAIN targets \subseteq Names
      /\ archive \in [Names -> Contents] /\ stored \in [Names -> Contents]
  BY <1>1, DatabaseJobAssumption DEF IInv, TypeOK
<1>4. \A n \in Names : /\ n \in taken => stored'[n] = archive[n]
                       /\ n \notin taken => stored'[n] = stored[n]
  BY <1>2
<1>5. errs => errs'
  BY <1>2, Zenon
<1>6. TypeOK'
  <2>1. faults' \in 0 .. MaxFaults
    BY <1>2, FaultsCounted DEF IInv
  <2>2. stored' \in [Names -> Contents] /\ errs' \in BOOLEAN
    BY <1>2, <1>3 DEF IInv, TypeOK
  <2> QED
    BY <1>1, <2>1, <2>2 DEF IInv, TypeOK
<1>7. Rightful' /\ Course'
  BY <1>1, <1>5 DEF IInv, Rightful, Course, Ahead, Undone
<1>8. Secrets' /\ Replication'
  BY <1>1 DEF IInv, Secrets, Replication, Ignored, Undone
<1>9. Dumps' /\ Unregistered'
  BY <1>1, <1>5 DEF Unregistered, Ahead, IInv, Dumps, Ignored, Undone, Ahead
<1>10. Copies'
  BY <1>1, <1>2, <1>3, <1>4, <1>5 DEF IInv, Copies, Ignored
<1>11. Progress'
  BY <1>1 DEF Progress
<1>12. Completeness'
  <2> SUFFICES ASSUME ~errs'
               PROVE  Completeness'
    BY DEF Completeness
  <2>1. ~errs /\ taken = {n \in dumped : stored[n] = None}
    BY <1>2, <1>5
  <2>2. \A n \in DOMAIN targets \ undumped : n \in dumped /\ Whole(n, archive[n])
    BY <1>1, <1>3, <2>1 DEF IInv, Completeness
  <2>3. ASSUME NEW n \in Names
        PROVE  /\ stored'[n] # None => Whole(n, stored'[n])
               /\ n \in dumped => stored'[n] # None
    <3>1. stored[n] # None => Whole(n, stored[n])
      BY <2>1 DEF IInv, Completeness
    <3>2. n \in dumped => Whole(n, archive[n]) /\ archive[n] # None
      BY <1>3, <2>2 DEF Whole
    <3> QED
      BY <1>4, <2>1, <3>1, <3>2
  <2> QED
    BY <1>1, <2>2, <2>3 DEF Completeness, Whole, Ignored
<1> QED
  BY <1>6, <1>7, <1>8, <1>9, <1>10, <1>11, <1>12 DEF IInv

LEMMA CleanupTmpDataInv == ASSUME IInv, CleanupTmpData PROVE IInv'
<1>1. /\ pc = "cleanup" /\ pc' = "done"
      /\ archive' = [n \in Names |-> IF n \in dumped THEN None ELSE archive[n]]
      /\ UNCHANGED <<job, server, targets, undumped, cur, steps, defers, failing, raw, auth, replica, dumped, stored,
                     errs, ignored, faults>>
  BY DEF CleanupTmpData, loop, body
<1>2. \A n \in Names : archive'[n] = IF n \in dumped THEN None ELSE archive[n]
  BY <1>1
<1>3. TypeOK'
  <2>1. archive' \in [Names -> Contents]
    BY <1>1 DEF IInv, TypeOK, Contents
  <2> QED
    BY <1>1, <2>1 DEF IInv, TypeOK
<1>4. Rightful' /\ Course'
  BY <1>1 DEF IInv, Rightful, Course, Ahead, Undone
<1>5. Secrets' /\ Replication'
  BY <1>1 DEF IInv, Secrets, Replication, Ignored, Undone
<1>6. Dumps' /\ Unregistered' /\ Copies'
  BY <1>1, <1>2 DEF Unregistered, Ahead, IInv, Dumps, Copies, Ignored, Undone, Ahead
<1>7. Progress' /\ Completeness'
  BY <1>1 DEF IInv, Progress, Completeness, Whole, Ignored
<1> QED
  BY <1>3, <1>4, <1>5, <1>6, <1>7 DEF IInv

LEMMA NextInv == ASSUME IInv, [Next]_vars PROVE IInv'
<1>1. CASE UNCHANGED vars
  <2>1. UNCHANGED <<job, server, targets, undumped, cur, pc, steps, defers, failing, archive, raw, auth, replica, dumped,
                    stored, errs, ignored, faults>>
    BY <1>1 DEF vars, loop, body, files
  <2>2. TypeOK'
    BY <2>1 DEF IInv, TypeOK
  <2>3. Rightful' /\ Course'
    BY <2>1 DEF IInv, Rightful, Course, Ahead, Undone
  <2>4. Secrets' /\ Replication'
    BY <2>1 DEF IInv, Secrets, Replication, Ignored, Undone
  <2>5. Dumps' /\ Unregistered' /\ Copies'
    BY <2>1 DEF Unregistered, IInv, Dumps, Copies, Ignored, Undone, Ahead
  <2>6. Progress'
    BY <2>1 DEF IInv, Progress, Whole, Ignored, Ahead, Dir, Held
  <2>7. Completeness'
    BY <2>1 DEF IInv, Completeness, Whole, Ignored
  <2> QED
    BY <2>2, <2>3, <2>4, <2>5, <2>6, <2>7 DEF IInv
<1> QED
  BY <1>1, StepInv, InitJobInv, InitFailsInv, BeginTargetInv, MkdirFailsInv, CreatedTmpBackupInv, ExternalDoneInv,
     TargetsDoneInv, DeliveryInv, CleanupTmpDataInv DEF Next

-----------------------------------------------------------------------------
LEMMA Invariance == Spec => []IInv
BY InitInv, NextInv, PTL DEF Spec

\* The job, its files and the replica have the states they are meant to have.
THEOREM TypeCorrect == Spec => []TypeOK
<1>1. IInv => TypeOK
  BY DEF IInv
<1> QED
  BY <1>1, Invariance, PTL

\* A job that reports no error has stored all that Init has found, but for the
\* two ways in which the end of an archive is lost unnoticed.
THEOREM SilenceIsTrue == Spec => []SilentRunIsWhole
<1>1. IInv => SilentRunIsWhole
  <2> SUFFICES ASSUME IInv, pc = "done", ~errs, NEW n \in DOMAIN targets
               PROVE  stored[n] # None /\ (targets[n] \subseteq stored[n] \/ n \in Ignored("write"))
    BY DEF SilentRunIsWhole
  <2>1. undumped = {} /\ cur = None /\ n \in Names /\ None \notin Names
    BY DatabaseJobAssumption DEF IInv, TypeOK, Course
  <2>2. n \in dumped
    BY <2>1 DEF IInv, Completeness
  <2> QED
    BY <2>1, <2>2 DEF IInv, Completeness, Whole
<1> QED
  BY <1>1, Invariance, PTL

\* The storages get nothing that is excluded, nor one target in the archive of
\* another, as long as dumps are removed.
THEOREM TargetsAreApart == Spec => []NothingForeign
<1>1. IInv => NothingForeign
  <2> SUFFICES ASSUME IInv, NEW n \in Names, stored[n] # None, Ignored("raw") = {}
               PROVE  /\ job.type \in DatabaseTypes => n \notin job.excludes
                      /\ stored[n] \subseteq {n} \X Tables
                      /\ job.type \in DatabaseTypes \cup {"mysql_xtrabackup"} => stored[n] \cap job.excludes = {}
    BY DEF NothingForeign
  <2>1. n \in dumped /\ stored[n] \subseteq targets[n] /\ n \in DOMAIN targets
    BY DEF IInv, Copies, TypeOK
  <2>2. targets[n] \subseteq {n} \X Tables
    BY <2>1 DEF IInv, Rightful
  <2>3. stored[n] \subseteq {n} \X Tables
    BY <2>1, <2>2
  <2>4. job.type \in DatabaseTypes => n \notin job.excludes
    BY <2>1 DEF IInv, Rightful
  <2>5. job.type \in DatabaseTypes \cup {"mysql_xtrabackup"} => targets[n] \cap job.excludes = {}
    BY <2>1 DEF IInv, Rightful
  <2> QED
    BY <2>1, <2>3, <2>4, <2>5
<1> QED
  BY <1>1, Invariance, PTL

\* No step that fails leaves the file with the password.
THEOREM SecretsAreShort == Spec => []PasswordRemoved
<1>1. IInv => PasswordRemoved
  BY DEF IInv, Secrets, PasswordRemoved
<1> QED
  BY <1>1, Invariance, PTL

\* No step that fails leaves the replica stopped.
THEOREM ReplicaGoesOn == Spec => []ReplicaRunsAgain
<1>1. IInv => ReplicaRunsAgain
  <2> SUFFICES ASSUME IInv, pc # "run", replica = "stopped"
               PROVE  Ignored("replica") # {}
    BY DEF ReplicaRunsAgain
  <2>1. Undone = {}
    BY Idle DEF IInv, Course
  <2> QED
    BY <2>1 DEF IInv, Replication
<1> QED
  BY <1>1, Invariance, PTL

\* The dump of a target that is registered is gone, unless its removal failed,
\* and the shared directory of mongodump is after each target.
THEOREM DumpsAreFreed == Spec => []DumpGoesWhenRegistered
<1>1. IInv => DumpGoesWhenRegistered
  <2> SUFFICES ASSUME IInv
               PROVE  /\ \A n \in dumped : raw[n] = None \/ n \in Ignored("raw")
                      /\ pc # "run" => raw[None] = None \/ Ignored("raw") # {}
    BY DEF DumpGoesWhenRegistered
  <2>1. dumped \subseteq Names
    BY DEF IInv, TypeOK
  <2>2. \A n \in dumped : raw[n] = None \/ n \in Ignored("raw")
    BY <2>1 DEF IInv, Dumps
  <2>3. pc # "run" => Undone = {}
    BY Idle DEF IInv, Course
  <2> QED
    BY <2>2, <2>3 DEF IInv, Dumps
<1> QED
  BY <1>1, Invariance, PTL
=============================================================================
