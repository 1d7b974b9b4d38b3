------------------------- MODULE FtpConnectionProofs -------------------------
(***************************************************************************)
(* Proofs about FtpConnection, for every server, any depth of directories  *)
(* and any number of calls and failures.                                   *)
(*                                                                         *)
(* The inductive invariant says where the client is in its call (Course),  *)
(* that it dials anew only after a failure (Dialled), what has been asked  *)
(* and answered on each connection (Exchanges), and what an upload has     *)
(* carried so far (Uploads).  Unharmed adds how the calls go as long as    *)
(* nothing has failed.                                                     *)
(***************************************************************************)
EXTENDS FtpConnection, SequenceTheorems, TLAPS

Logins == {"CONNECT", "USER", "PASS", "FEAT", "TYPE", "OPTS", "NOOP"}
Steps == Commands \cup {"idle", "dial", "mkDir", "rotate", "GetEntry", "open", "connect", "transfer", "shut", "done"}
Resumes == {"idle", "mkDir", "rotate", "DELE", "done"} \cup DataCommands

\* Where client a may be, with n connections opened so far.
OnCourse(a, n) ==
    /\ a.op = "idle" <=> a.step = "idle"
    /\ a.op = "init" => a.resume = "done" /\ a.cur = 0 /\ a.step \in Logins \cup {"dial"}
    /\ a.resume = "done" => a.op = "init"
    /\ a.step \in Logins \cup {"dial"} => a.resume # "idle"
    /\ a.step = "DELE" => a.resume = "DELE"
    /\ a.resume = "DELE" => a.old > 0 /\ a.op = "rotate"
    /\ a.sent => a.step \in Commands \cup {"shut"}
    /\ a.step \in {"CONNECT", "shut"} => a.sent
    /\ a.step \in DataCommands => a.step = WantedCommand(a)
    /\ a.step \in Logins \ {"NOOP"} => a.dialing
    /\ a.dialing => a.step \in Logins /\ a.cur < n
    /\ a.cur <= n
    /\ a.result = "none" => a.cur = 0
    /\ a.cur = 0 =>
          /\ a.op \in {"init", "idle"}
          /\ a.dialing \/ a.step \in {"idle", "dial"}
          /\ a.dialing \/ n = 0 \/ (a.step = "idle" /\ a.result # "none")

Course ==
    /\ OnCourse(client, conns)
    /\ handle <=> client.step \in DataCommands \cup {"transfer"}

\* The server has refused a command, or the connection is gone.
Damaged(c) == line[c] = "closed" \/ \E i \in DOMAIN replies[c] : replies[c][i].code \in {"no", "bye"}

\* A connection is replaced only when something went wrong with it.
Dialled ==
    /\ client.dialing => faults + 1 >= conns /\ (Damaged(conns) => faults >= conns)
    /\ client.cur # 0 /\ ~client.dialing => faults + 1 >= conns
    /\ client.cur # 0 /\ ~client.dialing =>
          (client.cur < conns \/ Damaged(client.cur) \/ client.step = "dial" => faults >= conns)

From(c, i) == replies[c][i].to
OnlyFarewell(c, first) == \A i \in DOMAIN replies[c] : i >= first => From(c, i) = "none"
IsQuiet(c) == requests[c] = <<>> /\ ~sending[c] /\ OnlyFarewell(c, 1)

\* The server has not answered yet.
Asked(c, cmd) == line[c] = "open" /\ requests[c] = <<cmd>> /\ ~sending[c] /\ replies[c] = <<>>

\* It has, or it will not do so any more.
Answered(c, cmd) ==
    /\ requests[c] = <<>> /\ ~sending[c]
    /\ OnlyFarewell(c, 2)
    /\ 1 \in DOMAIN replies[c] => From(c, 1) \in {cmd, "none"}

\* It transfers, and has said so.
Transfers(c, cmd) ==
    /\ line[c] = "open" /\ requests[c] = <<cmd>> /\ sending[c]
    /\ Len(replies[c]) = 1 /\ From(c, 1) = cmd /\ replies[c][1].code = "prelim"

\* The client has read that, too.
Goes(c, cmd) == line[c] = "open" /\ requests[c] = <<cmd>> /\ sending[c] /\ replies[c] = <<>>

\* It has transferred already, and the client has read nothing of it.
Transferred(c, cmd) ==
    /\ requests[c] = <<>> /\ ~sending[c]
    /\ Len(replies[c]) >= 2 /\ From(c, 1) = cmd /\ replies[c][1].code = "prelim" /\ From(c, 2) = cmd
    /\ OnlyFarewell(c, 3)

\* Client a has something to come.
Waits(a) == a.sent \/ a.step \in {"transfer", "shut"}

\* What goes on between client a and the server on connection c.
Exchange(a, c) ==
    /\ a.step \in {"transfer", "shut"} => Goes(c, WantedCommand(a)) \/ Answered(c, WantedCommand(a))
    /\ a.sent /\ a.step \in DataCommands =>
          Asked(c, a.step) \/ Answered(c, a.step) \/ Transfers(c, a.step) \/ Transferred(c, a.step)
    /\ a.sent /\ a.step \notin DataCommands \cup {"shut"} => Asked(c, a.step) \/ Answered(c, a.step)
    /\ ~Waits(a) => IsQuiet(c)

\* On a connection that is not in use there is at most a login left.
IsIdle(c) ==
    /\ ~sending[c]
    /\ requests[c] = <<>> \/ \E cmd \in Logins : requests[c] = <<cmd>>

LineOf(a, n) == IF a.dialing THEN n ELSE a.cur

IsReply(c, r) ==
    /\ r.to = "none" => r.code = "bye" /\ line[c] = "closed"
    /\ r.code = "prelim" => r.to \in DataCommands
    /\ r.code = "absent" => r.to \in {"MLST", "MKD", "LIST"}
    /\ r.code = "file" => r.to = "MLST"

\* What holds of connection c.
Exchanged(c) ==
    /\ IF c = Conn THEN Exchange(client, c) ELSE IsIdle(c)
    /\ c = client.cur /\ client.dialing => IsQuiet(c)
    /\ line[c] = "closed" => requests[c] = <<>> /\ ~sending[c]
    /\ c > conns => line[c] = "closed" /\ replies[c] = <<>>
    /\ \A i \in DOMAIN replies[c] : IsReply(c, replies[c][i])

Exchanges == \A c \in Conns : Exchanged(c)

\* What the server says of an upload is true of its file.
Uploads ==
    /\ client.op = "deliver" /\ client.step \in {"STOR", "transfer"} =>
          \A i \in DOMAIN replies[client.cur] : replies[client.cur][i].code # "ok"
    /\ client.op = "deliver" /\ client.step = "shut" =>
          /\ data = IF copied THEN "whole" ELSE "part"
          /\ copied => \A i \in DOMAIN replies[client.cur] : replies[client.cur][i].code = "ok" => file = "whole"
    /\ StoredIsWhole

IInv == TypeOK /\ Course /\ Dialled /\ Exchanges /\ Uploads

-----------------------------------------------------------------------------
(***************************************************************************)
(* Where the client goes next.                                             *)
(***************************************************************************)
LEMMA Gone ==
    ASSUME NEW a \in Clients, NEW next \in Steps
    PROVE  LET b == Goto(a, next)
           IN /\ b \in Clients /\ b.step = next /\ b.sent = FALSE
              /\ b.op = a.op /\ b.resume = a.resume /\ b.level = a.level /\ b.old = a.old /\ b.errs = a.errs
              /\ b.last = a.last /\ b.result = a.result /\ b.cur = a.cur /\ b.dialing = a.dialing
<1>1. Goto(a, next) \in Clients
  BY DEF Goto, Clients, Steps
<1>2. LET b == Goto(a, next)
      IN /\ b.step = next /\ b.sent = FALSE
         /\ b.op = a.op /\ b.resume = a.resume /\ b.level = a.level /\ b.old = a.old /\ b.errs = a.errs
         /\ b.last = a.last /\ b.result = a.result /\ b.cur = a.cur /\ b.dialing = a.dialing
  BY DEF Goto, Clients
<1> QED
  BY <1>1, <1>2

LEMMA HasReturned ==
    ASSUME NEW a \in Clients, NEW result \in {"ok", "error", "panic"}
    PROVE  LET b == Returned(a, result)
           IN /\ b \in Clients /\ b.step = "idle" /\ b.sent = FALSE /\ b.op = "idle" /\ b.resume = "idle"
              /\ b.last = a.op /\ b.result = result /\ b.cur = a.cur /\ b.dialing = FALSE
<1>1. Goto(a, "idle") \in Clients /\ Goto(a, "idle").cur = a.cur
      /\ Goto(a, "idle").step = "idle" /\ Goto(a, "idle").sent = FALSE
  BY Gone DEF Steps
<1>2. a.op \in Operations \cup {"idle", "init"} /\ 0 \in 0 .. Depth /\ 0 \in 0 .. MaxOld
  BY FtpAssumption DEF Clients
<1> QED
  BY <1>1, <1>2 DEF Returned, Clients

LEMMA ConnUpdated ==
    ASSUME NEW a \in Clients, NEW next \in Resumes
    PROVE  LET b == UpdateConn(a, next)
           IN /\ b \in Clients /\ b.step = (IF a.cur = 0 THEN "dial" ELSE "NOOP") /\ b.sent = FALSE
              /\ b.op = a.op /\ b.resume = next /\ b.level = a.level /\ b.old = a.old /\ b.errs = a.errs
              /\ b.last = a.last /\ b.result = a.result /\ b.cur = a.cur /\ b.dialing = a.dialing
<1> DEFINE c == [a EXCEPT !.resume = next]
           where == IF a.cur = 0 THEN "dial" ELSE "NOOP"
<1>1. /\ c \in Clients /\ c.resume = next
      /\ c.op = a.op /\ c.level = a.level /\ c.old = a.old /\ c.errs = a.errs
      /\ c.last = a.last /\ c.result = a.result /\ c.cur = a.cur /\ c.dialing = a.dialing
  <2>1. c \in Clients
    BY DEF Clients, Resumes
  <2> QED
    BY <2>1 DEF Clients
<1> HIDE DEF c
<1>2. UpdateConn(a, next) = Goto(c, where)
  BY <1>1 DEF UpdateConn, c
<1>3. where \in Steps /\ where = IF a.cur = 0 THEN "dial" ELSE "NOOP"
  BY DEF Steps, Commands
<1> HIDE DEF where
<1>4. LET b == Goto(c, where)
      IN /\ b \in Clients /\ b.step = where /\ b.sent = FALSE
         /\ b.op = c.op /\ b.resume = c.resume /\ b.level = c.level /\ b.old = c.old /\ b.errs = c.errs
         /\ b.last = c.last /\ b.result = c.result /\ b.cur = c.cur /\ b.dialing = c.dialing
  BY <1>1, <1>3, Gone
<1> QED
  BY <1>1, <1>2, <1>3, <1>4
\* Client b goes on with the call of a, or has ended it; an upload has not
\* been successful then.
GoesOn(a, b, n) ==
    /\ b \in Clients /\ OnCourse(b, n) /\ ~Waits(b)
    /\ b.step \notin DataCommands /\ (b.step = "dial" => a.step = "NOOP" /\ ~a.dialing)
    /\ b.cur = a.cur /\ b.dialing = FALSE
    /\ b.op = a.op \/ (b.op = "idle" /\ b.last = a.op /\ b.result # "none")
    /\ b.op = "idle" /\ b.result = "ok" => a.op # "deliver"

\* In the midst of a call, with a connection.
InCall(a, n) ==
    /\ a \in Clients /\ a.op \notin {"init", "idle"} /\ a.result # "none"
    /\ a.cur # 0 /\ a.cur <= n /\ a.dialing = FALSE

LEMMA EndsCall ==
    ASSUME NEW a \in Clients, NEW n \in Nat, a.cur <= n, NEW result \in {"ok", "error", "panic"},
           a.op = "deliver" => result # "ok"
    PROVE  GoesOn(a, Returned(a, result), n)
<1> DEFINE b == Returned(a, result)
<1>1. /\ b \in Clients /\ b.step = "idle" /\ b.sent = FALSE /\ b.op = "idle" /\ b.resume = "idle"
      /\ b.last = a.op /\ b.result = result /\ b.cur = a.cur /\ b.dialing = FALSE
  BY HasReturned
<1> HIDE DEF b
<1>2. OnCourse(b, n)
  BY <1>1 DEF OnCourse, Logins, DataCommands
<1> QED
  BY <1>1, <1>2 DEF GoesOn, Waits, DataCommands, b

LEMMA AsksAgain ==
    ASSUME NEW n \in Nat, NEW a, InCall(a, n), NEW next \in Resumes \ {"idle", "done"},
           next = "DELE" => a.old > 0 /\ a.op = "rotate"
    PROVE  GoesOn(a, UpdateConn(a, next), n) /\ UpdateConn(a, next).step = "NOOP"
<1> DEFINE b == UpdateConn(a, next)
<1>1. /\ b \in Clients /\ b.step = "NOOP" /\ b.sent = FALSE
      /\ b.op = a.op /\ b.resume = next /\ b.old = a.old /\ b.result = a.result
      /\ b.cur = a.cur /\ b.dialing = FALSE
  BY ConnUpdated DEF InCall
<1> HIDE DEF b
<1>2. a.op \notin {"init", "idle"} /\ a.cur # 0 /\ a.cur <= n /\ a.result # "none"
  BY DEF InCall
<1>3. OnCourse(b, n)
  BY <1>1, <1>2 DEF OnCourse, Logins, DataCommands
<1> QED
  BY <1>1, <1>2, <1>3 DEF GoesOn, Waits, DataCommands, b

LEMMA GoesToNextDir ==
    ASSUME NEW n \in Nat, NEW a, InCall(a, n), a.op # "deliver"
    PROVE  GoesOn(a, NextDir(a), n)
<1>1. a \in Clients /\ a.cur <= n /\ a.level \in 0 .. Depth
  BY DEF InCall, Clients
<1>2. CASE a.level > 1
  <2> DEFINE c == [a EXCEPT !.level = @ - 1]
  <2>1. a.level - 1 \in 0 .. Depth
    BY <1>1, <1>2, FtpAssumption
  <2>2. c \in Clients /\ c.cur = a.cur /\ c.op = a.op /\ c.dialing = a.dialing /\ c.step = a.step /\ c.result = a.result
    BY <1>1, <2>1 DEF Clients
  <2> HIDE DEF c
  <2>3. InCall(c, n)
    BY <2>2 DEF InCall
  <2>4. GoesOn(c, UpdateConn(c, "LIST"), n)
    BY <2>3, AsksAgain DEF Resumes, DataCommands
  <2> QED
    BY <1>2, <2>2, <2>4 DEF NextDir, GoesOn, c
<1>3. CASE ~(a.level > 1)
  <2>1. \A result \in {"ok", "error"} : GoesOn(a, Returned(a, result), n)
    BY <1>1, EndsCall
  <2> QED
    BY <1>3, <2>1 DEF NextDir
<1> QED
  BY <1>2, <1>3

LEMMA GoesToNextOld ==
    ASSUME NEW n \in Nat, NEW a, InCall(a, n), a.op = "rotate"
    PROVE  GoesOn(a, NextOld(a), n)
<1>1. a.old > 0 => GoesOn(a, UpdateConn(a, "DELE"), n)
  BY AsksAgain DEF Resumes
<1> QED
  BY <1>1, GoesToNextDir DEF NextOld
\* The cases of Failed exclude each other.
LEMMA FailedCases ==
    ASSUME NEW a, NEW why
    PROVE  /\ a.step = "NOOP" /\ ~a.dialing => Failed(a, why) = Goto(a, "dial")
           /\ a.step = "EPSV" => Failed(a, why) = Goto(a, "PASV")
           /\ a.step = "MLST" => Failed(a, why) = IF why = "file" THEN Returned(a, "error") ELSE Goto(a, "MKD")
           /\ a.step = "DELE" => Failed(a, why) = NextOld([a EXCEPT !.old = @ - 1, !.errs = TRUE])
           /\ InListing(a) /\ a.step # "EPSV" => Failed(a, why) = ListFailed(a, why)
           /\ ~(a.step = "NOOP" /\ ~a.dialing) /\ a.step \notin {"EPSV", "MLST", "DELE"} /\ ~InListing(a)
                 => Failed(a, why) = Returned(a, "error")
<1>1. a.step = "NOOP" /\ ~a.dialing => Failed(a, why) = Goto(a, "dial")
  BY DEF Failed, InListing
<1>2. a.step = "EPSV" => Failed(a, why) = Goto(a, "PASV")
  BY DEF Failed, InListing
<1>3. a.step = "MLST" => Failed(a, why) = IF why = "file" THEN Returned(a, "error") ELSE Goto(a, "MKD")
  BY DEF Failed, InListing
<1>4. a.step = "DELE" => Failed(a, why) = NextOld([a EXCEPT !.old = @ - 1, !.errs = TRUE])
  BY DEF Failed, InListing
<1>5. InListing(a) /\ a.step # "EPSV" => Failed(a, why) = ListFailed(a, why)
  BY DEF Failed, InListing
<1>6. ~(a.step = "NOOP" /\ ~a.dialing) /\ a.step \notin {"EPSV", "MLST", "DELE"} /\ ~InListing(a)
         => Failed(a, why) = Returned(a, "error")
  BY DEF Failed
<1> QED
  BY <1>1, <1>2, <1>3, <1>4, <1>5, <1>6

LEMMA ListFailedCases ==
    ASSUME NEW a, NEW why
    PROVE  ListFailed(a, why) \in {NextDir(a), Returned(a, "error"), Returned(a, "panic")}
BY DEF ListFailed

\* A command that fails: the connection that was dialled is given up; a client
\* that has one dials anew only after NOOP.
LEMMA Fails ==
    ASSUME TypeOK, Course, client.step \in Commands \cup {"connect", "shut"},
           NEW why \in Codes \cup {"network"}
    PROVE  LET b == Failed(client, why)
           IN /\ b \in Clients /\ OnCourse(b, conns) /\ ~Waits(b)
              /\ b.step \notin DataCommands
              /\ b.cur = client.cur /\ b.dialing = FALSE
              /\ b.step = "dial" => client.step = "NOOP" /\ ~client.dialing
              /\ b.op = client.op \/ (b.op = "idle" /\ b.last = client.op)
              /\ b.op = "idle" /\ b.result = "ok" => client.op # "deliver"
<1> DEFINE b == Failed(client, why)
           a == client
           claim == /\ b \in Clients /\ OnCourse(b, conns) /\ ~Waits(b)
                    /\ b.step \notin DataCommands
                    /\ b.cur = client.cur /\ b.dialing = FALSE
                    /\ b.step = "dial" => client.step = "NOOP" /\ ~client.dialing
                    /\ b.op = client.op \/ (b.op = "idle" /\ b.last = client.op)
                    /\ b.op = "idle" /\ b.result = "ok" => client.op # "deliver"
<1> SUFFICES claim
  OBVIOUS
<1> HIDE DEF b
<1>1. a \in Clients /\ conns \in Nat /\ OnCourse(a, conns) /\ a.cur <= conns
  BY FtpAssumption DEF TypeOK, Course, OnCourse
<1>2. ASSUME b = Returned(a, "error") \/ b = Returned(a, "panic")
      PROVE  GoesOn(a, b, conns)
  <2>1. GoesOn(a, Returned(a, "error"), conns) /\ GoesOn(a, Returned(a, "panic"), conns)
    BY <1>1, EndsCall
  <2> QED
    BY <1>2, <2>1
<1>3. ASSUME a.step \notin Logins
      PROVE  InCall(a, conns)
  BY <1>1, <1>3 DEF InCall, OnCourse, Commands, DataCommands, Logins
<1>4. ASSUME GoesOn(a, b, conns)
      PROVE  claim
  BY <1>4 DEF GoesOn
<1> HIDE DEF claim
<1>5. ASSUME NEW next \in {"dial", "PASV", "MKD"}, b = Goto(a, next), ~a.dialing,
             next = "dial" <=> a.step = "NOOP", a.step = "NOOP" \/ a.step \notin Logins
      PROVE  GoesOn(a, b, conns)
  <2>1. next \in Steps
    BY DEF Steps, Commands
  <2>2. /\ b \in Clients /\ b.step = next /\ b.sent = FALSE
        /\ b.op = a.op /\ b.resume = a.resume /\ b.old = a.old /\ b.result = a.result /\ b.cur = a.cur
        /\ b.dialing = a.dialing
    BY <1>1, <1>5, <2>1, Gone
  <2> HIDE DEF b
  <2>3. a.dialing = FALSE
    BY <1>1, <1>5 DEF Clients
  <2>4. OnCourse(b, conns)
    BY <1>1, <1>5, <2>2, <2>3 DEF OnCourse, Logins, DataCommands, Commands
  <2> QED
    BY <2>2, <2>3, <2>4, <1>5 DEF GoesOn, Waits, DataCommands
<1>6. CASE a.step = "NOOP" /\ ~a.dialing
  <2>1. b = Goto(a, "dial")
    BY <1>6, FailedCases DEF b
  <2>2. GoesOn(a, b, conns)
    BY <1>5, <1>6, <2>1
  <2> QED
    BY <1>4, <1>6, <2>2
<1>7. CASE a.step = "EPSV" \/ a.step = "MLST"
  <2>1. ~a.dialing
    BY <1>1, <1>7 DEF OnCourse, Logins
  <2>2. b = Goto(a, "PASV") \/ b = Goto(a, "MKD") \/ b = Returned(a, "error")
    BY <1>7, FailedCases DEF b
  <2>3. CASE b = Returned(a, "error")
    BY <1>2, <1>4, <2>3
  <2>4. CASE b = Goto(a, "PASV") \/ b = Goto(a, "MKD")
    BY <1>4, <1>5, <1>7, <2>1, <2>4 DEF Logins
  <2> QED
    BY <2>2, <2>3, <2>4
<1>8. CASE a.step = "DELE"
  <2> DEFINE c == [a EXCEPT !.old = @ - 1, !.errs = TRUE]
  <2>1. a.op = "rotate" /\ a.old - 1 \in 0 .. MaxOld /\ InCall(a, conns)
    BY <1>1, <1>3, <1>8, FtpAssumption DEF OnCourse, Logins, Clients
  <2>2. c \in Clients /\ c.cur = a.cur /\ c.op = a.op /\ c.dialing = a.dialing /\ c.step = a.step /\ c.result = a.result
    BY <1>1, <2>1 DEF Clients
  <2>3. b = NextOld(c)
    BY <1>8, FailedCases DEF b
  <2> HIDE DEF c
  <2>4. InCall(c, conns)
    BY <2>1, <2>2 DEF InCall
  <2>5. GoesOn(c, NextOld(c), conns)
    BY <1>1, <2>1, <2>2, <2>4, GoesToNextOld
  <2>6. GoesOn(a, b, conns)
    BY <2>2, <2>3, <2>5 DEF GoesOn
  <2> QED
    BY <1>4, <2>6
<1>9. CASE InListing(a) /\ a.step # "EPSV"
  <2>1. a.op # "deliver" /\ InCall(a, conns)
    BY <1>3, <1>9 DEF InListing, Logins
  <2>2. b = ListFailed(a, why)
    <3>1. InListing(client) /\ client.step # "EPSV" => Failed(client, why) = ListFailed(client, why)
      BY FailedCases
    <3> QED
      BY <1>9, <3>1 DEF b
  <2>3. b = NextDir(a) \/ b = Returned(a, "error") \/ b = Returned(a, "panic")
    BY <2>2, ListFailedCases
  <2>4. GoesOn(a, NextDir(a), conns)
    BY <1>1, <2>1, GoesToNextDir
  <2>5. GoesOn(a, b, conns)
    BY <1>2, <2>3, <2>4
  <2> QED
    BY <1>4, <2>5
<1>10. CASE /\ ~(a.step = "NOOP" /\ ~a.dialing) /\ a.step \notin {"EPSV", "MLST", "DELE"}
            /\ ~InListing(a)
  <2>1. b = Returned(a, "error")
    <3>1. ~(client.step = "NOOP" /\ ~client.dialing) /\ client.step \notin {"EPSV", "MLST", "DELE"} /\ ~InListing(client)
            => Failed(client, why) = Returned(client, "error")
      BY FailedCases
    <3> QED
      BY <1>10, <3>1 DEF b
  <2> QED
    BY <1>2, <1>4, <2>1
<1> QED
  BY <1>6, <1>7, <1>8, <1>9, <1>10
LEMMA SucceededCases ==
    ASSUME NEW a
    PROVE  /\ a.step = "CONNECT" => Succeeded(a) = {Goto(a, "USER")}
           /\ a.step = "USER" => Succeeded(a) = {Goto(a, "PASS"), Goto(a, "FEAT")}
           /\ a.step = "PASS" => Succeeded(a) = {Goto(a, "FEAT")}
           /\ a.step = "FEAT" => Succeeded(a) = {Goto(a, "TYPE")}
           /\ a.step = "TYPE" => Succeeded(a) \in {{Goto(a, "OPTS")}, {Goto(a, "NOOP")}}
           /\ a.step = "OPTS" => Succeeded(a) = {Goto(a, "NOOP")}
           /\ a.step = "NOOP" => Succeeded(a) = {Resumed(a)}
           /\ a.step = "PRET" => Succeeded(a) \in {{Goto(a, "EPSV")}, {Goto(a, "PASV")}}
           /\ a.step \in {"EPSV", "PASV"} => Succeeded(a) = {Goto(a, "connect")}
           /\ a.step = "connect" => Succeeded(a) = {Goto(a, WantedCommand(a))}
           /\ a.step \in DataCommands => Succeeded(a) = {Goto(a, "transfer")}
           /\ a.step \in {"MLST", "MKD"} => Succeeded(a) = {NextLevel(a)}
           /\ a.step = "shut" /\ a.op = "deliver" => Succeeded(a) = {Returned(a, "ok")}
           /\ a.step = "shut" /\ a.op = "list" => Succeeded(a) = {NextDir(a)}
           /\ a.step = "shut" /\ a.op = "rotate" => Succeeded(a) = {NextOld([a EXCEPT !.old = n]) : n \in 0 .. MaxOld}
           /\ a.step = "DELE" => Succeeded(a) = {NextOld([a EXCEPT !.old = @ - 1])}
<1> USE DEF Succeeded, DataCommands
<1>1. /\ a.step = "CONNECT" => Succeeded(a) = {Goto(a, "USER")}
      /\ a.step = "USER" => Succeeded(a) = {Goto(a, "PASS"), Goto(a, "FEAT")}
      /\ a.step = "PASS" => Succeeded(a) = {Goto(a, "FEAT")}
  OBVIOUS
<1>2. /\ a.step = "FEAT" => Succeeded(a) = {Goto(a, "TYPE")}
      /\ a.step = "TYPE" => Succeeded(a) \in {{Goto(a, "OPTS")}, {Goto(a, "NOOP")}}
      /\ a.step = "OPTS" => Succeeded(a) = {Goto(a, "NOOP")}
  OBVIOUS
<1>3. /\ a.step = "NOOP" => Succeeded(a) = {Resumed(a)}
      /\ a.step = "PRET" => Succeeded(a) \in {{Goto(a, "EPSV")}, {Goto(a, "PASV")}}
      /\ a.step \in {"EPSV", "PASV"} => Succeeded(a) = {Goto(a, "connect")}
  BY DEF AddressCommand
<1>4. /\ a.step = "connect" => Succeeded(a) = {Goto(a, WantedCommand(a))}
      /\ a.step \in DataCommands => Succeeded(a) = {Goto(a, "transfer")}
      /\ a.step \in {"MLST", "MKD"} => Succeeded(a) = {NextLevel(a)}
  OBVIOUS
<1>5. a.step = "shut" /\ a.op = "deliver" => Succeeded(a) = {Returned(a, "ok")}
  OBVIOUS
<1>6. a.step = "shut" /\ a.op = "list" => Succeeded(a) = {NextDir(a)}
  OBVIOUS
<1>7. a.step = "shut" /\ a.op = "rotate" => Succeeded(a) = {NextOld([a EXCEPT !.old = n]) : n \in 0 .. MaxOld}
  OBVIOUS
<1>8. a.step = "DELE" => Succeeded(a) = {NextOld([a EXCEPT !.old = @ - 1])}
  OBVIOUS
<1> QED
  BY <1>1, <1>2, <1>3, <1>4, <1>5, <1>6, <1>7, <1>8
LEMMA ResumedCases ==
    ASSUME NEW a
    PROVE  LET b == [a EXCEPT !.cur = Conn, !.dialing = FALSE]
           IN /\ a.resume = "done" => Resumed(a) = Returned(b, "ok")
              /\ a.resume \in DataCommands => Resumed(a) = Goto(b, DataConnFrom(Conn))
              /\ a.resume \notin {"done"} \cup DataCommands => Resumed(a) = Goto(b, a.resume)
BY DEF Resumed, DataCommands

\* Client b has left the step of a after the expected reply.
Advances(a, b) ==
    /\ b \in Clients /\ OnCourse(b, conns) /\ b.sent = FALSE /\ b.step \notin {"shut", "dial"}
    /\ b.step = "transfer" <=> a.step \in DataCommands
    /\ b.step \in DataCommands <=> a.step = "connect"
    /\ b.cur = IF a.step = "NOOP" THEN Conn ELSE a.cur
    /\ b.dialing = IF a.step = "NOOP" THEN FALSE ELSE a.dialing
    /\ b.op = a.op \/ (b.op = "idle" /\ b.last = a.op)
    /\ b.op = "idle" /\ b.result = "ok" => a.op # "deliver" \/ a.step = "shut"

\* A plain step from one command to the next.
LEMMA AdvancesByGoto ==
    ASSUME TypeOK, Course, client.step # "NOOP", client.op # "idle", NEW next \in Steps \ {"idle", "shut", "dial", "CONNECT", "DELE"},
           client.step \in Logins => next \in Logins,
           next \in Logins => client.dialing,
           next = "transfer" <=> client.step \in DataCommands,
           next \in DataCommands <=> client.step = "connect",
           next \in DataCommands => next = WantedCommand(client),
           client.step \in Commands \cup {"connect"}
    PROVE  Advances(client, Goto(client, next))
<1> DEFINE b == Goto(client, next)
           a == client
<1>1. a \in Clients /\ OnCourse(a, conns)
  BY DEF TypeOK, Course
<1>2. /\ b \in Clients /\ b.step = next /\ b.sent = FALSE
      /\ b.op = a.op /\ b.resume = a.resume /\ b.old = a.old /\ b.result = a.result /\ b.cur = a.cur
      /\ b.dialing = a.dialing
  BY <1>1, Gone
<1> HIDE DEF b
<1>3. WantedCommand(b) = WantedCommand(a)
  BY <1>2 DEF WantedCommand
<1>4. OnCourse(b, conns)
  BY <1>1, <1>2, <1>3 DEF OnCourse, Logins, DataCommands, Commands
<1> QED
  BY <1>2, <1>4 DEF Advances, b

LEMMA ResumesCall ==
    ASSUME TypeOK, Course, client.step = "NOOP"
    PROVE  Advances(client, Resumed(client))
<1> DEFINE a == client
           c == [a EXCEPT !.cur = Conn, !.dialing = FALSE]
           b == Resumed(a)
<1>1. a \in Clients /\ OnCourse(a, conns) /\ conns \in 0 .. MaxFaults + 1 /\ MaxFaults \in Nat
  BY FtpAssumption DEF TypeOK, Course
<1>2. Conn \in Conns /\ Conn <= conns
  BY <1>1 DEF Conn, Conns, OnCourse, Clients
<1>3. /\ c \in Clients /\ c.cur = Conn /\ c.dialing = FALSE
      /\ c.op = a.op /\ c.resume = a.resume /\ c.old = a.old /\ c.result = a.result
  <2>1. c \in Clients
    BY <1>1, <1>2 DEF Clients
  <2> QED
    BY <1>1, <2>1 DEF Clients
<1>4. /\ a.resume = "done" => b = Returned(c, "ok")
      /\ a.resume \in DataCommands => b = Goto(c, DataConnFrom(Conn))
      /\ a.resume \notin {"done"} \cup DataCommands => b = Goto(c, a.resume)
  BY ResumedCases
<1>5. DataConnFrom(Conn) \in {"PRET", "EPSV", "PASV"}
  BY DEF DataConnFrom, AddressCommand
<1>6. a.resume \in Resumes \ {"idle"} /\ Conn # 0
  BY <1>1, <1>2 DEF OnCourse, Clients, Resumes, Conns, Logins
<1> HIDE DEF b, c
<1>7. CASE a.resume = "done"
  <2>4. LET d == Returned(c, "ok")
        IN /\ d \in Clients /\ d.step = "idle" /\ d.sent = FALSE /\ d.op = "idle" /\ d.resume = "idle"
           /\ d.last = c.op /\ d.result = "ok" /\ d.cur = c.cur /\ d.dialing = FALSE
    BY <1>3, HasReturned
  <2>1. /\ b \in Clients /\ b.step = "idle" /\ b.sent = FALSE /\ b.op = "idle" /\ b.resume = "idle"
        /\ b.last = a.op /\ b.result = "ok" /\ b.cur = Conn /\ b.dialing = FALSE
    BY <1>3, <1>4, <1>7, <2>4
  <2>2. OnCourse(b, conns)
    BY <1>2, <1>6, <2>1 DEF OnCourse, Logins, DataCommands
  <2>3. a.op = "init"
    BY <1>1, <1>7 DEF OnCourse
  <2> QED
    BY <2>1, <2>2, <2>3 DEF Advances, DataCommands, b
<1>8. ASSUME NEW next \in {"PRET", "EPSV", "PASV", "mkDir", "rotate", "DELE"}, b = Goto(c, next),
             a.resume # "done", next = "DELE" => a.resume = "DELE"
      PROVE  Advances(a, b)
  <2>1. next \in Steps
    BY DEF Steps, Commands
  <2>2. /\ b \in Clients /\ b.step = next /\ b.sent = FALSE
        /\ b.op = a.op /\ b.resume = a.resume /\ b.old = a.old /\ b.result = a.result /\ b.cur = Conn
        /\ b.dialing = FALSE
    BY <1>3, <1>8, <2>1, Gone
  <2>3. a.op \notin {"init", "idle"}
    BY <1>1, <1>8 DEF OnCourse
  <2>4. OnCourse(b, conns)
    BY <1>1, <1>2, <1>6, <1>8, <2>2, <2>3 DEF OnCourse, Logins, DataCommands, Commands
  <2> QED
    BY <1>8, <2>2, <2>3, <2>4 DEF Advances, DataCommands
<1>9. CASE a.resume \in DataCommands
  <2>1. a.resume # "done"
    BY <1>9 DEF DataCommands
  <2> QED
    BY <1>4, <1>5, <1>8, <1>9, <2>1 DEF b
<1>10. CASE a.resume \in {"mkDir", "rotate", "DELE"}
  <2>1. a.resume \notin {"done"} \cup DataCommands
    BY <1>10 DEF DataCommands
  <2> QED
    BY <1>4, <1>8, <1>10, <2>1 DEF b
<1> QED
  BY <1>6, <1>7, <1>9, <1>10 DEF Resumes, b
LEMMA AdvancesInCall ==
    ASSUME TypeOK, Course, NEW c, NEW b, GoesOn(c, b, conns), c.cur = client.cur, c.op = client.op,
           client.dialing = FALSE, c.step = client.step, client.step \notin DataCommands \cup {"connect", "NOOP"}
    PROVE  Advances(client, b)
<1>1. b \in Clients /\ OnCourse(b, conns) /\ b.cur = client.cur /\ b.dialing = FALSE
  BY DEF GoesOn
<1>2. b.sent = FALSE /\ b.step \notin {"shut", "transfer", "dial"} /\ b.step \notin DataCommands
  BY <1>1 DEF GoesOn, Waits, Clients
<1>3. /\ b.op = client.op \/ (b.op = "idle" /\ b.last = client.op)
      /\ b.op = "idle" /\ b.result = "ok" => client.op # "deliver"
  BY DEF GoesOn
<1> QED
  BY <1>1, <1>2, <1>3 DEF Advances

LEMMA AdvancesByLevel ==
    ASSUME TypeOK, Course, client.step \in {"MLST", "MKD"}
    PROVE  Advances(client, NextLevel(client))
<1> DEFINE a == client
<1>1. a \in Clients /\ OnCourse(a, conns)
  BY DEF TypeOK, Course
<1>2. a.dialing = FALSE /\ a.op \notin {"idle", "init"}
  BY <1>1 DEF OnCourse, Logins, Clients
<1>3. CASE a.level = Depth
  <2>1. Advances(a, Goto(a, "open"))
    BY <1>2, AdvancesByGoto DEF Steps, Logins, DataCommands, Commands
  <2> QED
    BY <1>3, <2>1 DEF NextLevel
<1>4. CASE a.level # Depth
  <2> DEFINE c == [a EXCEPT !.level = @ + 1]
             b == Goto(c, "GetEntry")
  <2>1. a.level + 1 \in 0 .. Depth
    BY <1>1, <1>4, FtpAssumption DEF Clients
  <2>2. /\ c \in Clients /\ c.op = a.op /\ c.resume = a.resume /\ c.old = a.old /\ c.result = a.result
        /\ c.cur = a.cur /\ c.dialing = a.dialing
    <3>1. c \in Clients
      BY <1>1, <2>1 DEF Clients
    <3> QED
      BY <1>1, <3>1 DEF Clients
  <2>3. NextLevel(a) = b
    BY <1>4 DEF NextLevel
  <2> HIDE DEF c
  <2>4. /\ b \in Clients /\ b.step = "GetEntry" /\ b.sent = FALSE
        /\ b.op = c.op /\ b.resume = c.resume /\ b.old = c.old /\ b.result = c.result /\ b.cur = c.cur
        /\ b.dialing = c.dialing
    BY <2>2, Gone DEF Steps
  <2> HIDE DEF b
  <2>5. OnCourse(b, conns)
    BY <1>1, <1>2, <2>2, <2>4 DEF OnCourse, Logins, DataCommands
  <2>6. Advances(a, b)
    BY <1>2, <2>2, <2>4, <2>5 DEF Advances, DataCommands
  <2> QED
    BY <2>3, <2>6
<1> QED
  BY <1>3, <1>4

\* Whatever the step is, the expected reply brings the client on.
LEMMA Succeeds ==
    ASSUME TypeOK, Course, client.step \in Commands \cup {"connect", "shut"}, NEW b \in Succeeded(client)
    PROVE  Advances(client, b)
<1> DEFINE a == client
<1>1. a \in Clients /\ OnCourse(a, conns) /\ conns \in Nat
  BY FtpAssumption DEF TypeOK, Course
<1>2. a.op # "idle" /\ (a.step \notin Logins => InCall(a, conns))
  BY <1>1 DEF OnCourse, Commands, Logins, DataCommands, InCall, Clients
<1>3. CASE a.step \in Logins \ {"NOOP"}
  <2>1. a.dialing
    BY <1>1, <1>3 DEF OnCourse
  <2>2. b \in {Goto(a, "USER"), Goto(a, "PASS"), Goto(a, "FEAT"), Goto(a, "TYPE"), Goto(a, "OPTS"), Goto(a, "NOOP")}
    <3>1. CASE a.step \in {"CONNECT", "USER", "PASS"}
      <4>1. Succeeded(client) \in {{Goto(client, "USER")}, {Goto(client, "PASS"), Goto(client, "FEAT")},
                                  {Goto(client, "FEAT")}}
        BY <3>1, SucceededCases
      <4> QED
        BY <4>1
    <3>2. CASE a.step \in {"FEAT", "TYPE", "OPTS"}
      <4>1. Succeeded(client) \in {{Goto(client, "TYPE")}, {Goto(client, "OPTS")}, {Goto(client, "NOOP")}}
        BY <3>2, SucceededCases
      <4> QED
        BY <4>1
    <3> QED
      BY <1>3, <3>1, <3>2 DEF Logins
  <2>3. \A next \in Logins \ {"CONNECT"} : Advances(a, Goto(a, next))
    BY <1>2, <1>3, <2>1, AdvancesByGoto DEF Steps, Logins, DataCommands, Commands
  <2> QED
    BY <2>2, <2>3 DEF Logins
<1>4. CASE a.step = "NOOP"
  BY <1>4, SucceededCases, ResumesCall
<1>5. CASE a.step \in {"PRET", "EPSV", "PASV"}
  <2>1. b \in {Goto(a, "EPSV"), Goto(a, "PASV"), Goto(a, "connect")}
    <3>1. Succeeded(client) \in {{Goto(client, "EPSV")}, {Goto(client, "PASV")}, {Goto(client, "connect")}}
      BY <1>5, SucceededCases
    <3> QED
      BY <3>1
  <2>2. \A next \in {"EPSV", "PASV", "connect"} : Advances(a, Goto(a, next))
    BY <1>2, <1>5, AdvancesByGoto DEF Steps, Logins, DataCommands, Commands
  <2> QED
    BY <2>1, <2>2
<1>6. CASE a.step = "connect"
  <2>1. b = Goto(a, WantedCommand(a)) /\ WantedCommand(a) \in DataCommands
    BY <1>6, SucceededCases DEF WantedCommand, DataCommands
  <2> QED
    BY <1>2, <1>6, <2>1, AdvancesByGoto DEF Steps, Logins, DataCommands, Commands
<1>7. CASE a.step \in DataCommands
  <2>1. b = Goto(a, "transfer")
    BY <1>7, SucceededCases
  <2> QED
    BY <1>2, <1>7, <2>1, AdvancesByGoto DEF Steps, Logins, DataCommands, Commands
<1>8. CASE a.step \in {"MLST", "MKD"}
  BY <1>8, SucceededCases, AdvancesByLevel
<1>9. CASE a.step = "DELE"
  <2> DEFINE c == [a EXCEPT !.old = @ - 1]
  <2>1. a.op = "rotate" /\ a.old - 1 \in 0 .. MaxOld /\ InCall(a, conns)
    BY <1>1, <1>2, <1>9, FtpAssumption DEF OnCourse, Logins, Clients
  <2>2. c \in Clients /\ c.cur = a.cur /\ c.op = a.op /\ c.dialing = a.dialing /\ c.step = a.step /\ c.result = a.result
    BY <1>1, <2>1 DEF Clients
  <2>3. b = NextOld(c)
    BY <1>9, SucceededCases
  <2> HIDE DEF c
  <2>4. InCall(c, conns)
    BY <2>1, <2>2 DEF InCall
  <2>5. GoesOn(c, b, conns)
    BY <1>1, <2>1, <2>2, <2>3, <2>4, GoesToNextOld
  <2> QED
    BY <1>9, <2>1, <2>2, <2>5, AdvancesInCall DEF InCall, DataCommands
<1>10. CASE a.step = "shut" /\ a.op = "rotate"
  <2>4. b \in {NextOld([a EXCEPT !.old = n]) : n \in 0 .. MaxOld}
    <3>1. Succeeded(a) = {NextOld([a EXCEPT !.old = n]) : n \in 0 .. MaxOld}
      BY <1>10, SucceededCases
    <3> QED
      BY <3>1
  <2>1. PICK n \in 0 .. MaxOld : b = NextOld([a EXCEPT !.old = n])
    BY <2>4
  <2> DEFINE c == [a EXCEPT !.old = n]
  <2>2. c \in Clients /\ c.cur = a.cur /\ c.op = a.op /\ c.dialing = a.dialing /\ c.step = a.step /\ c.result = a.result
    BY <1>1 DEF Clients
  <2>3. b = NextOld(c)
    BY <2>1
  <2> HIDE DEF c
  <2>5. InCall(a, conns) /\ InCall(c, conns)
    BY <1>2, <1>10, <2>2 DEF InCall, Logins
  <2>6. GoesOn(c, b, conns)
    BY <1>1, <1>10, <2>2, <2>3, <2>5, GoesToNextOld
  <2> QED
    BY <1>10, <2>2, <2>5, <2>6, AdvancesInCall DEF InCall, DataCommands
<1>11. CASE a.step = "shut" /\ a.op = "list"
  <2>1. b = NextDir(a) /\ InCall(a, conns)
    BY <1>2, <1>11, SucceededCases DEF Logins
  <2>2. GoesOn(a, b, conns)
    BY <1>1, <1>11, <2>1, GoesToNextDir
  <2> QED
    BY <1>11, <2>1, <2>2, AdvancesInCall DEF InCall, DataCommands
<1>12. CASE a.step = "shut" /\ a.op = "deliver"
  <2>1. b = Returned(a, "ok") /\ InCall(a, conns)
    BY <1>2, <1>12, SucceededCases DEF Logins
  <2>2. /\ b \in Clients /\ b.step = "idle" /\ b.sent = FALSE /\ b.op = "idle" /\ b.resume = "idle"
        /\ b.last = a.op /\ b.result = "ok" /\ b.cur = a.cur /\ b.dialing = FALSE
    BY <1>1, <2>1, HasReturned
  <2>3. OnCourse(b, conns)
    BY <1>1, <2>1, <2>2 DEF OnCourse, InCall, Logins, DataCommands
  <2> QED
    BY <1>12, <2>1, <2>2, <2>3 DEF Advances, InCall, DataCommands
<1>13. a.op \in {"deliver", "rotate", "list", "init", "idle"}
  BY <1>1, FtpAssumption DEF Clients
<1>14. a.step = "shut" => a.op \in {"deliver", "rotate", "list"}
  BY <1>1, <1>13 DEF OnCourse, Logins
<1> QED
  BY <1>3, <1>4, <1>5, <1>6, <1>7, <1>8, <1>9, <1>10, <1>11, <1>12, <1>14 DEF Commands, Logins, DataCommands

-----------------------------------------------------------------------------
(***************************************************************************)
(* Steps of the client that leave the connections as they are.             *)
(***************************************************************************)
LEMMA InUse ==
    ASSUME TypeOK, Course
    PROVE  /\ conns \in Nat /\ client.cur \in Nat /\ client.cur <= conns
           /\ Conn \in Conns \cup {0} /\ Conn <= conns
           /\ client.dialing => client.cur < conns
           /\ client.step \notin {"idle", "dial"} => Conn \in Conns
<1>1. client \in Clients /\ OnCourse(client, conns) /\ conns \in 0 .. MaxFaults + 1 /\ MaxFaults \in Nat
  BY FtpAssumption DEF TypeOK, Course
<1>2. client.cur \in Conns \cup {0} /\ client.dialing \in BOOLEAN
  BY <1>1 DEF Clients
<1>3. /\ client.dialing => client.cur < conns
      /\ client.cur <= conns
      /\ client.cur = 0 => client.dialing \/ client.step \in {"idle", "dial"}
  BY <1>1 DEF OnCourse
<1> QED
  BY <1>1, <1>2, <1>3 DEF Conn, Conns

\* The client leaves a connection on which nothing more is to come.
LEMMA Settled ==
    ASSUME TypeOK, Course, Exchanges, client' \in Clients,
           UNCHANGED <<conns, line, requests, sending, replies>>,
           ~Waits(client'), client'.cur = client.cur, client'.dialing => client.dialing,
           Conn \in Conns => IsQuiet(Conn)
    PROVE  Exchanges'
<1> SUFFICES ASSUME NEW c \in Conns
             PROVE  Exchanged(c)'
  BY DEF Exchanges, Conns
<1>1. Exchanged(c)
  BY DEF Exchanges
<1>2. IsQuiet(c)' <=> IsQuiet(c)
  BY DEF IsQuiet, OnlyFarewell, From
<1>3. IsIdle(c)' <=> IsIdle(c)
  BY DEF IsIdle
<1>4. \A r : IsReply(c, r)' <=> IsReply(c, r)
  BY DEF IsReply
<1>5. (IF c = Conn THEN Exchange(client, c) ELSE IsIdle(c))'
  <2>1. ASSUME c = Conn'
        PROVE  IsQuiet(c)
    <3>1. Conn' = Conn \/ (client.dialing /\ Conn' = client.cur)
      BY DEF Conn
    <3> QED
      BY <1>1, <2>1, <3>1 DEF Exchanged
  <2>2. Exchange(client, c)' <=> (~Waits(client') => IsQuiet(c)')
    BY DEF Exchange, Waits
  <2>3. IsQuiet(c) => IsIdle(c)
    BY DEF IsQuiet, IsIdle
  <2>4. c # Conn => IsIdle(c)
    BY <1>1 DEF Exchanged
  <2> QED
    BY <1>2, <1>3, <2>1, <2>2, <2>3, <2>4
<1>6. (c = client.cur /\ client.dialing => IsQuiet(c))'
  BY <1>1, <1>2 DEF Exchanged
<1>7. (\A i \in DOMAIN replies[c] : IsReply(c, replies[c][i]))'
  BY <1>1, <1>4 DEF Exchanged
<1> QED
  BY <1>1, <1>5, <1>6, <1>7 DEF Exchanged

-----------------------------------------------------------------------------
(***************************************************************************)
(* What the server and the network do on a connection.                     *)
(***************************************************************************)
LEMMA Said ==
    ASSUME NEW S, NEW s \in Seq(S), NEW x \in S
    PROVE  /\ Append(s, x) \in Seq(S) /\ Append(s, x) # <<>>
           /\ DOMAIN s = 1 .. Len(s) /\ Len(s) \in Nat
           /\ Len(Append(s, x)) = Len(s) + 1 /\ DOMAIN Append(s, x) = 1 .. Len(s) + 1
           /\ \A i \in 1 .. Len(s) : Append(s, x)[i] = s[i]
           /\ Append(s, x)[Len(s) + 1] = x
BY AppendProperties, LenProperties

LEMMA Heard ==
    ASSUME NEW S, NEW s \in Seq(S), s # <<>>
    PROVE  /\ Tail(s) \in Seq(S) /\ Head(s) \in S /\ Head(s) = s[1]
           /\ DOMAIN s = 1 .. Len(s) /\ Len(s) \in Nat \ {0}
           /\ Len(Tail(s)) = Len(s) - 1 /\ DOMAIN Tail(s) = 1 .. Len(s) - 1
           /\ \A i \in 1 .. Len(s) - 1 : Tail(s)[i] = s[i + 1]
BY HeadTailProperties, LenProperties, EmptySeq

LEMMA Untouched ==
    ASSUME NEW d \in Conns, Exchanged(d), client' = client, conns' = conns,
           line'[d] = line[d], requests'[d] = requests[d], sending'[d] = sending[d], replies'[d] = replies[d]
    PROVE  Exchanged(d)'
<1>1. Exchange(client, d)' <=> Exchange(client, d)
  BY DEF Exchange, Goes, Answered, Asked, Transfers, Transferred, IsQuiet, OnlyFarewell, From, WantedCommand, Waits
<1>2. /\ IsIdle(d)' <=> IsIdle(d)
      /\ IsQuiet(d)' <=> IsQuiet(d)
      /\ \A r : IsReply(d, r)' <=> IsReply(d, r)
  BY DEF IsIdle, IsQuiet, IsReply, OnlyFarewell, From
<1>3. Conn' = Conn
  BY DEF Conn
<1> QED
  BY <1>1, <1>2, <1>3 DEF Exchanged

LEMMA CodesOf ==
    ASSUME NEW cmd \in Commands, NEW code \in Answers(cmd) \cup Refusals(cmd)
    PROVE  /\ code \in Codes \ {"bye"}
           /\ code = "prelim" => cmd \in DataCommands
           /\ code = "absent" => cmd \in {"MLST", "MKD", "LIST"}
           /\ code = "file" => cmd = "MLST" /\ code \notin Answers(cmd)
           /\ code = "ok" => cmd \notin DataCommands
           /\ code = "no" => code \notin Answers(cmd)
BY DEF Answers, Refusals, Codes, DataCommands, Commands

\* The server has at most one command to answer, the one the client waits for.
LEMMA OneRequest ==
    ASSUME TypeOK, Course, Exchanges, NEW c \in Conns, requests[c] # <<>>
    PROVE  /\ Head(requests[c]) \in Commands /\ Tail(requests[c]) = <<>> /\ requests[c] = <<Head(requests[c])>>
           /\ c <= conns /\ line[c] = "open"
           /\ c = client.cur => ~client.dialing
           /\ ~sending[c] /\ c = Conn =>
                 client.sent /\ client.step # "shut" /\ Asked(c, client.step) /\ Head(requests[c]) = client.step
           /\ sending[c] =>
                 /\ c = Conn /\ Waits(client) /\ Head(requests[c]) \in DataCommands
                 /\ \/ Goes(c, Head(requests[c])) /\ client.step \in {"transfer", "shut"}
                       /\ Head(requests[c]) = WantedCommand(client)
                    \/ Transfers(c, Head(requests[c])) /\ client.step = Head(requests[c]) /\ client.sent
           /\ c # Conn => Head(requests[c]) \in Logins /\ ~sending[c]
<1>1. Exchanged(c) /\ requests[c] \in Seq(Commands) /\ client.sent \in BOOLEAN /\ sending[c] \in BOOLEAN
  BY DEF Exchanges, TypeOK, Clients
<1>2. \A x \in Commands : Head(<<x>>) = x /\ Tail(<<x>>) = <<>>
  OBVIOUS
<1>3. Head(requests[c]) \in Commands
  BY <1>1, Heard
<1>4. /\ line[c] = "open" /\ c <= conns
      /\ c = client.cur => ~client.dialing
  BY <1>1, InUse DEF Exchanged, IsQuiet, TypeOK, Conns
<1>5. CASE c # Conn
  <2>1. ~sending[c] /\ \E cmd \in Logins : requests[c] = <<cmd>>
    BY <1>1, <1>5 DEF Exchanged, IsIdle
  <2> QED
    BY <1>2, <1>3, <1>4, <1>5, <2>1 DEF Logins, Commands
<1>6. CASE c = Conn
  <2>1. Exchange(client, c)
    BY <1>1, <1>6 DEF Exchanged
  <2>2. Waits(client)
    BY <2>1 DEF Exchange, IsQuiet
  <2>3. client.sent => client.step \in Commands \cup {"shut"}
    BY DEF Course, OnCourse
  <2>4. WantedCommand(client) \in DataCommands /\ DataCommands \subseteq Commands
    BY DEF WantedCommand, DataCommands, Commands
  <2>5. CASE client.step \in {"transfer", "shut"}
    <3>1. Goes(c, WantedCommand(client))
      BY <2>1, <2>5 DEF Exchange, Answered
    <3> QED
      BY <1>2, <1>4, <1>6, <2>2, <2>4, <2>5, <3>1 DEF Goes
  <2>6. CASE client.sent /\ client.step \in DataCommands
    <3>1. Asked(c, client.step) \/ Transfers(c, client.step)
      BY <2>1, <2>6 DEF Exchange, Answered, Transferred
    <3> QED
      BY <1>2, <1>4, <1>6, <2>2, <2>4, <2>6, <3>1 DEF Asked, Transfers, DataCommands
  <2>7. CASE client.sent /\ client.step \notin DataCommands \cup {"shut"}
    <3>1. Asked(c, client.step)
      BY <2>1, <2>7 DEF Exchange, Answered
    <3> QED
      BY <1>2, <1>4, <1>6, <2>2, <2>3, <2>7, <3>1 DEF Asked
  <2> QED
    BY <2>2, <2>5, <2>6, <2>7 DEF Waits
<1> QED
  BY <1>5, <1>6

\* An answer, a refusal or the start of a transfer.
LEMMA AnswersInTurn ==
    ASSUME TypeOK, Course, Exchanges, NEW c \in Conns, ServerAnswers(c)
    PROVE  Exchanges'
<1> DEFINE R == [to : Commands \cup {"none"}, code : Codes]
<1>0. PICK cmd, s : cmd = Head(requests[c]) /\ s = replies[c]
  OBVIOUS
<1>1. PICK code \in Answers(cmd) \cup Refusals(cmd) :
        /\ Reply(c, cmd, code)
        /\ sending' = [sending EXCEPT ![c] = code = "prelim"]
        /\ requests' = IF code = "prelim" THEN requests ELSE [requests EXCEPT ![c] = Tail(@)]
  BY <1>0 DEF ServerAnswers
<1>2. /\ line[c] = "open" /\ requests[c] # <<>> /\ ~sending[c]
      /\ client' = client /\ conns' = conns /\ line' = line /\ Conn' = Conn
  BY DEF ServerAnswers, library, Conn
<1>3. /\ cmd \in Commands /\ Tail(requests[c]) = <<>> /\ requests[c] = <<cmd>>
      /\ c <= conns /\ (c = client.cur => ~client.dialing)
      /\ c = Conn => client.sent /\ client.step # "shut" /\ Asked(c, client.step) /\ cmd = client.step
      /\ c # Conn => cmd \in Logins
  BY <1>0, <1>2, OneRequest
<1>a. PICK x : x = [to |-> cmd, code |-> code]
  OBVIOUS
<1>4. /\ code \in Codes
      /\ code = "prelim" => cmd \in DataCommands
      /\ code = "absent" => cmd \in {"MLST", "MKD", "LIST"}
      /\ code = "file" => cmd = "MLST"
  BY <1>1, <1>3, CodesOf
<1>5. x \in R /\ x.to = cmd /\ x.code = code /\ s \in Seq(R)
  BY <1>0, <1>3, <1>4, <1>a DEF TypeOK
<1>6. /\ replies'[c] = Append(s, x)
      /\ sending'[c] = (code = "prelim")
      /\ requests'[c] = IF code = "prelim" THEN <<cmd>> ELSE <<>>
      /\ \A d \in Conns \ {c} : replies'[d] = replies[d] /\ sending'[d] = sending[d] /\ requests'[d] = requests[d]
  BY <1>0, <1>1, <1>3, <1>a DEF Reply, TypeOK
<1>7. ASSUME NEW d \in Conns, d # c
      PROVE  Exchanged(d)'
  BY <1>2, <1>6, <1>7, Untouched DEF Exchanges
<1> HIDE DEF R
<1>8. /\ DOMAIN s = 1 .. Len(s) /\ Len(s) \in Nat /\ Append(s, x) # <<>>
      /\ Len(Append(s, x)) = Len(s) + 1 /\ DOMAIN Append(s, x) = 1 .. Len(s) + 1
      /\ \A i \in 1 .. Len(s) : Append(s, x)[i] = s[i]
      /\ Append(s, x)[Len(s) + 1] = x
  BY <1>5, Said
<1>9. Exchanged(c)'
  <2>1. (IF c = Conn THEN Exchange(client, c) ELSE IsIdle(c))'
    <3>1. CASE c # Conn
      <4>1. code # "prelim"
        BY <1>3, <1>4, <3>1 DEF Logins, DataCommands
      <4> QED
        BY <1>2, <1>6, <3>1, <4>1 DEF IsIdle
    <3>2. CASE c = Conn
      <4>1. s = <<>> /\ Len(s) = 0 /\ client.sent /\ client.step = cmd /\ client.step # "shut"
        BY <1>0, <1>3, <3>2 DEF Asked
      <4>2. Append(s, x)[1] = x /\ DOMAIN Append(s, x) = {1} /\ Len(Append(s, x)) = 1
        BY <1>8, <4>1
      <4>3. ASSUME code = "prelim"
            PROVE  Transfers(c, cmd)'
        <5>1. sending'[c] /\ requests'[c] = <<cmd>> /\ line'[c] = "open" /\ replies'[c] = Append(s, x)
          BY <1>2, <1>6, <4>3
        <5> QED
          BY <1>5, <4>2, <4>3, <5>1 DEF Transfers, From
      <4>4. ASSUME code # "prelim"
            PROVE  Answered(c, cmd)'
        <5>1. ~sending'[c] /\ requests'[c] = <<>> /\ replies'[c] = Append(s, x)
          BY <1>6, <4>4
        <5> QED
          BY <1>5, <4>2, <5>1 DEF Answered, From, OnlyFarewell
      <4>5. cmd # "transfer" /\ cmd # "shut"
        BY <1>3 DEF Commands, DataCommands
      <4>6. code = "prelim" => cmd \in DataCommands
        BY <1>4
      <4>7. Exchange(client, c)'
        <5>1. CASE code = "prelim"
          BY <1>2, <4>1, <4>3, <4>5, <4>6, <5>1 DEF Exchange, Waits, Transfers, From
        <5>2. CASE code # "prelim"
          BY <1>2, <4>1, <4>4, <4>5, <5>2 DEF Exchange, Waits, Answered, OnlyFarewell, From
        <5> QED
          BY <5>1, <5>2
      <4> QED
        BY <1>2, <3>2, <4>7
    <3> QED
      BY <3>1, <3>2
  <2>2. (\A i \in DOMAIN replies[c] : IsReply(c, replies[c][i]))'
    <3>1. IsReply(c, x)'
      BY <1>3, <1>4, <1>5 DEF IsReply, Commands, DataCommands
    <3>2. \A i \in 1 .. Len(s) : IsReply(c, s[i])'
      BY <1>0, <1>2, <1>8 DEF Exchanges, Exchanged, IsReply
    <3>3. \A i \in 1 .. Len(s) + 1 : IsReply(c, Append(s, x)[i])'
      BY <1>8, <3>1, <3>2
    <3> QED
      BY <1>6, <1>8, <3>3
  <2> QED
    BY <1>2, <1>3, <2>1, <2>2, InUse DEF Exchanged, Conns
<1> QED
  BY <1>7, <1>9 DEF Exchanges, Conns

\* The end of a transfer.
LEMMA EndsInTurn ==
    ASSUME TypeOK, Course, Exchanges, NEW c \in Conns, ServerEndsTransfer(c)
    PROVE  Exchanges'
<1> DEFINE R == [to : Commands \cup {"none"}, code : Codes]
<1>0. PICK cmd, s : cmd = Head(requests[c]) /\ s = replies[c]
  OBVIOUS
<1>1. PICK code \in {"ok", "no"} : Reply(c, cmd, code)
  BY <1>0 DEF ServerEndsTransfer
<1>2. /\ line[c] = "open" /\ sending[c]
      /\ client' = client /\ conns' = conns /\ line' = line /\ Conn' = Conn
  BY DEF ServerEndsTransfer, library, Conn
<1>3. /\ sending' = [sending EXCEPT ![c] = FALSE]
      /\ requests' = [requests EXCEPT ![c] = Tail(@)]
  BY DEF ServerEndsTransfer
<1>4. requests[c] # <<>> /\ c = Conn
  <2>1. c = Conn
    BY <1>2 DEF Exchanges, Exchanged, IsIdle
  <2>2. Exchange(client, c)
    BY <2>1 DEF Exchanges, Exchanged
  <2>3. \A cmd1 : <<cmd1>> # <<>>
    OBVIOUS
  <2> QED
    BY <1>2, <2>1, <2>2, <2>3
       DEF Exchange, Goes, Answered, Asked, Transfers, Transferred, IsQuiet, Waits
<1>5. /\ cmd \in Commands /\ Tail(requests[c]) = <<>> /\ c <= conns /\ (c = client.cur => ~client.dialing)
      /\ c = Conn /\ Waits(client) /\ cmd \in DataCommands
      /\ \/ Goes(c, cmd) /\ client.step \in {"transfer", "shut"} /\ cmd = WantedCommand(client)
         \/ Transfers(c, cmd) /\ client.step = cmd /\ client.sent
  BY <1>0, <1>2, <1>4, OneRequest
<1>a. PICK x : x = [to |-> cmd, code |-> code]
  OBVIOUS
<1>6. x \in R /\ x.to = cmd /\ x.code \in {"ok", "no"} /\ s \in Seq(R)
  BY <1>0, <1>1, <1>5, <1>a DEF TypeOK, Codes
<1>7. /\ replies'[c] = Append(s, x) /\ ~sending'[c] /\ requests'[c] = <<>>
      /\ \A d \in Conns \ {c} : replies'[d] = replies[d] /\ sending'[d] = sending[d] /\ requests'[d] = requests[d]
  BY <1>0, <1>1, <1>3, <1>5, <1>a DEF Reply, TypeOK
<1>8. ASSUME NEW d \in Conns, d # c
      PROVE  Exchanged(d)'
  BY <1>2, <1>7, <1>8, Untouched DEF Exchanges
<1> HIDE DEF R
<1>9. /\ DOMAIN s = 1 .. Len(s) /\ Len(s) \in Nat /\ Append(s, x) # <<>>
      /\ Len(Append(s, x)) = Len(s) + 1 /\ DOMAIN Append(s, x) = 1 .. Len(s) + 1
      /\ \A i \in 1 .. Len(s) : Append(s, x)[i] = s[i]
      /\ Append(s, x)[Len(s) + 1] = x
  BY <1>6, Said
<1>10. Exchanged(c)'
  <2>1. Exchange(client, c)'
    <3>1. CASE Goes(c, cmd) /\ client.step \in {"transfer", "shut"} /\ cmd = WantedCommand(client)
      <4>1. s = <<>> /\ Len(s) = 0
        BY <1>0, <3>1 DEF Goes
      <4>2. Append(s, x)[1] = x /\ DOMAIN Append(s, x) = {1}
        BY <1>9, <4>1
      <4>3. Answered(c, cmd)'
        BY <1>2, <1>6, <1>7, <4>2 DEF Answered, From, OnlyFarewell
      <4>4. client.sent => client.step # "transfer"
        BY DEF Course, OnCourse, Commands, DataCommands
      <4> QED
        BY <1>2, <3>1, <4>3, <4>4
           DEF Exchange, WantedCommand, Waits, DataCommands, Answered, OnlyFarewell, From
    <3>2. CASE Transfers(c, cmd) /\ client.step = cmd /\ client.sent
      <4>1. Len(s) = 1 /\ s[1].to = cmd /\ s[1].code = "prelim"
        BY <1>0, <3>2 DEF Transfers, From
      <4>2. Append(s, x)[1] = s[1] /\ Append(s, x)[2] = x /\ DOMAIN Append(s, x) = {1, 2} /\ Len(Append(s, x)) = 2
        BY <1>9, <4>1
      <4>3. Transferred(c, cmd)'
        BY <1>2, <1>6, <1>7, <4>1, <4>2 DEF Transferred, From, OnlyFarewell
      <4>4. client.step \notin {"transfer", "shut"}
        BY <1>5, <3>2 DEF DataCommands
      <4> QED
        BY <1>2, <1>5, <3>2, <4>3, <4>4 DEF Exchange, Waits, Transferred, OnlyFarewell, From
    <3> QED
      BY <1>5, <3>1, <3>2
  <2>2. (\A i \in DOMAIN replies[c] : IsReply(c, replies[c][i]))'
    <3>1. IsReply(c, x)'
      BY <1>5, <1>6 DEF IsReply, Commands, DataCommands
    <3>2. \A i \in 1 .. Len(s) : IsReply(c, s[i])'
      BY <1>0, <1>2, <1>9 DEF Exchanges, Exchanged, IsReply
    <3>3. \A i \in 1 .. Len(s) + 1 : IsReply(c, Append(s, x)[i])'
      BY <1>9, <3>1, <3>2
    <3> QED
      BY <1>7, <1>9, <3>3
  <2> QED
    BY <1>2, <1>5, <2>1, <2>2, InUse DEF Exchanged, Conns
<1> QED
  BY <1>8, <1>10 DEF Exchanges, Conns

\* The farewell of a server that closes an idle connection.
LEMMA ClosesWhenIdle ==
    ASSUME TypeOK, Course, Exchanges, NEW c \in Conns, ServerTimesOut(c)
    PROVE  Exchanges'
<1> DEFINE R == [to : Commands \cup {"none"}, code : Codes]
<1>1. PICK s, x : s = replies[c] /\ x = [to |-> "none", code |-> "bye"]
  OBVIOUS
<1>2. /\ line[c] = "open" /\ requests[c] = <<>>
      /\ client' = client /\ conns' = conns /\ requests' = requests /\ sending' = sending /\ Conn' = Conn
      /\ line' = [line EXCEPT ![c] = "closed"]
  BY DEF ServerTimesOut, library, Conn
<1>3. x \in R /\ x.to = "none" /\ x.code = "bye" /\ s \in Seq(R)
  BY <1>1 DEF TypeOK, Codes
<1>4. /\ replies'[c] = Append(s, x) /\ line'[c] = "closed"
      /\ \A d \in Conns \ {c} : replies'[d] = replies[d] /\ line'[d] = line[d]
  BY <1>1, <1>2 DEF ServerTimesOut, Reply, TypeOK
<1>5. ASSUME NEW d \in Conns, d # c
      PROVE  Exchanged(d)'
  BY <1>2, <1>4, <1>5, Untouched DEF Exchanges
<1> HIDE DEF R
<1>6. /\ DOMAIN s = 1 .. Len(s) /\ Len(s) \in Nat
      /\ Len(Append(s, x)) = Len(s) + 1 /\ DOMAIN Append(s, x) = 1 .. Len(s) + 1
      /\ \A i \in 1 .. Len(s) : Append(s, x)[i] = s[i]
      /\ Append(s, x)[Len(s) + 1] = x
  BY <1>3, Said
<1>7. Exchanged(c) /\ \A cmd : <<cmd>> # <<>>
  BY DEF Exchanges
<1>8. ~sending[c]
  BY <1>2, <1>7
     DEF Exchanged, Exchange, IsIdle, IsQuiet, Waits, Goes, Asked, Answered, Transfers, Transferred
<1>9. ASSUME NEW cmd, Answered(c, cmd)
      PROVE  Answered(c, cmd)'
  <2>1. \A i \in 1 .. Len(s) : (i >= 2 => s[i].to = "none") /\ (i = 1 => s[i].to \in {cmd, "none"})
    BY <1>1, <1>6, <1>9 DEF Answered, OnlyFarewell, From
  <2>2. \A i \in 1 .. Len(s) + 1 : (i >= 2 => Append(s, x)[i].to = "none")
                                   /\ (i = 1 => Append(s, x)[i].to \in {cmd, "none"})
    BY <1>3, <1>6, <2>1
  <2> QED
    BY <1>2, <1>4, <1>6, <1>8, <2>2 DEF Answered, OnlyFarewell, From
<1>10. ASSUME NEW cmd, Transferred(c, cmd)
       PROVE  Transferred(c, cmd)'
  <2>1. /\ Len(s) >= 2 /\ s[1].to = cmd /\ s[1].code = "prelim" /\ s[2].to = cmd
        /\ \A i \in 1 .. Len(s) : i >= 3 => s[i].to = "none"
    BY <1>1, <1>6, <1>10 DEF Transferred, OnlyFarewell, From
  <2>2. /\ Append(s, x)[1] = s[1] /\ Append(s, x)[2] = s[2] /\ Len(Append(s, x)) >= 2
        /\ \A i \in 1 .. Len(s) + 1 : i >= 3 => Append(s, x)[i].to = "none"
    BY <1>3, <1>6, <2>1
  <2> QED
    BY <1>2, <1>4, <1>6, <1>8, <2>1, <2>2 DEF Transferred, OnlyFarewell, From
<1>11. IsQuiet(c) => IsQuiet(c)'
  <2>1. IsQuiet(c) => \A i \in 1 .. Len(s) + 1 : i >= 1 => Append(s, x)[i].to = "none"
    BY <1>1, <1>3, <1>6 DEF IsQuiet, OnlyFarewell, From
  <2> QED
    BY <1>2, <1>4, <1>6, <1>8, <2>1 DEF IsQuiet, OnlyFarewell, From
<1>12. Exchange(client, c) => Exchange(client, c)'
  <2>1. PICK w, step : w = WantedCommand(client) /\ step = client.step
    OBVIOUS
  <2>2. WantedCommand(client)' = w /\ client'.step = step
    BY <1>2, <2>1 DEF WantedCommand
  <2>3. ~Goes(c, w) /\ ~Asked(c, step) /\ ~Transfers(c, step)
    BY <1>2, <1>7 DEF Goes, Asked, Transfers
  <2>4. Answered(c, w)' <=> Answered(c, WantedCommand(client))'
    BY <2>2 DEF Answered, OnlyFarewell, From
  <2>5. /\ Answered(c, step)' <=> Answered(c, client.step)'
        /\ Transferred(c, step)' <=> Transferred(c, client.step)'
    BY <2>2 DEF Answered, Transferred, OnlyFarewell, From
  <2> QED
    BY <1>2, <1>9, <1>10, <1>11, <2>1, <2>3, <2>4, <2>5 DEF Exchange, Waits
<1>13. (\A i \in DOMAIN replies[c] : IsReply(c, replies[c][i]))'
  <2>1. \A i \in 1 .. Len(s) : (s[i].code = "prelim" => s[i].to \in DataCommands)
                               /\ (s[i].code = "absent" => s[i].to \in {"MLST", "MKD", "LIST"})
                               /\ (s[i].code = "file" => s[i].to = "MLST")
                               /\ (s[i].to = "none" => s[i].code = "bye")
    BY <1>1, <1>6, <1>7 DEF Exchanged, IsReply
  <2>2. \A i \in 1 .. Len(s) + 1 : LET y == Append(s, x)[i]
                                   IN /\ y.code = "prelim" => y.to \in DataCommands
                                      /\ y.code = "absent" => y.to \in {"MLST", "MKD", "LIST"}
                                      /\ y.code = "file" => y.to = "MLST"
                                      /\ y.to = "none" => y.code = "bye"
    BY <1>3, <1>6, <2>1
  <2> QED
    BY <1>4, <1>6, <2>2 DEF IsReply
<1>14. Exchanged(c)'
  <2>1. IsIdle(c) => IsIdle(c)'
    BY <1>2 DEF IsIdle
  <2>2. (IF c = Conn THEN Exchange(client, c) ELSE IsIdle(c))'
    BY <1>2, <1>7, <1>12, <2>1 DEF Exchanged
  <2>3. c <= conns
    BY <1>2, <1>7, InUse DEF Exchanged, Conns
  <2> QED
    BY <1>2, <1>7, <1>8, <1>11, <1>13, <2>2, <2>3, InUse DEF Exchanged, Conns
<1> QED
  BY <1>5, <1>14 DEF Exchanges, Conns

\* A broken connection has nothing left.
LEMMA Breaks ==
    ASSUME TypeOK, Course, Exchanges, NEW c \in Conns, ConnectionBreaks(c)
    PROVE  Exchanges'
<1>1. /\ line[c] = "open" /\ client' = client /\ conns' = conns /\ Conn' = Conn
      /\ line'[c] = "closed" /\ requests'[c] = <<>> /\ sending'[c] = FALSE /\ replies'[c] = <<>>
      /\ \A d \in Conns \ {c} : replies'[d] = replies[d] /\ sending'[d] = sending[d] /\ requests'[d] = requests[d]
                                /\ line'[d] = line[d]
  BY DEF ConnectionBreaks, library, Conn, TypeOK
<1>2. ASSUME NEW d \in Conns, d # c
      PROVE  Exchanged(d)'
  BY <1>1, <1>2, Untouched DEF Exchanges
<1>3. DOMAIN replies'[c] = {}
  BY <1>1
<1>4. IsQuiet(c)' /\ IsIdle(c)'
  BY <1>1, <1>3 DEF IsQuiet, IsIdle, OnlyFarewell
<1>5. Exchange(client, c)'
  BY <1>1, <1>3, <1>4 DEF Exchange, Answered, OnlyFarewell, From
<1>6. (\A i \in DOMAIN replies[c] : IsReply(c, replies[c][i]))'
  BY <1>3
<1>7. Exchanged(c)'
  BY <1>1, <1>4, <1>5, <1>6 DEF Exchanged
<1> QED
  BY <1>2, <1>7 DEF Exchanges, Conns

-----------------------------------------------------------------------------
(***************************************************************************)
(* Steps of the client that use the connections.                           *)
(***************************************************************************)
\* A new connection; the one it is to replace is quiet.
LEMMA DialsAnew ==
    ASSUME TypeOK, Course, Exchanges, client.step = "dial", conns + 1 \in Conns,
           conns' = conns + 1, line' = [line EXCEPT ![conns'] = "open"],
           requests' = [requests EXCEPT ![conns'] = <<"CONNECT">>], UNCHANGED <<sending, replies>>,
           client'.step = "CONNECT", client'.sent = TRUE, client'.dialing = TRUE, client'.cur = client.cur
    PROVE  Exchanges'
<1>1. PICK n : n = conns + 1
  OBVIOUS
<1>2. /\ n \in Conns /\ conns' = n /\ Conn' = n /\ conns \in Nat /\ Conn <= conns /\ client.cur <= conns
      /\ ~client.dialing /\ Conn = client.cur
  <2>1. ~client.dialing
    BY DEF Course, OnCourse, Logins
  <2> QED
    BY <1>1, <2>1, InUse DEF Conn
<1>3. /\ line'[n] = "open" /\ requests'[n] = <<"CONNECT">> /\ sending' = sending /\ replies' = replies
      /\ \A d \in Conns \ {n} : line'[d] = line[d] /\ requests'[d] = requests[d]
  BY <1>2 DEF TypeOK
<1>4. line[n] = "closed" /\ replies[n] = <<>> /\ ~sending[n]
  BY <1>1, <1>2 DEF Exchanges, Exchanged
<1>5. DOMAIN replies'[n] = {}
  BY <1>3, <1>4
<1>6. Exchanged(n)'
  <2>1. Asked(n, "CONNECT")'
    BY <1>3, <1>4 DEF Asked
  <2>2. Exchange(client, n)'
    BY <2>1 DEF Exchange, Waits, DataCommands, Asked
  <2>3. (\A i \in DOMAIN replies[n] : IsReply(n, replies[n][i]))'
    BY <1>5
  <2>4. n # client'.cur /\ ~(n > n)
    BY <1>1, <1>2
  <2> QED
    BY <1>2, <1>3, <2>2, <2>3, <2>4 DEF Exchanged
<1>7. ASSUME NEW d \in Conns, d # n
      PROVE  Exchanged(d)'
  <2>1. Exchanged(d)
    BY DEF Exchanges
  <2>2. /\ IsIdle(d)' <=> IsIdle(d)
        /\ IsQuiet(d)' <=> IsQuiet(d)
        /\ \A r : IsReply(d, r)' <=> IsReply(d, r)
    BY <1>3, <1>7 DEF IsIdle, IsQuiet, IsReply, OnlyFarewell, From
  <2>3. d = Conn => IsQuiet(d)
    BY <2>1 DEF Exchanged, Exchange, Waits, Course, OnCourse, Commands, DataCommands
  <2>4. IsQuiet(d) => IsIdle(d)
    BY DEF IsQuiet, IsIdle
  <2>5. d > n => d > conns
    BY <1>1, <1>2 DEF Conns
  <2>6. (\A i \in DOMAIN replies[d] : IsReply(d, replies[d][i]))'
    BY <1>3, <2>1, <2>2 DEF Exchanged
  <2> QED
    BY <1>2, <1>3, <1>7, <2>1, <2>2, <2>3, <2>4, <2>5, <2>6 DEF Exchanged
<1> QED
  BY <1>6, <1>7 DEF Exchanges, Conns

\* On a quiet connection that is open nothing is left to read.
LEMMA QuietIsEmpty ==
    ASSUME TypeOK, Exchanges, NEW c \in Conns, IsQuiet(c), line[c] = "open"
    PROVE  replies[c] = <<>>
<1>1. \A i \in DOMAIN replies[c] : replies[c][i].to = "none" /\ IsReply(c, replies[c][i])
  BY DEF Exchanges, Exchanged, IsQuiet, OnlyFarewell, From, TypeOK
<1>2. DOMAIN replies[c] = {}
  BY <1>1 DEF IsReply
<1>3. replies[c] \in Seq([to : Commands \cup {"none"}, code : Codes])
  BY DEF TypeOK
<1>4. DOMAIN replies[c] = 1 .. Len(replies[c]) /\ Len(replies[c]) \in Nat
  BY <1>3, LenProperties
<1>5. 1 \notin 1 .. Len(replies[c])
  BY <1>2, <1>4
<1>6. Len(replies[c]) \notin Nat \ {0}
  BY <1>5
<1> QED
  BY <1>3, <1>6, EmptySeq

LEMMA SendsInTurn ==
    ASSUME TypeOK, Course, Exchanges, client.step \in Commands, ~client.sent,
           client' = [client EXCEPT !.sent = TRUE],
           requests' = IF line[Conn] = "open"
                       THEN [requests EXCEPT ![Conn] = Append(@, client.step)] ELSE requests,
           UNCHANGED <<conns, line, sending, replies>>
    PROVE  Exchanges'
<1>1. PICK c, step : c = Conn /\ step = client.step
  OBVIOUS
<1>2. /\ client'.sent = TRUE /\ client'.step = step /\ client'.cur = client.cur
      /\ client'.dialing = client.dialing /\ client'.op = client.op
  BY <1>1 DEF TypeOK, Clients
<1>3. c \in Conns /\ Conn' = c /\ Conn = c /\ step \in Commands
  BY <1>1, <1>2, InUse DEF Conn, Commands, DataCommands
<1>4. step \notin {"transfer", "shut"}
  BY <1>3 DEF Commands, DataCommands
<1>5. Exchanged(c) /\ IsQuiet(c)
  BY <1>1, <1>3, <1>4 DEF Exchanges, Exchanged, Exchange, Waits
<1>6. /\ \A d \in Conns \ {c} : requests'[d] = requests[d]
      /\ requests'[c] = IF line[c] = "open" THEN <<step>> ELSE <<>>
  <2>1. requests[c] = <<>> /\ Append(<<>>, step) = <<step>>
    BY <1>5 DEF IsQuiet
  <2> QED
    BY <1>1, <1>3, <2>1 DEF TypeOK
<1>7. Exchange(client, c)'
  <2>1. CASE line[c] = "open"
    <3>1. replies[c] = <<>>
      BY <1>3, <1>5, <2>1, QuietIsEmpty
    <3>2. Asked(c, step)'
      BY <1>5, <1>6, <2>1, <3>1 DEF Asked, IsQuiet
    <3> QED
      BY <1>2, <1>4, <3>2 DEF Exchange, Waits, Asked
  <2>2. CASE line[c] # "open"
    <3>1. \A i \in DOMAIN replies[c] : i \in Nat
      <4>1. replies[c] \in Seq([to : Commands \cup {"none"}, code : Codes])
        BY <1>3 DEF TypeOK
      <4> QED
        BY <4>1, LenProperties
    <3>2. Answered(c, step)'
      BY <1>3, <1>5, <1>6, <2>2, <3>1 DEF Answered, IsQuiet, OnlyFarewell, From
    <3> QED
      BY <1>2, <1>4, <3>2 DEF Exchange, Waits, Answered, OnlyFarewell, From
  <2> QED
    BY <2>1, <2>2
<1>8. Exchanged(c)'
  <2>1. (\A i \in DOMAIN replies[c] : IsReply(c, replies[c][i]))'
    BY <1>5 DEF Exchanged, IsReply
  <2>2. c = client.cur => ~client.dialing
    BY <1>1, InUse DEF Conn
  <2> QED
    BY <1>2, <1>3, <1>5, <1>6, <1>7, <2>1, <2>2 DEF Exchanged
<1>9. ASSUME NEW d \in Conns, d # c
      PROVE  Exchanged(d)'
  <2>1. /\ IsIdle(d)' <=> IsIdle(d)
        /\ IsQuiet(d)' <=> IsQuiet(d)
        /\ \A r : IsReply(d, r)' <=> IsReply(d, r)
    BY <1>6, <1>9 DEF IsIdle, IsQuiet, IsReply, OnlyFarewell, From
  <2>2. Exchanged(d) /\ ~(IsIdle(d) /\ requests[d] = <<>> /\ requests'[d] # <<>>)
    BY <1>6, <1>9 DEF Exchanges
  <2>3. (\A i \in DOMAIN replies[d] : IsReply(d, replies[d][i]))'
    BY <2>1, <2>2 DEF Exchanged
  <2> QED
    BY <1>2, <1>3, <1>6, <1>9, <2>1, <2>2, <2>3 DEF Exchanged
<1> QED
  BY <1>8, <1>9 DEF Exchanges, Conns

\* The end of the copy.
LEMMA ShutsInTurn ==
    ASSUME TypeOK, Course, Exchanges, client.step = "transfer",
           client' = AfterCopy(TRUE), UNCHANGED <<conns, line, requests, sending, replies>>
    PROVE  Exchanges'
<1>1. /\ client'.step = "shut" /\ client'.sent = TRUE /\ client'.cur = client.cur
      /\ client'.dialing = client.dialing /\ client'.op = client.op
  <2>1. Goto(client, "shut").step = "shut" /\ Goto(client, "shut") \in Clients
        /\ Goto(client, "shut").cur = client.cur /\ Goto(client, "shut").op = client.op
        /\ Goto(client, "shut").dialing = client.dialing
    <3>1. client \in Clients /\ "shut" \in Steps
      BY DEF TypeOK, Steps
    <3> QED
      BY <3>1, Gone
  <2> QED
    BY <2>1 DEF AfterCopy, Clients
<1>2. Conn' = Conn
  BY <1>1 DEF Conn
<1> SUFFICES ASSUME NEW c \in Conns
             PROVE  Exchanged(c)'
  BY DEF Exchanges, Conns
<1>3. Exchange(client, c) => Exchange(client, c)'
  <2>1. WantedCommand(client') = WantedCommand(client)
    BY <1>1 DEF WantedCommand
  <2> QED
    BY <1>1, <2>1 DEF Exchange, Waits, Goes, Answered, OnlyFarewell, From, DataCommands
<1>4. /\ IsIdle(c)' <=> IsIdle(c)
      /\ IsQuiet(c)' <=> IsQuiet(c)
      /\ \A r : IsReply(c, r)' <=> IsReply(c, r)
  BY DEF IsIdle, IsQuiet, IsReply, OnlyFarewell, From
<1>5. (\A i \in DOMAIN replies[c] : IsReply(c, replies[c][i]))'
  BY <1>4 DEF Exchanges, Exchanged
<1> QED
  BY <1>1, <1>2, <1>3, <1>4, <1>5 DEF Exchanges, Exchanged

\* What is left on the connection once the first reply is read.
LEMMA Reads ==
    ASSUME TypeOK, Course, Exchanges, NEW c \in Conns, c = Conn, client.sent, replies[c] # <<>>,
           NEW step, step = client.step,
           replies' = [replies EXCEPT ![c] = Tail(@)], UNCHANGED <<conns, line, requests, sending>>
    PROVE  /\ ~(step \in DataCommands /\ Head(replies[c]).code = "prelim") => IsQuiet(c)'
           /\ step \in DataCommands /\ Head(replies[c]).code = "prelim" =>
                 Goes(c, step)' \/ Answered(c, step)'
           /\ \A i \in DOMAIN replies'[c] : i + 1 \in DOMAIN replies[c] /\ replies'[c][i] = replies[c][i + 1]
           /\ (\A i \in DOMAIN replies[c] : IsReply(c, replies[c][i]))'
           /\ 1 \in DOMAIN replies[c] /\ Head(replies[c]) = replies[c][1] /\ Head(replies[c]).code \in Codes
           /\ step # "transfer"
<1> DEFINE R == [to : Commands \cup {"none"}, code : Codes]
<1>1. PICK s, t, code : s = replies[c] /\ t = Tail(s) /\ code = Head(s).code
  OBVIOUS
<1>2. s \in Seq(R) /\ s # <<>> /\ t = Tail(s)
  BY <1>1 DEF TypeOK
<1>3. replies'[c] = t
  BY <1>1 DEF TypeOK
<1>4. /\ Head(s) \in R /\ Head(s) = s[1]
      /\ DOMAIN s = 1 .. Len(s) /\ Len(s) \in Nat \ {0}
      /\ Len(t) = Len(s) - 1 /\ DOMAIN t = 1 .. Len(s) - 1
      /\ \A i \in 1 .. Len(s) - 1 : t[i] = s[i + 1]
      /\ t \in Seq(R)
  BY <1>2, Heard
<1> HIDE DEF R
<1>5. \A i \in DOMAIN t : i \in Nat /\ i >= 1 /\ i + 1 \in DOMAIN s /\ t[i] = s[i + 1]
  BY <1>4
<1>6. Exchanged(c) /\ Exchange(client, c)
  BY DEF Exchanges, Exchanged
<1>7. (\A i \in DOMAIN replies[c] : IsReply(c, replies[c][i]))'
  <2>1. \A i \in DOMAIN s : IsReply(c, s[i])
    BY <1>1, <1>6 DEF Exchanged
  <2>2. \A i \in DOMAIN t : IsReply(c, t[i])'
    BY <1>5, <2>1 DEF IsReply
  <2> QED
    BY <1>3, <2>2
<1>8. step # "transfer" /\ (step \in Commands \/ step = "shut")
  BY DEF Course, OnCourse, Commands, DataCommands
<1>9. ASSUME NEW cmd, Answered(c, cmd)
      PROVE  IsQuiet(c)'
  <2>1. \A i \in DOMAIN s : i >= 2 => s[i].to = "none"
    BY <1>1, <1>9 DEF Answered, OnlyFarewell, From
  <2>2. \A i \in DOMAIN t : t[i].to = "none"
    BY <1>5, <2>1
  <2> QED
    BY <1>3, <1>9, <2>2 DEF Answered, IsQuiet, OnlyFarewell, From
<1>10. ASSUME NEW cmd, IsQuiet(c)'
       PROVE  Answered(c, cmd)'
  <2>1. \A i \in DOMAIN t : t[i].to = "none"
    BY <1>3, <1>5, <1>10 DEF IsQuiet, OnlyFarewell, From
  <2> QED
    BY <1>3, <1>10, <2>1 DEF Answered, IsQuiet, OnlyFarewell, From
<1>11. ASSUME NEW cmd, Transferred(c, cmd)
       PROVE  Answered(c, cmd)' /\ code = "prelim"
  <2>1. /\ Len(s) >= 2 /\ s[1].code = "prelim" /\ s[2].to = cmd
        /\ \A i \in DOMAIN s : i >= 3 => s[i].to = "none"
    BY <1>1, <1>11 DEF Transferred, OnlyFarewell, From
  <2>2. \A i \in DOMAIN t : (i = 1 => t[i].to = cmd) /\ (i >= 2 => t[i].to = "none")
    BY <1>5, <2>1
  <2> QED
    <3>1. code = "prelim"
      BY <1>1, <1>4, <2>1
    <3>2. Answered(c, cmd)'
      BY <1>3, <1>11, <2>2 DEF Answered, Transferred, OnlyFarewell, From
    <3> QED
      BY <3>1, <3>2
<1>12. ASSUME NEW cmd, Transfers(c, cmd)
       PROVE  Goes(c, cmd)' /\ code = "prelim"
  <2>1. Len(s) = 1 /\ s[1].code = "prelim"
    BY <1>1, <1>12 DEF Transfers
  <2>2. t = <<>>
    <3>1. Len(t) \notin Nat \ {0}
      BY <1>4, <2>1
    <3>2. t \in Seq(R)
      BY <1>4
    <3> QED
      BY <3>1, <3>2, EmptySeq, Zenon
  <2> QED
    BY <1>1, <1>3, <1>4, <1>12, <2>1, <2>2 DEF Transfers, Goes
<1>13. ~Goes(c, WantedCommand(client)) /\ ~Asked(c, step)
  BY DEF Goes, Asked
<1>14. \A i \in DOMAIN replies'[c] : i + 1 \in DOMAIN replies[c] /\ replies'[c][i] = replies[c][i + 1]
  BY <1>1, <1>3, <1>5
<1>15. 1 \in DOMAIN replies[c] /\ Head(replies[c]) = replies[c][1]
  BY <1>1, <1>4
<1>16. Head(replies[c]).code \in Codes /\ Head(replies[c]).code = code
  BY <1>1, <1>4 DEF R
<1>17. CASE step \in DataCommands
  <2>1. Answered(c, step) \/ Transfers(c, step) \/ Transferred(c, step)
    BY <1>1, <1>6, <1>13, <1>17 DEF Exchange
  <2>2. code # "prelim" => IsQuiet(c)'
    BY <1>9, <1>11, <1>12, <2>1
  <2>3. Goes(c, step)' \/ Answered(c, step)'
    BY <1>9, <1>10, <1>11, <1>12, <2>1
  <2> QED
    BY <1>7, <1>8, <1>17, <1>14, <1>15, <1>16, <2>2, <2>3
<1>18. CASE step \notin DataCommands
  <2>1. \E cmd : Answered(c, cmd)
    BY <1>1, <1>6, <1>8, <1>13, <1>18 DEF Exchange
  <2>2. IsQuiet(c)'
    BY <1>9, <2>1
  <2> QED
    BY <1>7, <1>8, <1>18, <1>14, <1>15, <1>16, <2>2
<1> QED
  BY <1>17, <1>18

\* Only a refusal or the end of a connection disturbs a login.
LEMMA LoginIsRefused ==
    ASSUME TypeOK, Course, Exchanges, NEW c \in Conns, c = Conn, client.sent, replies[c] # <<>>,
           client.step \in Logins, Head(replies[c]).code # "ok"
    PROVE  Damaged(c)
<1> DEFINE R == [to : Commands \cup {"none"}, code : Codes]
<1>1. Exchanged(c) /\ Exchange(client, c) /\ client.step \notin DataCommands \cup {"transfer", "shut"}
  BY DEF Exchanges, Exchanged, Logins, DataCommands
<1>2. replies[c] \in Seq(R)
  BY DEF TypeOK
<1> HIDE DEF R
<1>3. Head(replies[c]) = replies[c][1] /\ Head(replies[c]) \in R /\ 1 \in DOMAIN replies[c]
  BY <1>2, Heard
<1>4. Answered(c, client.step)
  BY <1>1 DEF Exchange, Asked
<1>5. From(c, 1) \in {client.step, "none"}
  BY <1>3, <1>4 DEF Answered
<1>6. IsReply(c, replies[c][1])
  BY <1>1, <1>3 DEF Exchanged
<1>7. replies[c][1].code \in {"no", "bye"}
  <2>1. replies[c][1].code \in Codes \ {"ok"}
    BY <1>3 DEF R
  <2>2. replies[c][1].code \notin {"prelim", "absent", "file"}
    BY <1>5, <1>6 DEF IsReply, From, Logins, DataCommands
  <2> QED
    BY <2>1, <2>2 DEF Codes
<1> QED
  BY <1>3, <1>7 DEF Damaged

\* Where the first reply, with this code, leads the client.
Led(code) ==
    /\ client' \in Clients /\ OnCourse(client', conns) /\ client'.sent = FALSE
    /\ client'.step \notin DataCommands \cup {"shut"}
    /\ client'.step = "transfer" <=> client.step \in DataCommands /\ code = "prelim"
    /\ client'.step = "transfer" => client'.cur = client.cur /\ client'.dialing = client.dialing
    /\ client'.dialing => client.dialing /\ client'.cur = client.cur
    /\ client'.cur \in {client.cur, Conn}
    /\ client.dialing /\ ~client'.dialing /\ client'.cur # Conn => client.step \in Logins /\ code # "ok"
    /\ client'.step = "dial" => client.step = "NOOP" /\ ~client.dialing /\ code # "ok"
    /\ client'.op = client.op \/ (client'.op = "idle" /\ client'.last = client.op)
    /\ client'.op = "idle" /\ client'.result = "ok" /\ client.op = "deliver" =>
          client.step = "shut" /\ code = "ok" /\ copied

LEMMA ReplyLeads ==
    ASSUME TypeOK, Course, Exchanges, ReadReply
    PROVE  Led(Head(replies[Conn]).code)
<1>1. PICK code : code = Head(replies[Conn]).code
  OBVIOUS
<1>2. client.sent /\ replies[Conn] # <<>>
  BY DEF ReadReply
<1>3. client.step \in Commands \cup {"shut"} /\ client.step \notin {"connect", "transfer"}
  BY <1>2 DEF Course, OnCourse, Commands, DataCommands
<1>4. Conn \in Conns
  BY <1>3, InUse DEF Commands, DataCommands
<1>5. code \in Codes
  <2>1. replies[Conn] \in Seq([to : Commands \cup {"none"}, code : Codes])
    BY <1>4 DEF TypeOK
  <2>2. Head(replies[Conn]) \in [to : Commands \cup {"none"}, code : Codes]
    BY <1>2, <2>1, Heard
  <2> QED
    BY <1>1, <2>2
<1>6. client.dialing => client.step \in Logins
  BY DEF Course, OnCourse
<1>7. CASE (IsExpected(code) \/ Tolerated(code)) /\ Completed /\ client' \in Succeeded(client)
  <2>1. Advances(client, client')
    BY <1>3, <1>7, Succeeds
  <2>2. client.step \in DataCommands => code = "prelim"
    BY <1>7 DEF IsExpected, Tolerated, DataCommands
  <2>3. client.step = "shut" => code = "ok" /\ copied
    BY <1>7 DEF IsExpected, Tolerated, Completed, DataCommands
  <2>4. client'.step \notin DataCommands /\ client'.step \notin {"shut", "dial"}
    BY <1>3, <2>1 DEF Advances
  <2>5. client'.step = "transfer" => client.step # "NOOP"
    BY <2>1 DEF Advances, DataCommands
  <2>6. Led(code)
    BY <1>6, <2>1, <2>2, <2>3, <2>4, <2>5 DEF Advances, Led
  <2> QED
    BY <1>1, <2>6
<1>8. CASE ~(IsExpected(code) /\ Completed)
           /\ client' = Failed(client, IF IsExpected(code) THEN "network" ELSE code)
  <2>1. PICK why \in Codes \cup {"network"} : client' = Failed(client, why)
    BY <1>5, <1>8
  <2> DEFINE b == Failed(client, why)
  <2>2. /\ b \in Clients /\ OnCourse(b, conns) /\ ~Waits(b)
        /\ b.step \notin DataCommands
        /\ b.cur = client.cur /\ b.dialing = FALSE
        /\ b.step = "dial" => client.step = "NOOP" /\ ~client.dialing
        /\ b.op = client.op \/ (b.op = "idle" /\ b.last = client.op)
        /\ b.op = "idle" /\ b.result = "ok" => client.op # "deliver"
    BY <1>3, Fails
  <2>3. client.step \in DataCommands => code # "prelim"
    BY <1>8 DEF IsExpected, Completed, DataCommands
  <2>4. client.step \in Logins => code # "ok"
    BY <1>8 DEF IsExpected, Completed, DataCommands, Logins
  <2>5. client' = b
    BY <2>1
  <2> HIDE DEF b
  <2>6. b.sent = FALSE /\ b.step \notin {"shut", "transfer"}
    BY <2>2 DEF Waits, Clients
  <2>7. Led(code)
    BY <1>6, <2>2, <2>3, <2>4, <2>5, <2>6 DEF Led, Logins
  <2> QED
    BY <1>1, <2>7
<1> QED
  BY <1>1, <1>7, <1>8 DEF ReadReply

LEMMA ReadsInTurn ==
    ASSUME TypeOK, Course, Exchanges, ReadReply
    PROVE  Exchanges'
<1>1. PICK c, step, code : c = Conn /\ step = client.step /\ code = Head(replies[c]).code
  OBVIOUS
<1>2. client.sent /\ replies[c] # <<>>
  BY <1>1 DEF ReadReply
<1>3. step \in Commands \cup {"shut"}
  BY <1>1, <1>2 DEF Course, OnCourse
<1>4. c \in Conns
  BY <1>1, <1>3, InUse DEF Commands, DataCommands
<1>5. /\ replies' = [replies EXCEPT ![c] = Tail(@)]
      /\ conns' = conns /\ line' = line /\ requests' = requests /\ sending' = sending
  BY <1>1 DEF ReadReply
<1>6. /\ ~(step \in DataCommands /\ code = "prelim") => IsQuiet(c)'
      /\ step \in DataCommands /\ code = "prelim" => Goes(c, step)' \/ Answered(c, step)'
      /\ \A i \in DOMAIN replies'[c] : i + 1 \in DOMAIN replies[c] /\ replies'[c][i] = replies[c][i + 1]
      /\ (\A i \in DOMAIN replies[c] : IsReply(c, replies[c][i]))'
      /\ step # "transfer"
  BY <1>1, <1>2, <1>4, <1>5, Reads
<1>7. Led(code)
  BY <1>1, ReplyLeads
<1>8. replies'[c] = <<>> \/ c <= conns
  BY <1>1, <1>4, InUse
<1>9. \A d \in Conns \ {c} : replies'[d] = replies[d]
  BY <1>4, <1>5 DEF TypeOK
<1>10. Conn' \in {c, client.cur} /\ (Conn' # c => client.dialing)
  BY <1>1, <1>5, <1>7 DEF Led, Conn
<1>11. client'.step \notin {"shut"} /\ (client'.step # "transfer" => ~Waits(client'))
  BY <1>7 DEF Led, Waits
<1>12. Exchanged(c)'
  <2>1. ASSUME IsQuiet(c)', client'.step # "transfer"
        PROVE  Exchanged(c)'
    <3>1. IsIdle(c)' /\ Exchange(client, c)'
      BY <1>11, <2>1 DEF IsQuiet, IsIdle, Exchange, Waits
    <3> QED
      BY <1>1, <1>4, <1>5, <1>6, <2>1, <3>1, InUse DEF Exchanges, Exchanged, Conns
  <2>2. ASSUME step \in DataCommands, code = "prelim"
        PROVE  Exchanged(c)'
    <3>1. client'.step = "transfer" /\ client'.cur = client.cur /\ client'.dialing = client.dialing
          /\ client'.sent = FALSE /\ OnCourse(client', conns)
      BY <1>1, <1>7, <2>2 DEF Led
    <3>2. Conn' = c
      BY <1>1, <1>5, <3>1 DEF Conn
    <3>3. client'.op # "idle"
      BY <3>1 DEF OnCourse
    <3>4. WantedCommand(client') = step
      <4>1. step = WantedCommand(client)
        BY <1>1, <2>2 DEF Course, OnCourse
      <4>2. client'.op = client.op
        BY <1>7, <3>3 DEF Led
      <4> QED
        BY <4>1, <4>2 DEF WantedCommand
    <3>5. Exchange(client, c)'
      <4>1. Goes(c, step)' \/ Answered(c, step)'
        BY <1>6, <2>2
      <4> QED
        BY <3>1, <3>4, <4>1 DEF Exchange, Waits, Goes, Answered, OnlyFarewell, From
    <3>6. c = client.cur => ~client.dialing
      BY <1>1, InUse DEF Conn
    <3> QED
      BY <1>1, <1>4, <1>5, <1>6, <3>1, <3>2, <3>5, <3>6, InUse DEF Exchanges, Exchanged, Conns
  <2>3. client'.step = "transfer" <=> step \in DataCommands /\ code = "prelim"
    BY <1>1, <1>7 DEF Led
  <2> QED
    BY <1>6, <2>1, <2>2, <2>3
<1>13. ASSUME NEW d \in Conns, d # c
       PROVE  Exchanged(d)'
  <2>1. Exchanged(d) /\ replies'[d] = replies[d]
    BY <1>9, <1>13 DEF Exchanges
  <2>2. /\ IsIdle(d)' <=> IsIdle(d)
        /\ IsQuiet(d)' <=> IsQuiet(d)
        /\ \A r : IsReply(d, r)' <=> IsReply(d, r)
    BY <1>5, <2>1 DEF IsIdle, IsQuiet, IsReply, OnlyFarewell, From
  <2>3. (\A i \in DOMAIN replies[d] : IsReply(d, replies[d][i]))'
    BY <2>1, <2>2 DEF Exchanged
  <2>4. ASSUME d = Conn'
        PROVE  Exchange(client, d)'
    <3>1. IsQuiet(d)'
      BY <1>10, <1>13, <2>1, <2>2, <2>4 DEF Exchanged
    <3>2. client.step \in Logins
      BY <1>10, <1>13, <2>4 DEF Course, OnCourse
    <3>3. client'.step # "transfer"
      BY <1>7, <3>2 DEF Led, Logins, DataCommands
    <3> QED
      BY <1>11, <3>1, <3>3 DEF Exchange, Waits
  <2>5. d # Conn' => IsIdle(d)'
    BY <1>1, <1>13, <2>1, <2>2 DEF Exchanged
  <2>6. d = client'.cur /\ client'.dialing => IsQuiet(d)'
    BY <1>7, <2>1, <2>2 DEF Led, Exchanged
  <2> QED
    BY <1>5, <2>1, <2>3, <2>4, <2>5, <2>6 DEF Exchanged
<1> QED
  BY <1>12, <1>13 DEF Exchanges, Conns

-----------------------------------------------------------------------------
(***************************************************************************)
(* The steps that leave a connection alone, and those that lose it.        *)
(***************************************************************************)
Left ==
    /\ client' \in Clients /\ OnCourse(client', conns) /\ ~Waits(client')
    /\ client'.cur = client.cur /\ (client'.dialing => client.dialing)
    /\ handle' <=> client'.step \in DataCommands
    /\ Conn \in Conns => IsQuiet(Conn)
    /\ UNCHANGED <<conns, line, requests, sending, replies>>
    /\ client'.step = "dial" /\ client.cur # 0 => line[client.cur] = "closed" /\ ~client.dialing
    /\ client.dialing /\ ~client'.dialing => line[conns] = "closed"
    /\ client'.op = "idle" =>
          /\ client.op # "idle" /\ client'.last = client.op /\ (client'.result = "ok" => client.op # "deliver")
          /\ file' = file

LEMMA QuietNow ==
    ASSUME TypeOK, Course, Exchanges, ~Waits(client)
    PROVE  /\ Conn \in Conns => IsQuiet(Conn)
           /\ handle <=> client.step \in DataCommands
<1>1. Conn \in Conns => Exchange(client, Conn)
  BY DEF Exchanges, Exchanged
<1> QED
  BY <1>1 DEF Exchange, Course, Waits

LEMMA LeavesQuietly ==
    ASSUME TypeOK, Course, Exchanges, client.op # "idle", client.step \notin Commands \cup {"transfer", "shut"},
           NEW c, GoesOn(c, client', conns), c.cur = client.cur, c.op = client.op,
           client.dialing = FALSE, c.step = client.step,
           UNCHANGED <<handle, conns, line, requests, sending, replies, file>>
    PROVE  Left
<1>1. ~Waits(client) /\ ~handle
  BY DEF Course, OnCourse, Waits, Commands
<1>2. Conn \in Conns => IsQuiet(Conn)
  BY <1>1, QuietNow
<1>3. /\ client' \in Clients /\ OnCourse(client', conns) /\ ~Waits(client')
      /\ client'.step \notin DataCommands /\ client'.step # "dial"
      /\ client'.cur = client.cur /\ client'.dialing = FALSE
      /\ client'.op = "idle" => client'.last = client.op /\ (client'.result = "ok" => client.op # "deliver")
  BY DEF GoesOn, Commands
<1> QED
  BY <1>1, <1>2, <1>3 DEF Left

\* In the steps between the commands of a call the client has a connection.
LEMMA BetweenCommands ==
    ASSUME TypeOK, Course, client.step \in {"mkDir", "rotate", "GetEntry", "open", "connect"}
    PROVE  /\ InCall(client, conns) /\ client.op # "idle" /\ client.dialing = FALSE
           /\ client.step \notin Commands \cup {"transfer", "shut"}
           /\ conns \in Nat /\ client.sent = FALSE
<1>1. client \in Clients /\ OnCourse(client, conns) /\ conns \in Nat
  BY FtpAssumption DEF TypeOK, Course
<1>2. client.step \notin Commands \cup {"transfer", "shut", "idle", "dial"} /\ client.step \notin Logins
  BY DEF Commands, DataCommands, Logins
<1>3. client.op # "idle" /\ client.op # "init" /\ client.dialing = FALSE /\ client.sent = FALSE /\ client.cur <= conns
  BY <1>1, <1>2 DEF OnCourse, Clients
<1>4. client.cur # 0 /\ client.result # "none"
  BY <1>1, <1>2, <1>3 DEF OnCourse
<1> QED
  BY <1>1, <1>2, <1>3, <1>4 DEF InCall

LEMMA LeavesByGoto ==
    ASSUME TypeOK, Course, Exchanges, client.step \in {"mkDir", "GetEntry"},
           NEW next \in {"GetEntry", "MLST", "MKD"}, client' = Goto(client, next),
           UNCHANGED <<handle, conns, line, requests, sending, replies>>
    PROVE  Left
<1>1. client \in Clients /\ OnCourse(client, conns) /\ next \in Steps
  BY DEF TypeOK, Course, Steps, Commands
<1>2. /\ InCall(client, conns) /\ client.op # "idle" /\ client.dialing = FALSE /\ client.sent = FALSE
      /\ client.step \notin Commands \cup {"transfer", "shut"}
  BY BetweenCommands
<1>3. /\ client' \in Clients /\ client'.step = next /\ client'.sent = FALSE
      /\ client'.op = client.op /\ client'.resume = client.resume /\ client'.old = client.old
      /\ client'.result = client.result /\ client'.cur = client.cur /\ client'.dialing = client.dialing
  BY <1>1, Gone
<1>4. OnCourse(client', conns)
  BY <1>1, <1>2, <1>3 DEF OnCourse, InCall, Logins, DataCommands, Commands
<1>5. ~Waits(client) /\ ~handle
  BY <1>2 DEF Course, Waits, Commands
<1>6. Conn \in Conns => IsQuiet(Conn)
  BY <1>5, QuietNow
<1> QED
  BY <1>2, <1>3, <1>4, <1>5, <1>6 DEF Left, Waits, DataCommands

LEMMA ConnectLeaves ==
    ASSUME TypeOK, Course, Exchanges, Connect
    PROVE  Left
<1> DEFINE a == [client EXCEPT !.op = "init"]
<1>1. client \in Clients /\ OnCourse(client, conns) /\ client.op = "idle" /\ client.result = "none"
  BY DEF TypeOK, Course, Connect
<1>2. client.cur = 0 /\ client.step = "idle" /\ client.dialing = FALSE /\ client.sent = FALSE /\ conns = 0
  BY <1>1 DEF OnCourse, Logins, Commands, DataCommands, Clients
<1>3. a \in Clients /\ a.op = "init" /\ a.cur = client.cur /\ a.dialing = client.dialing /\ a.result = client.result
  <2>1. a \in Clients
    BY <1>1 DEF Clients
  <2> QED
    BY <1>1, <2>1 DEF Clients
<1>4. client' = UpdateConn(a, "done") /\ UNCHANGED <<handle, conns, line, requests, sending, replies, file>>
  BY DEF Connect, library, server
<1> HIDE DEF a
<1>5. /\ client' \in Clients /\ client'.step = "dial" /\ client'.sent = FALSE /\ client'.op = "init"
      /\ client'.resume = "done" /\ client'.cur = 0 /\ client'.dialing = FALSE /\ client'.result = "none"
  <2>1. "done" \in Resumes
    BY DEF Resumes
  <2>2. LET b == UpdateConn(a, "done")
        IN /\ b \in Clients /\ b.step = (IF a.cur = 0 THEN "dial" ELSE "NOOP") /\ b.sent = FALSE
           /\ b.op = a.op /\ b.resume = "done" /\ b.result = a.result /\ b.cur = a.cur /\ b.dialing = a.dialing
    BY <1>3, <2>1, ConnUpdated
  <2> QED
    BY <1>1, <1>2, <1>3, <1>4, <2>2
<1>6. OnCourse(client', conns)
  BY <1>2, <1>5 DEF OnCourse, Logins, DataCommands
<1>7. ~Waits(client) /\ ~handle
  BY <1>2 DEF Course, Waits, DataCommands
<1>8. Conn \in Conns => IsQuiet(Conn)
  BY <1>7, QuietNow
<1> QED
  BY <1>2, <1>4, <1>5, <1>6, <1>7, <1>8 DEF Left, Waits, DataCommands

LEMMA BeginCallLeaves ==
    ASSUME TypeOK, Course, Exchanges, NEW o \in Operations, BeginCall(o)
    PROVE  Left
<1> DEFINE a == [client EXCEPT !.op = o, !.level = Depth]
<1>1. /\ client \in Clients /\ OnCourse(client, conns) /\ client.op = "idle" /\ client.cur # 0 /\ conns \in Nat
      /\ o \in {"deliver", "rotate", "list"} /\ Depth \in 0 .. Depth
  BY FtpAssumption DEF TypeOK, Course, BeginCall
<1>2. client.step = "idle" /\ client.dialing = FALSE /\ client.sent = FALSE /\ client.cur <= conns
      /\ client.result # "none"
  BY <1>1 DEF OnCourse, Logins, Commands, DataCommands, Clients
<1>3. /\ a \in Clients /\ a.op = o /\ a.cur = client.cur /\ a.dialing = client.dialing
      /\ a.result = client.result
  <2>1. a \in Clients
    BY <1>1 DEF Clients
  <2> QED
    BY <1>1, <2>1 DEF Clients
<1>4. PICK next \in {"mkDir", "rotate", "LIST"} : client' = UpdateConn(a, next)
  <2>1. CASE o = "deliver"
    BY <2>1 DEF BeginCall
  <2>2. CASE o = "rotate"
    BY <2>2 DEF BeginCall
  <2>3. CASE o = "list"
    BY <2>3 DEF BeginCall
  <2> QED
    BY <1>1, <2>1, <2>2, <2>3
<1>5. UNCHANGED <<handle, conns, line, requests, sending, replies>>
  BY DEF BeginCall
<1> HIDE DEF a
<1>6. InCall(a, conns)
  BY <1>1, <1>2, <1>3 DEF InCall
<1>7. GoesOn(a, client', conns) /\ client'.step = "NOOP"
  <2>1. next \in Resumes \ {"idle", "done"} /\ next # "DELE"
    BY DEF Resumes, DataCommands
  <2>2. GoesOn(a, UpdateConn(a, next), conns) /\ UpdateConn(a, next).step = "NOOP"
    BY <1>1, <1>6, <2>1, AsksAgain
  <2> QED
    BY <1>4, <2>2
<1>8. ~Waits(client) /\ ~handle
  BY <1>2 DEF Course, Waits, DataCommands
<1>9. Conn \in Conns => IsQuiet(Conn)
  BY <1>8, QuietNow
<1>10. client'.op # "idle"
  BY <1>7 DEF GoesOn, OnCourse
<1> QED
  BY <1>2, <1>3, <1>5, <1>7, <1>8, <1>9, <1>10 DEF Left, GoesOn, DataCommands

LEMMA BetweenCommandsLeaves ==
    ASSUME TypeOK, Course, Exchanges, MkDir \/ DeleteOldBackups \/ GetEntry \/ OpenArchive
    PROVE  Left
<1>1. UNCHANGED <<handle, conns, line, requests, sending, replies, file>>
  BY DEF MkDir, DeleteOldBackups, GetEntry, OpenArchive, library, server
<1>2. client.step \in {"mkDir", "rotate", "GetEntry", "open"}
  BY DEF MkDir, DeleteOldBackups, GetEntry, OpenArchive
<1>3. /\ InCall(client, conns) /\ client.op # "idle" /\ client.dialing = FALSE
      /\ client.step \notin Commands \cup {"transfer", "shut"} /\ conns \in Nat
      /\ client \in Clients /\ client.cur <= conns
  BY <1>2, BetweenCommands DEF InCall
<1>4. ASSUME GoesOn(client, client', conns)
      PROVE  Left
  BY <1>1, <1>3, <1>4, LeavesQuietly
<1>5. \A next \in {"mkDir", "LIST", "STOR"} : GoesOn(client, UpdateConn(client, next), conns)
  BY <1>3, AsksAgain DEF Resumes, DataCommands
<1>6. CASE MkDir
  <2>1. CASE client.level > 1
    <3> DEFINE c == [client EXCEPT !.level = @ - 1]
    <3>1. client.level - 1 \in 0 .. Depth
      BY <1>3, <2>1, FtpAssumption DEF Clients
    <3>2. /\ c \in Clients /\ c.cur = client.cur /\ c.op = client.op /\ c.dialing = client.dialing
          /\ c.step = client.step /\ c.result = client.result
      BY <1>3, <3>1 DEF Clients
    <3>3. client' = UpdateConn(c, "mkDir")
      BY <1>6, <2>1 DEF MkDir
    <3> HIDE DEF c
    <3>4. InCall(c, conns)
      BY <1>3, <3>2 DEF InCall
    <3>5. GoesOn(c, client', conns)
      BY <1>3, <3>3, <3>4, AsksAgain DEF Resumes
    <3> QED
      BY <1>1, <1>3, <3>2, <3>5, LeavesQuietly
  <2>2. CASE ~(client.level > 1)
    BY <1>1, <1>6, <2>2, LeavesByGoto DEF MkDir
  <2> QED
    BY <2>1, <2>2
<1>7. CASE DeleteOldBackups
  BY <1>4, <1>5, <1>7 DEF DeleteOldBackups
<1>8. CASE GetEntry
  <2>1. client' = Goto(client, "MLST") \/ client' = Goto(client, "MKD")
    BY <1>8 DEF GetEntry
  <2> QED
    BY <1>1, <1>8, <2>1, LeavesByGoto DEF GetEntry
<1>9. CASE OpenArchive
  <2>1. GoesOn(client, Returned(client, "error"), conns)
    BY <1>3, EndsCall
  <2> QED
    BY <1>4, <1>5, <1>9, <2>1 DEF OpenArchive
<1> QED
  BY <1>6, <1>7, <1>8, <1>9

LEMMA DialFailureLeaves ==
    ASSUME TypeOK, Course, Exchanges, client.step = "dial", client' = Returned(client, "error"),
           UNCHANGED <<handle, conns, line, requests, sending, replies, file>>
    PROVE  Left
<1>1. /\ client \in Clients /\ conns \in Nat /\ client.cur <= conns
      /\ client.op # "idle" /\ client.dialing = FALSE
      /\ client.step \notin Commands \cup {"transfer", "shut"}
  BY InUse DEF TypeOK, Course, OnCourse, Clients, Commands, DataCommands, Logins
<1>2. GoesOn(client, client', conns)
  BY <1>1, EndsCall
<1> QED
  BY <1>1, <1>2, LeavesQuietly

\* The connection has failed under a command.
LEMMA FailureLeaves ==
    ASSUME TypeOK, Course, Exchanges, client.step \in Commands \cup {"shut"},
           client' = Failed(client, "network"), ~handle', line[Conn] = "closed",
           ~client.sent \/ replies[Conn] = <<>>,
           UNCHANGED <<conns, line, requests, sending, replies, file>>
    PROVE  Left
<1>1. Conn \in Conns /\ client.op # "idle"
  BY InUse DEF Commands, DataCommands, Course, OnCourse
<1>2. IsQuiet(Conn)
  <2>1. CASE ~client.sent
    BY <1>1, <2>1, QuietNow DEF Waits, Course, OnCourse, Commands, DataCommands
  <2>2. CASE replies[Conn] = <<>>
    <3>1. DOMAIN replies[Conn] = {}
      BY <2>2
    <3> QED
      BY <1>1, <3>1 DEF Exchanges, Exchanged, IsQuiet, OnlyFarewell
  <2> QED
    BY <2>1, <2>2
<1> DEFINE b == Failed(client, "network")
<1>3. /\ b \in Clients /\ OnCourse(b, conns) /\ ~Waits(b)
      /\ b.step \notin DataCommands
      /\ b.cur = client.cur /\ b.dialing = FALSE
      /\ b.step = "dial" => client.step = "NOOP" /\ ~client.dialing
      /\ b.op = client.op \/ (b.op = "idle" /\ b.last = client.op)
      /\ b.op = "idle" /\ b.result = "ok" => client.op # "deliver"
  BY Fails
<1>4. client' = b
  OBVIOUS
<1> HIDE DEF b
<1>5. Conn = IF client.dialing THEN conns ELSE client.cur
  BY DEF Conn
<1> QED
  BY <1>1, <1>2, <1>3, <1>4, <1>5 DEF Left

LEMMA SendFailureLeaves ==
    ASSUME TypeOK, Course, Exchanges, SendCommand, client' = Failed(client, "network"), ~handle',
           line[Conn] = "closed"
    PROVE  Left
BY FailureLeaves DEF SendCommand

LEMMA ReadFailsLeaves ==
    ASSUME TypeOK, Course, Exchanges, ReadFails
    PROVE  Left
<1>1. client.step \in Commands \cup {"shut"}
  BY DEF ReadFails, Course, OnCourse
<1> QED
  BY <1>1, FailureLeaves DEF ReadFails, server

LEMMA OpenDataConnLeaves ==
    ASSUME TypeOK, Course, Exchanges, OpenDataConn
    PROVE  Left
<1>1. client.step = "connect" /\ UNCHANGED <<conns, line, requests, sending, replies, file>>
  BY DEF OpenDataConn
<1>2. /\ InCall(client, conns) /\ client.op # "idle" /\ client.dialing = FALSE /\ client.sent = FALSE
      /\ client.step \notin Commands \cup {"transfer", "shut"}
  BY <1>1, BetweenCommands
<1>3. ~Waits(client) /\ ~handle
  BY <1>2 DEF Course, Waits, Commands
<1>4. Conn \in Conns => IsQuiet(Conn)
  BY <1>3, QuietNow
<1>5. CASE client' \in Succeeded(client) /\ handle' = TRUE
  <2>1. Advances(client, client')
    BY <1>1, <1>5, Succeeds
  <2>2. client'.step \in DataCommands /\ client'.step \notin {"shut", "dial", "transfer", "idle"}
    BY <1>1, <2>1 DEF Advances, DataCommands
  <2>3. client'.op # "idle"
    BY <2>1, <2>2 DEF Advances, OnCourse
  <2> QED
    BY <1>1, <1>2, <1>4, <1>5, <2>1, <2>2, <2>3 DEF Advances, Left, Waits
<1>6. CASE client' = Failed(client, "network") /\ handle' = handle
  <2> DEFINE b == Failed(client, "network")
  <2>1. /\ b \in Clients /\ OnCourse(b, conns) /\ ~Waits(b)
        /\ b.step \notin DataCommands
        /\ b.cur = client.cur /\ b.dialing = FALSE
        /\ b.step = "dial" => client.step = "NOOP" /\ ~client.dialing
        /\ b.op = client.op \/ (b.op = "idle" /\ b.last = client.op)
        /\ b.op = "idle" /\ b.result = "ok" => client.op # "deliver"
    BY <1>1, Fails
  <2>2. client' = b
    BY <1>6
  <2> HIDE DEF b
  <2> QED
    BY <1>1, <1>2, <1>3, <1>4, <1>6, <2>1, <2>2 DEF Left
<1> QED
  BY <1>5, <1>6 DEF OpenDataConn

\* What follows of such a step.
LEMMA LeftKeeps ==
    ASSUME TypeOK, Course, Dialled, Exchanges, Uploads, Left, faults' \in {faults, faults + 1}
    PROVE  Course' /\ Dialled' /\ Exchanges' /\ Uploads'
<1>1. /\ client' \in Clients /\ OnCourse(client', conns) /\ ~Waits(client')
      /\ client'.cur = client.cur /\ (client'.dialing => client.dialing)
      /\ conns' = conns /\ line' = line /\ requests' = requests /\ sending' = sending /\ replies' = replies
  BY DEF Left
<1>2. Course'
  <2>1. OnCourse(client, conns)'
    BY <1>1
  <2>2. (handle <=> client.step \in DataCommands \cup {"transfer"})'
    BY <1>1 DEF Left, Waits
  <2> QED
    BY <2>1, <2>2 DEF Course
<1>3. Exchanges'
  BY <1>1, Settled DEF Left
<1>4. Dialled'
  <2>1. \A c : Damaged(c)' <=> Damaged(c)
    BY <1>1 DEF Damaged
  <2>2. line[conns] = "closed" => Damaged(conns)
    BY DEF Damaged
  <2>3. line[client.cur] = "closed" => Damaged(client.cur)
    BY DEF Damaged
  <2>4. conns \in Nat /\ faults \in Nat /\ faults' \in Nat /\ faults' >= faults /\ client.cur \in Nat
    <3>1. faults \in Nat
      BY FtpAssumption DEF TypeOK
    <3>2. conns \in Nat /\ client.cur \in Nat
      BY InUse
    <3> QED
      BY <3>1, <3>2
  <2>a. (faults + 1 >= conns => faults' + 1 >= conns') /\ (faults >= conns => faults' >= conns')
    <3>1. conns' = conns
      BY <1>1
    <3>2. CASE faults' = faults
      BY <3>1, <3>2
    <3>3. CASE faults' = faults + 1
      BY <2>4, <3>1, <3>3
    <3> QED
      BY <3>2, <3>3
  <2>b. /\ client.dialing => faults + 1 >= conns /\ (Damaged(conns) => faults >= conns)
        /\ client.cur # 0 /\ ~client.dialing => faults + 1 >= conns
    BY DEF Dialled
  <2>5. (client.dialing => faults + 1 >= conns /\ (Damaged(conns) => faults >= conns))'
    <3>1. PICK n : n = conns
      OBVIOUS
    <3>2. Damaged(n)' <=> Damaged(conns)'
      BY <1>1, <3>1 DEF Damaged
    <3> QED
      BY <1>1, <2>1, <2>a, <2>b, <3>1, <3>2, Zenon
  <2>6. PICK n : n = client.cur
    OBVIOUS
  <2>7. Damaged(n)' <=> Damaged(client.cur)'
    BY <1>1, <2>6 DEF Damaged
  <2>8. (client.cur # 0 /\ ~client.dialing => faults + 1 >= conns)'
    BY <1>1, <2>a, <2>b, Zenon
  <2>9. (client.cur # 0 /\ ~client.dialing =>
            (client.cur < conns \/ Damaged(client.cur) \/ client.step = "dial" => faults >= conns))'
    <3>1. CASE client.dialing
      <4>1. ~client'.dialing => faults >= conns
        BY <2>2, <3>1 DEF Dialled, Left
      <4> QED
        BY <1>1, <2>4, <4>1
    <3>2. CASE ~client.dialing
      <4>1. client'.step = "dial" /\ client.cur # 0 => Damaged(n)
        BY <2>3, <2>6 DEF Left
      <4> QED
        BY <1>1, <2>1, <2>4, <2>6, <2>7, <3>2, <4>1 DEF Dialled
    <3> QED
      BY <3>1, <3>2
  <2> QED
    BY <2>5, <2>8, <2>9 DEF Dialled
<1>5. Uploads'
  <2>1. client'.step \notin {"transfer", "shut"}
    BY <1>1 DEF Waits
  <2>2. ASSUME client'.step = "STOR"
        PROVE  \A i \in DOMAIN replies[client.cur] : replies[client.cur][i].code # "ok"
    <3>1. client.cur \in Conns /\ IsQuiet(client.cur)
      <4>1. client'.cur # 0
        BY <1>1, <2>2 DEF OnCourse, Logins
      <4>2. client.cur \in Conns
        BY <1>1, <4>1 DEF Clients
      <4>3. client.dialing => IsQuiet(client.cur)
        BY <4>2 DEF Exchanges, Exchanged
      <4>4. ~client.dialing => Conn = client.cur
        BY DEF Conn
      <4> QED
        BY <4>2, <4>3, <4>4 DEF Left
    <3>2. \A i \in DOMAIN replies[client.cur] :
             replies[client.cur][i].to = "none" /\ IsReply(client.cur, replies[client.cur][i])
      BY <3>1 DEF Exchanges, Exchanged, IsQuiet, OnlyFarewell, From, TypeOK
    <3> QED
      BY <3>2 DEF IsReply
  <2>3. StoredIsWhole'
    BY DEF Left, Uploads, StoredIsWhole
  <2> QED
    BY <1>1, <2>1, <2>2, <2>3 DEF Uploads
<1> QED
  BY <1>2, <1>3, <1>4, <1>5

\* Every other step, too, counts a failure before the client dials anew.
LEMMA DialledStays ==
    ASSUME TypeOK, Course, Dialled, conns' = conns, faults' \in {faults, faults + 1},
           faults' = faults + 1 \/ (\A c \in Conns \cup {0} : Damaged(c)' => Damaged(c)),
           client'.dialing => client.dialing, client'.cur \in {client.cur, Conn},
           client.dialing /\ ~client'.dialing /\ client'.cur # Conn => faults >= conns,
           client'.step = "dial" /\ client'.cur # 0 =>
              faults >= conns \/ (client.step = "dial" /\ client'.cur = client.cur /\ ~client.dialing)
    PROVE  Dialled'
<1>1. /\ conns \in Nat /\ client.cur \in Nat /\ Conn \in Conns \cup {0} /\ client.cur <= conns
      /\ client.dialing => client.cur < conns
  BY InUse
<1>2. faults \in Nat
  BY FtpAssumption DEF TypeOK
<1>3. PICK n, m : n = conns /\ m = client'.cur
  OBVIOUS
<1>4. n \in Nat /\ m \in Nat /\ n \in Conns \cup {0} /\ m \in Conns \cup {0} /\ Conn = IF client.dialing THEN n ELSE client.cur
  <2>1. Conn = IF client.dialing THEN n ELSE client.cur
    BY <1>3 DEF Conn
  <2>2. n \in Conns \cup {0} /\ client.cur \in Conns \cup {0}
    BY FtpAssumption, <1>3 DEF TypeOK, Conns, Clients
  <2> QED
    BY <1>1, <1>3, <2>1, <2>2 DEF Conns
<1>5. /\ client.dialing => faults + 1 >= n /\ (Damaged(n) => faults >= n)
      /\ client.cur # 0 /\ ~client.dialing => faults + 1 >= n
      /\ client.cur # 0 /\ ~client.dialing =>
            (client.cur < n \/ Damaged(client.cur) \/ client.step = "dial" => faults >= n)
  BY <1>3 DEF Dialled
<1>6. client'.dialing \/ m # 0 => faults + 1 >= n
  BY <1>3, <1>4, <1>5
<1>7. /\ Damaged(conns)' <=> Damaged(n)'
      /\ Damaged(client.cur)' <=> Damaged(m)'
  BY <1>3 DEF Damaged
<1>8. CASE faults' = faults + 1
  <2>1. client'.dialing \/ m # 0 => faults' >= n /\ faults' + 1 >= n
    BY <1>2, <1>4, <1>6, <1>8
  <2> QED
    BY <1>3, <2>1, Zenon DEF Dialled
<1>9. CASE faults' = faults /\ \A c \in Conns \cup {0} : Damaged(c)' => Damaged(c)
  <2>1. (Damaged(n)' => Damaged(n)) /\ (Damaged(m)' => Damaged(m))
    BY <1>4, <1>9
  <2>2. client'.dialing => (Damaged(n)' => faults >= n)
    BY <1>5, <2>1
  <2>3. m # 0 /\ ~client'.dialing => (m < n => faults >= n)
    BY <1>1, <1>3, <1>4, <1>5
  <2>4. m # 0 /\ ~client'.dialing => (Damaged(m)' => faults >= n)
    <3>1. CASE client.dialing
      BY <1>3, <1>4, <1>5, <2>1, <3>1
    <3>2. CASE ~client.dialing
      <4>1. m = client.cur
        BY <1>3, <1>4, <3>2
      <4> QED
        BY <1>5, <2>1, <3>2, <4>1
    <3> QED
      BY <3>1, <3>2
  <2>5. m # 0 /\ ~client'.dialing => (client'.step = "dial" => faults >= n)
    BY <1>3, <1>5
  <2> QED
    BY <1>3, <1>6, <1>7, <1>9, <2>2, <2>3, <2>4, <2>5, Zenon DEF Dialled
<1> QED
  BY <1>8, <1>9

\* Bytes and words only: nothing is dialled.
LEMMA DialledKept ==
    ASSUME TypeOK, Course, Dialled, conns' = conns, faults' \in {faults, faults + 1},
           faults' = faults + 1 \/ (\A c \in Conns \cup {0} : Damaged(c)' => Damaged(c)),
           client'.dialing = client.dialing, client'.cur = client.cur,
           client'.step = "dial" => client.step = "dial"
    PROVE  Dialled'
<1>1. client'.step = "dial" => ~client.dialing
  BY DEF Course, OnCourse, Logins
<1>2. client.dialing /\ ~client'.dialing => FALSE
  OBVIOUS
<1> QED
  BY <1>1, <1>2, DialledStays

-----------------------------------------------------------------------------
(***************************************************************************)
(* What each of these steps preserves.                                     *)
(***************************************************************************)
LEMMA ServerAnswersKeeps ==
    ASSUME TypeOK, Course, Dialled, Exchanges, Uploads, NEW c \in Conns, ServerAnswers(c)
    PROVE  Course' /\ Dialled' /\ Uploads'
<1>1. /\ client' = client /\ conns' = conns /\ handle' = handle /\ copied' = copied
      /\ line' = line /\ data' = data /\ file' = file
      /\ line[c] = "open" /\ requests[c] # <<>> /\ ~sending[c]
  BY DEF ServerAnswers, library
<1>2. Course'
  BY <1>1 DEF Course, OnCourse, WantedCommand
<1>3. PICK cmd, s : cmd = Head(requests[c]) /\ s = replies[c]
  OBVIOUS
<1>4. PICK code \in Answers(cmd) \cup Refusals(cmd) :
        Reply(c, cmd, code) /\ (IF code \in Answers(cmd) \/ code = "absent" THEN NoFault ELSE Fault)
  BY <1>3 DEF ServerAnswers
<1>5. cmd \in Commands
      /\ (c = Conn => client.sent /\ client.step # "shut" /\ Asked(c, client.step) /\ cmd = client.step)
  BY <1>1, <1>3, OneRequest
<1>6. /\ code \in Codes \ {"bye"}
      /\ code = "ok" => cmd \notin DataCommands
      /\ code = "no" => code \notin Answers(cmd)
  BY <1>4, <1>5, CodesOf
<1>7. PICK x : x = [to |-> cmd, code |-> code]
  OBVIOUS
<1>8. x \in [to : Commands \cup {"none"}, code : Codes] /\ x.code = code
      /\ s \in Seq([to : Commands \cup {"none"}, code : Codes])
  BY <1>3, <1>5, <1>6, <1>7 DEF TypeOK
<1>9. /\ DOMAIN s = 1 .. Len(s) /\ Len(s) \in Nat
      /\ DOMAIN Append(s, x) = 1 .. Len(s) + 1
      /\ \A i \in 1 .. Len(s) : Append(s, x)[i] = s[i]
      /\ Append(s, x)[Len(s) + 1] = x
  BY <1>8, Said
<1>10. replies'[c] = Append(s, x) /\ \A d : d # c => replies'[d] = replies[d]
  BY <1>3, <1>4, <1>7 DEF Reply, TypeOK
<1>11. \A i \in DOMAIN replies'[c] : replies'[c][i].code = code \/ (i \in DOMAIN s /\ replies'[c][i] = s[i])
  BY <1>8, <1>9, <1>10
<1>12. Dialled'
  <2>1. faults' \in {faults, faults + 1}
    BY <1>4 DEF NoFault, Fault
  <2>2. ASSUME faults' # faults + 1, NEW d \in Conns \cup {0}, Damaged(d)'
        PROVE  Damaged(d)
    <3>1. code # "no"
      BY <1>4, <1>6, <2>2 DEF Fault
    <3>2. CASE d = c
      BY <1>1, <1>3, <1>6, <1>11, <2>2, <3>1, <3>2 DEF Damaged
    <3>3. CASE d # c
      BY <1>1, <1>10, <2>2, <3>3 DEF Damaged
    <3> QED
      BY <3>2, <3>3
  <2> QED
    BY <1>1, <2>1, <2>2, DialledKept
<1>13. Uploads'
  <2>1. CASE c = client.cur /\ client.op = "deliver" /\ client.step \in {"STOR", "transfer", "shut"}
    <3>1. ~client.dialing
      BY <2>1 DEF Course, OnCourse, Logins
    <3>2. c = Conn
      BY <2>1, <3>1 DEF Conn
    <3>3. client.step = "STOR" /\ cmd = "STOR"
      BY <1>5, <2>1, <3>2 DEF Commands, DataCommands
    <3>4. code # "ok"
      BY <1>6, <3>3 DEF DataCommands
    <3> QED
      BY <1>1, <1>3, <1>11, <2>1, <3>3, <3>4 DEF Uploads, StoredIsWhole
  <2>2. CASE ~(c = client.cur /\ client.op = "deliver" /\ client.step \in {"STOR", "transfer", "shut"})
    BY <1>1, <1>10, <2>2 DEF Uploads, StoredIsWhole
  <2> QED
    BY <2>1, <2>2
<1> QED
  BY <1>2, <1>12, <1>13

LEMMA ServerEndsTransferKeeps ==
    ASSUME TypeOK, Course, Dialled, Exchanges, Uploads, NEW c \in Conns, ServerEndsTransfer(c)
    PROVE  Course' /\ Dialled' /\ Uploads'
<1>1. /\ client' = client /\ conns' = conns /\ handle' = handle /\ copied' = copied
      /\ line' = line /\ line[c] = "open" /\ sending[c]
  BY DEF ServerEndsTransfer, library
<1>2. Course'
  BY <1>1 DEF Course, OnCourse, WantedCommand
<1>3. PICK cmd, s : cmd = Head(requests[c]) /\ s = replies[c]
  OBVIOUS
<1>4. PICK code \in {"ok", "no"} :
        /\ Reply(c, cmd, code)
        /\ code = "ok" => /\ cmd = "STOR" => ~handle
                          /\ data' = IF cmd = "STOR" THEN data ELSE "whole"
                          /\ file' = IF cmd = "STOR" THEN (IF data = "whole" THEN "whole" ELSE "cut") ELSE file
                          /\ NoFault
        /\ code = "no" => /\ data' = IF data = "none" THEN "part" ELSE data
                          /\ file' = IF cmd = "STOR" THEN "cut" ELSE file
                          /\ Fault
  <2>1. CASE /\ cmd = "STOR" => ~handle
             /\ data' = IF cmd = "STOR" THEN data ELSE "whole"
             /\ file' = IF cmd = "STOR" THEN (IF data = "whole" THEN "whole" ELSE "cut") ELSE file
             /\ Reply(c, cmd, "ok") /\ NoFault
    BY <2>1
  <2>2. CASE /\ data' = IF data = "none" THEN "part" ELSE data
             /\ file' = IF cmd = "STOR" THEN "cut" ELSE file
             /\ Reply(c, cmd, "no") /\ Fault
    BY <2>2
  <2> QED
    BY <1>3, <2>1, <2>2 DEF ServerEndsTransfer
<1>5. requests[c] # <<>>
  <2>1. c = Conn
    BY <1>1 DEF Exchanges, Exchanged, IsIdle
  <2>2. Exchange(client, c)
    BY <2>1 DEF Exchanges, Exchanged
  <2>3. \A cmd1 : <<cmd1>> # <<>>
    OBVIOUS
  <2> QED
    BY <1>1, <2>1, <2>2, <2>3
       DEF Exchange, Goes, Answered, Asked, Transfers, Transferred, IsQuiet, Waits
<1>6. /\ cmd \in DataCommands /\ c = Conn /\ Waits(client)
      /\ \/ Goes(c, cmd) /\ client.step \in {"transfer", "shut"} /\ cmd = WantedCommand(client)
         \/ client.step = cmd
  BY <1>1, <1>3, <1>5, OneRequest
<1>7. cmd = WantedCommand(client) /\ client.op # "idle" /\ ~client.dialing /\ c = client.cur
  <2>1. client.step \in DataCommands => client.step = WantedCommand(client)
    BY DEF Course, OnCourse
  <2>2. client.step \in DataCommands \cup {"transfer", "shut"}
    BY <1>6
  <2>3. client.op # "idle" /\ ~client.dialing
    BY <2>2 DEF Course, OnCourse, DataCommands, Logins
  <2> QED
    BY <1>6, <2>1, <2>3 DEF Conn
<1>8. PICK x : x = [to |-> cmd, code |-> code]
  OBVIOUS
<1>9. x \in [to : Commands \cup {"none"}, code : Codes] /\ x.code = code
      /\ s \in Seq([to : Commands \cup {"none"}, code : Codes])
  BY <1>3, <1>4, <1>6, <1>8 DEF TypeOK, Codes, Commands
<1>10. /\ DOMAIN s = 1 .. Len(s) /\ Len(s) \in Nat
       /\ DOMAIN Append(s, x) = 1 .. Len(s) + 1
       /\ \A i \in 1 .. Len(s) : Append(s, x)[i] = s[i]
       /\ Append(s, x)[Len(s) + 1] = x
  BY <1>9, Said
<1>11. replies'[c] = Append(s, x) /\ \A d : d # c => replies'[d] = replies[d]
  BY <1>3, <1>4, <1>8 DEF Reply, TypeOK
<1>12. \A i \in DOMAIN replies'[c] : replies'[c][i].code = code \/ (i \in DOMAIN s /\ replies'[c][i] = s[i])
  BY <1>9, <1>10, <1>11
<1>13. Dialled'
  <2>1. faults' \in {faults, faults + 1}
    BY <1>4 DEF NoFault, Fault
  <2>2. ASSUME faults' # faults + 1, NEW d \in Conns \cup {0}, Damaged(d)'
        PROVE  Damaged(d)
    <3>1. code = "ok"
      BY <1>4, <2>2 DEF Fault
    <3>2. CASE d = c
      BY <1>1, <1>3, <1>12, <2>2, <3>1, <3>2 DEF Damaged
    <3>3. CASE d # c
      BY <1>1, <1>11, <2>2, <3>3 DEF Damaged
    <3> QED
      BY <3>2, <3>3
  <2> QED
    BY <1>1, <2>1, <2>2, DialledKept
<1>14. Uploads'
  <2>1. CASE client.op # "deliver"
    BY <1>1, <1>7, <2>1 DEF Uploads, StoredIsWhole
  <2>2. CASE client.op = "deliver"
    <3>1. cmd = "STOR"
      BY <1>7, <2>2 DEF WantedCommand
    <3>2. client.step \in {"STOR", "transfer"} => handle
      BY DEF Course, DataCommands
    <3>3. CASE client.step \in {"STOR", "transfer"}
      <4>1. code = "no"
        BY <1>4, <3>1, <3>2, <3>3
      <4> QED
        BY <1>1, <1>3, <1>7, <1>12, <2>2, <3>3, <4>1 DEF Uploads, StoredIsWhole
    <3>4. CASE client.step = "shut"
      <4>1. s = <<>>
        BY <1>3, <1>6, <3>4 DEF Goes, DataCommands
      <4>2. data = IF copied THEN "whole" ELSE "part"
        BY <2>2, <3>4 DEF Uploads
      <4>3. data' = data
        BY <1>4, <3>1, <4>2
      <4>4. copied /\ code = "ok" => file' = "whole"
        BY <1>4, <3>1, <4>2
      <4>5. \A i \in DOMAIN replies'[c] : replies'[c][i].code = code
        BY <1>12, <4>1
      <4> QED
        BY <1>1, <1>4, <1>7, <2>2, <3>4, <4>2, <4>3, <4>4, <4>5 DEF Uploads, StoredIsWhole
    <3>5. client.step \in {"STOR", "transfer", "shut"}
      BY <1>6, <3>1
    <3> QED
      BY <3>3, <3>4, <3>5
  <2> QED
    BY <2>1, <2>2
<1> QED
  BY <1>2, <1>13, <1>14

LEMMA ServerTimesOutKeeps ==
    ASSUME TypeOK, Course, Dialled, Exchanges, Uploads, NEW c \in Conns, ServerTimesOut(c)
    PROVE  Course' /\ Dialled' /\ Uploads'
<1>1. /\ client' = client /\ conns' = conns /\ handle' = handle /\ copied' = copied
      /\ data' = data /\ file' = file /\ faults' = faults + 1
  BY DEF ServerTimesOut, library, Fault
<1>2. Course'
  BY <1>1 DEF Course, OnCourse, WantedCommand
<1>3. Dialled'
  BY <1>1, DialledKept
<1>4. PICK s, x : s = replies[c] /\ x = [to |-> "none", code |-> "bye"]
  OBVIOUS
<1>5. x \in [to : Commands \cup {"none"}, code : Codes] /\ x.code = "bye"
      /\ s \in Seq([to : Commands \cup {"none"}, code : Codes])
  BY <1>4 DEF TypeOK, Codes
<1>6. /\ DOMAIN s = 1 .. Len(s) /\ Len(s) \in Nat
      /\ DOMAIN Append(s, x) = 1 .. Len(s) + 1
      /\ \A i \in 1 .. Len(s) : Append(s, x)[i] = s[i]
      /\ Append(s, x)[Len(s) + 1] = x
  BY <1>5, Said
<1>7. replies'[c] = Append(s, x) /\ \A d : d # c => replies'[d] = replies[d]
  BY <1>4 DEF ServerTimesOut, Reply, TypeOK
<1>8. \A i \in DOMAIN replies'[c] : replies'[c][i].code = "bye" \/ (i \in DOMAIN s /\ replies'[c][i] = s[i])
  BY <1>5, <1>6, <1>7
<1>9. Uploads'
  <2>1. CASE c = client.cur
    BY <1>1, <1>4, <1>8, <2>1 DEF Uploads, StoredIsWhole
  <2>2. CASE c # client.cur
    BY <1>1, <1>7, <2>2 DEF Uploads, StoredIsWhole
  <2> QED
    BY <2>1, <2>2
<1> QED
  BY <1>2, <1>3, <1>9

LEMMA ConnectionBreaksKeeps ==
    ASSUME TypeOK, Course, Dialled, Exchanges, Uploads, NEW c \in Conns, ConnectionBreaks(c)
    PROVE  Course' /\ Dialled' /\ Uploads'
<1>1. /\ client' = client /\ conns' = conns /\ handle' = handle /\ copied' = copied /\ faults' = faults + 1
      /\ file' = (IF sending[c] /\ Head(requests[c]) = "STOR"
                  THEN (IF data = "whole" THEN "whole" ELSE "cut") ELSE file)
      /\ data' = (IF data = "none" THEN "part" ELSE data)
      /\ replies'[c] = <<>> /\ \A d : d # c => replies'[d] = replies[d]
  BY DEF ConnectionBreaks, library, Fault, TypeOK
<1>2. Course'
  BY <1>1 DEF Course, OnCourse, WantedCommand
<1>3. Dialled'
  BY <1>1, DialledKept
<1>4. DOMAIN replies'[c] = {}
  BY <1>1
<1>5. sending[c] => c = Conn /\ client.step \in DataCommands \cup {"transfer", "shut"}
  <2>1. sending[c] => c = Conn
    BY DEF Exchanges, Exchanged, IsIdle
  <2>2. sending[c] => Exchange(client, c)
    BY <2>1 DEF Exchanges, Exchanged
  <2> QED
    BY <2>1, <2>2 DEF Exchange, Goes, Answered, Asked, Transfers, Transferred, IsQuiet, Waits
<1>6. sending[c] => client.op # "idle" /\ c = client.cur
  BY <1>5 DEF Course, OnCourse, DataCommands, Logins, Conn
<1>7. Uploads'
  <2>1. CASE sending[c]
    BY <1>1, <1>4, <1>6, <2>1 DEF Uploads, StoredIsWhole
  <2>2. CASE ~sending[c]
    <3>1. file' = file
      BY <1>1, <2>2
    <3>2. \A d : \A i \in DOMAIN replies'[d] : i \in DOMAIN replies[d] /\ replies'[d][i] = replies[d][i]
      BY <1>1, <1>4
    <3> QED
      BY <1>1, <3>1, <3>2 DEF Uploads, StoredIsWhole
  <2> QED
    BY <2>1, <2>2
<1> QED
  BY <1>2, <1>3, <1>7

LEMMA DialKeeps ==
    ASSUME IInv, Dial
    PROVE  /\ Course' /\ Dialled' /\ Exchanges' /\ Uploads'
           /\ client' \in Clients /\ conns' \in 0 .. MaxFaults + 1 /\ (conns' = conns \/ conns' \in Conns)
<1>1. TypeOK /\ Course /\ Dialled /\ Exchanges /\ Uploads /\ client.step = "dial" /\ client \in Clients
  BY DEF IInv, Dial, TypeOK
<1>2. CASE client' = Returned(client, "error") /\ Fault /\ UNCHANGED <<conns, line, requests>>
  <2>1. UNCHANGED <<handle, conns, line, requests, sending, replies, file>> /\ faults' = faults + 1
    BY <1>2 DEF Dial, Fault
  <2>2. Left
    BY <1>1, <1>2, <2>1, DialFailureLeaves
  <2> QED
    BY <1>1, <2>1, <2>2, LeftKeeps DEF Left, TypeOK
<1>3. CASE /\ conns' = conns + 1
           /\ line' = [line EXCEPT ![conns'] = "open"]
           /\ requests' = [requests EXCEPT ![conns'] = <<"CONNECT">>]
           /\ client' = [Goto(client, "CONNECT") EXCEPT !.sent = TRUE, !.dialing = TRUE]
           /\ NoFault
  <2>1. UNCHANGED <<handle, sending, replies, file, data, copied, faults>>
    BY <1>3 DEF Dial, NoFault
  <2>2. LET b == Goto(client, "CONNECT")
        IN /\ b \in Clients /\ b.step = "CONNECT"
           /\ b.op = client.op /\ b.resume = client.resume /\ b.old = client.old /\ b.last = client.last
           /\ b.result = client.result /\ b.cur = client.cur
    BY <1>1, Gone DEF Steps, Commands
  <2>3. /\ client' \in Clients /\ client'.step = "CONNECT" /\ client'.sent = TRUE /\ client'.dialing = TRUE
        /\ client'.op = client.op /\ client'.resume = client.resume /\ client'.old = client.old
        /\ client'.result = client.result /\ client'.cur = client.cur
    <3>1. client' \in Clients
      BY <1>3, <2>2 DEF Clients
    <3> QED
      BY <1>3, <2>2, <3>1 DEF Clients
  <2>4. /\ conns \in Nat /\ client.cur \in Nat /\ client.cur <= conns /\ faults \in 0 .. MaxFaults /\ MaxFaults \in Nat
        /\ client.dialing = FALSE
    BY <1>1, InUse, FtpAssumption DEF TypeOK, Course, OnCourse, Logins, Clients
  <2>5. conns <= faults
    <3>1. CASE client.cur = 0
      BY <1>1, <2>4, <3>1 DEF Course, OnCourse
    <3>2. CASE client.cur # 0
      BY <1>1, <2>4, <3>2 DEF Dialled
    <3> QED
      BY <3>1, <3>2
  <2>6. conns + 1 \in Conns /\ conns + 1 \in 0 .. MaxFaults + 1
    BY <2>4, <2>5 DEF Conns
  <2>7. Exchanges'
    BY <1>1, <1>3, <2>1, <2>3, <2>6, DialsAnew
  <2>8. Course'
    <3>1. OnCourse(client, conns) /\ ~handle
      BY <1>1 DEF Course, DataCommands
    <3>2. client'.cur < conns'
      BY <1>3, <2>3, <2>4
    <3>3. OnCourse(client, conns)'
      BY <1>1, <1>3, <2>3, <2>4, <3>1, <3>2 DEF OnCourse, Logins, DataCommands, Commands
    <3> QED
      BY <2>1, <2>3, <3>1, <3>3 DEF Course, DataCommands
  <2>9. Dialled'
    <3>1. PICK n : n = conns + 1
      OBVIOUS
    <3>2. line'[n] = "open" /\ replies'[n] = <<>>
      BY <1>1, <1>3, <2>1, <2>4, <2>6, <3>1 DEF Exchanges, Exchanged, TypeOK
    <3>3. ~Damaged(n)'
      BY <3>2 DEF Damaged
    <3>4. Damaged(conns)' <=> Damaged(n)'
      BY <1>3, <3>1 DEF Damaged
    <3>5. faults' + 1 >= conns'
      BY <1>3, <2>1, <2>4, <2>5
    <3> QED
      BY <2>3, <3>3, <3>4, <3>5 DEF Dialled
  <2>10. Uploads'
    BY <1>1, <2>1, <2>3 DEF Uploads, StoredIsWhole, Course, OnCourse
  <2> QED
    BY <1>3, <2>3, <2>6, <2>7, <2>8, <2>9, <2>10
<1> QED
  BY <1>2, <1>3 DEF Dial

LEMMA SendsKeeps ==
    ASSUME TypeOK, Course, Dialled, Exchanges, Uploads, client.step \in Commands, ~client.sent,
           client' = [client EXCEPT !.sent = TRUE],
           UNCHANGED <<handle, copied, conns, line, sending, replies, data, file, faults>>
    PROVE  Course' /\ Dialled' /\ Uploads'
<1>1. /\ client'.sent = TRUE /\ client'.step = client.step /\ client'.cur = client.cur
      /\ client'.dialing = client.dialing /\ client'.op = client.op /\ client'.resume = client.resume
      /\ client'.old = client.old /\ client'.result = client.result /\ client'.last = client.last
  BY DEF TypeOK, Clients
<1>2. OnCourse(client, conns)'
  BY <1>1 DEF Course, OnCourse, WantedCommand
<1>3. Course'
  BY <1>1, <1>2 DEF Course
<1>4. \A c \in Conns \cup {0} : Damaged(c)' => Damaged(c)
  BY DEF Damaged
<1>5. Dialled'
  BY <1>1, <1>4, DialledKept
<1>6. Uploads'
  BY <1>1 DEF Uploads, StoredIsWhole
<1> QED
  BY <1>3, <1>5, <1>6

LEMMA ReadReplyKeeps ==
    ASSUME TypeOK, Course, Dialled, Exchanges, Uploads, ReadReply
    PROVE  Course' /\ Dialled' /\ Uploads'
<1>1. PICK c, step, code : c = Conn /\ step = client.step /\ code = Head(replies[c]).code
  OBVIOUS
<1>2. /\ client.sent /\ replies[c] # <<>> /\ replies' = [replies EXCEPT ![c] = Tail(@)]
      /\ handle' = (handle /\ code = "prelim")
      /\ conns' = conns /\ line' = line /\ requests' = requests /\ sending' = sending /\ faults' = faults
      /\ copied' = copied /\ data' = data /\ file' = file
  BY <1>1 DEF ReadReply, StaysOpen
<1>3. step \in Commands \cup {"shut"} /\ client.op # "idle"
  BY <1>1, <1>2 DEF Course, OnCourse, Commands, DataCommands
<1>4. c \in Conns
  BY <1>1, <1>3, InUse DEF Commands, DataCommands
<1>5. /\ \A i \in DOMAIN replies'[c] : i + 1 \in DOMAIN replies[c] /\ replies'[c][i] = replies[c][i + 1]
      /\ 1 \in DOMAIN replies[c] /\ Head(replies[c]) = replies[c][1]
      /\ step # "transfer"
  BY <1>1, <1>2, <1>4, Reads
<1>6. Led(code)
  BY <1>1, ReplyLeads
<1>7. \A d : d # c => replies'[d] = replies[d]
  BY <1>2, <1>4 DEF TypeOK
<1>8. Course'
  <2>1. OnCourse(client, conns)'
    BY <1>2, <1>6 DEF Led
  <2>2. handle <=> client.step \in DataCommands
    BY <1>1, <1>5 DEF Course
  <2>3. client'.step \in DataCommands \cup {"transfer"} <=> client.step \in DataCommands /\ code = "prelim"
    BY <1>6 DEF Led
  <2>4. handle' <=> handle /\ code = "prelim"
    BY <1>2
  <2> QED
    BY <2>1, <2>2, <2>3, <2>4 DEF Course
<1>9. Dialled'
  <2>1. step \in Logins /\ code # "ok" => Damaged(c)
    BY <1>1, <1>2, <1>4, LoginIsRefused
  <2>2. \A d \in Conns \cup {0} : Damaged(d)' => Damaged(d)
    BY <1>2, <1>5, <1>7 DEF Damaged
  <2>3. client.dialing /\ ~client'.dialing /\ client'.cur # Conn => faults >= conns
    <3>1. client.dialing => c = conns
      BY <1>1 DEF Conn
    <3> QED
      BY <1>1, <1>6, <2>1, <3>1 DEF Led, Dialled
  <2>4. client'.step = "dial" /\ client'.cur # 0 => faults >= conns
    <3>1. ~client.dialing => c = client.cur
      BY <1>1 DEF Conn
    <3> QED
      BY <1>1, <1>6, <2>1, <3>1 DEF Led, Dialled, Logins
  <2>5. client'.dialing => client.dialing
    BY <1>6 DEF Led
  <2>6. client'.cur \in {client.cur, Conn}
    BY <1>6 DEF Led
  <2> QED
    BY <1>2, <2>2, <2>3, <2>4, <2>5, <2>6, DialledStays
<1>10. Uploads'
  <2>1. client'.step \notin DataCommands /\ client'.step # "shut"
    BY <1>6 DEF Led
  <2>2. ASSUME client'.op = "deliver", client'.step = "transfer"
        PROVE  \A i \in DOMAIN replies'[client'.cur] : replies'[client'.cur][i].code # "ok"
    <3>1. client.step \in DataCommands /\ client'.cur = client.cur /\ client.op = "deliver"
      BY <1>6, <2>2 DEF Led
    <3>2. client.step = "STOR" /\ ~client.dialing
      BY <3>1 DEF Course, OnCourse, WantedCommand, DataCommands, Logins
    <3>3. c = client.cur
      BY <1>1, <3>2 DEF Conn
    <3>4. \A i \in DOMAIN replies[c] : replies[c][i].code # "ok"
      BY <3>1, <3>2, <3>3 DEF Uploads
    <3> QED
      BY <1>5, <3>1, <3>3, <3>4
  <2>3. StoredIsWhole'
    <3>1. ASSUME client'.op = "idle", client'.last = "deliver", client'.result = "ok"
          PROVE  file' = "whole"
      <4>1. client.op = "deliver"
        BY <1>3, <1>6, <3>1 DEF Led
      <4>2. client.step = "shut" /\ code = "ok" /\ copied
        BY <1>6, <3>1, <4>1 DEF Led
      <4>3. ~client.dialing
        BY <4>2 DEF Course, OnCourse, Logins
      <4>4. c = client.cur
        BY <1>1, <4>3 DEF Conn
      <4>5. replies[client.cur][1].code = "ok" => file = "whole"
        BY <1>5, <4>1, <4>2, <4>4 DEF Uploads
      <4> QED
        BY <1>1, <1>2, <1>5, <4>2, <4>4, <4>5
    <3> QED
      BY <3>1 DEF StoredIsWhole
  <2> QED
    BY <2>1, <2>2, <2>3 DEF Uploads, DataCommands
<1> QED
  BY <1>8, <1>9, <1>10

LEMMA CopyKeeps ==
    ASSUME TypeOK, Course, Dialled, Exchanges, Uploads, Upload \/ Download
    PROVE  Course' /\ Dialled' /\ Exchanges' /\ Uploads' /\ client' \in Clients
<1>1. /\ client.step = "transfer" /\ client \in Clients /\ OnCourse(client, conns)
      /\ UNCHANGED <<conns, line, requests, sending, replies, file>> /\ handle' = FALSE
      /\ faults' \in {faults, faults + 1}
      /\ client.op = "deliver" => (copied' = TRUE /\ data' = "whole") \/ (copied' = FALSE /\ data' = "part")
  BY DEF Upload, Download, NoFault, Fault, server, TypeOK, Course
<1>2. client' = AfterCopy(TRUE)
  BY DEF Upload, Download, AfterCopy
<1>3. /\ client' \in Clients /\ client'.step = "shut" /\ client'.sent = TRUE
      /\ client'.op = client.op /\ client'.resume = client.resume /\ client'.old = client.old
      /\ client'.last = client.last /\ client'.result = client.result
      /\ client'.cur = client.cur /\ client'.dialing = client.dialing
  <2>1. LET b == Goto(client, "shut")
        IN /\ b \in Clients /\ b.step = "shut"
           /\ b.op = client.op /\ b.resume = client.resume /\ b.old = client.old
           /\ b.last = client.last /\ b.result = client.result
           /\ b.cur = client.cur /\ b.dialing = client.dialing
    BY <1>1, Gone DEF Steps
  <2>2. client' \in Clients
    BY <1>2, <2>1 DEF AfterCopy, Clients
  <2> QED
    BY <1>2, <2>1, <2>2 DEF AfterCopy, Clients
<1>4. Exchanges'
  BY <1>1, <1>2, ShutsInTurn
<1>5. Course'
  <2>1. OnCourse(client, conns)'
    BY <1>1, <1>3 DEF OnCourse, Logins, DataCommands, Commands
  <2> QED
    BY <1>1, <1>3, <2>1 DEF Course, DataCommands
<1>6. Dialled'
  <2>1. \A c \in Conns \cup {0} : Damaged(c)' => Damaged(c)
    BY <1>1 DEF Damaged
  <2> QED
    BY <1>1, <1>3, <2>1, DialledKept
<1>7. Uploads'
  <2>1. client.op # "idle"
    BY <1>1 DEF OnCourse
  <2>2. client.op = "deliver" => \A i \in DOMAIN replies[client.cur] : replies[client.cur][i].code # "ok"
    BY <1>1 DEF Uploads
  <2> QED
    BY <1>1, <1>3, <2>1, <2>2 DEF Uploads, StoredIsWhole
<1> QED
  BY <1>3, <1>4, <1>5, <1>6, <1>7

-----------------------------------------------------------------------------
(***************************************************************************)
(* The invariant holds.                                                    *)
(***************************************************************************)
LEMMA InitHolds == Init => IInv
<1> SUFFICES ASSUME Init
             PROVE  IInv
  OBVIOUS
<1>1. Depth \in Nat \ {0} /\ MaxOld \in Nat /\ MaxCalls \in Nat /\ MaxFaults \in Nat
  BY FtpAssumption
<1>2. client = [op |-> "idle", step |-> "idle", sent |-> FALSE, resume |-> "idle", level |-> 0, old |-> 0,
                errs |-> FALSE, last |-> "idle", result |-> "none", cur |-> 0, dialing |-> FALSE]
  BY DEF Init
<1>3. client \in Clients
  BY <1>1, <1>2 DEF Clients
<1>4. TypeOK
  <2>1. /\ known \in [Conns -> SUBSET Features] /\ skipEPSV \in [Conns -> BOOLEAN]
        /\ line \in [Conns -> {"open", "closed"}] /\ sending \in [Conns -> BOOLEAN]
    BY DEF Init
  <2>2. requests \in [Conns -> Seq(Commands)]
    BY EmptySeq DEF Init
  <2>3. replies \in [Conns -> Seq([to : Commands \cup {"none"}, code : Codes])]
    BY EmptySeq DEF Init
  <2>4. dirs \in 0 .. Depth /\ conns \in 0 .. MaxFaults + 1 /\ calls \in 0 .. MaxCalls /\ faults \in 0 .. MaxFaults
    BY <1>1 DEF Init
  <2> QED
    BY <1>3, <2>1, <2>2, <2>3, <2>4 DEF Init, TypeOK
<1>5. Course
  BY <1>2 DEF Init, Course, OnCourse, Logins, DataCommands
<1>6. Dialled
  BY <1>2 DEF Dialled
<1>7. \A c \in Conns : line[c] = "closed" /\ requests[c] = <<>> /\ sending[c] = FALSE /\ replies[c] = <<>>
  BY DEF Init
<1>8. Exchanges
  <2> SUFFICES ASSUME NEW c \in Conns
               PROVE  Exchanged(c)
    BY DEF Exchanges
  <2>1. DOMAIN replies[c] = {}
    BY <1>7
  <2> QED
    BY <1>2, <1>7, <2>1 DEF Exchanged, Conn, Conns, IsIdle
<1>9. Uploads
  BY <1>2 DEF Uploads, StoredIsWhole
<1> QED
  BY <1>4, <1>5, <1>6, <1>8, <1>9 DEF IInv

LEMMA TypeKept ==
    ASSUME TypeOK, client' \in Clients, conns' \in 0 .. MaxFaults + 1, calls' \in 0 .. MaxCalls,
           known' \in [Conns -> SUBSET Features], skipEPSV' \in [Conns -> BOOLEAN],
           handle' \in BOOLEAN, copied' \in BOOLEAN,
           line' \in [Conns -> {"open", "closed"}],
           requests' \in [Conns -> Seq(Commands)], sending' \in [Conns -> BOOLEAN],
           replies' \in [Conns -> Seq([to : Commands \cup {"none"}, code : Codes])],
           data' \in {"none", "part", "whole"}, features' = features, dirs' \in 0 .. Depth,
           file' \in {"none", "cut", "whole"}, faults' \in 0 .. MaxFaults
    PROVE  TypeOK'
BY DEF TypeOK

LEMMA CountsFaults ==
    ASSUME TypeOK, NoFault \/ Fault
    PROVE  faults' \in 0 .. MaxFaults /\ faults' \in {faults, faults + 1}
BY FtpAssumption DEF TypeOK, NoFault, Fault

\* A step that leaves the connections alone keeps the whole invariant.
LEMMA LeftKeepsAll ==
    ASSUME IInv, Left, NoFault \/ Fault, UNCHANGED <<known, copied, features, dirs>>,
           handle' \in BOOLEAN, skipEPSV' \in [Conns -> BOOLEAN], calls' \in 0 .. MaxCalls,
           data' \in {"none", "part", "whole"}, file' \in {"none", "cut", "whole"}
    PROVE  IInv'
<1>1. TypeOK /\ Course /\ Dialled /\ Exchanges /\ Uploads
  BY DEF IInv
<1>2. faults' \in 0 .. MaxFaults /\ faults' \in {faults, faults + 1}
  BY <1>1, CountsFaults
<1>3. Course' /\ Dialled' /\ Exchanges' /\ Uploads'
  BY <1>1, <1>2, LeftKeeps
<1>4. client' \in Clients /\ UNCHANGED <<conns, line, requests, sending, replies>>
  BY DEF Left
<1>5. TypeOK'
  BY <1>1, <1>2, <1>4, TypeKept DEF TypeOK
<1> QED
  BY <1>3, <1>5 DEF IInv

LEMMA ServerStepHolds ==
    ASSUME IInv, NEW c \in Conns,
           ServerAnswers(c) \/ ServerEndsTransfer(c) \/ ServerTimesOut(c) \/ ConnectionBreaks(c)
    PROVE  IInv'
<1>1. TypeOK /\ Course /\ Dialled /\ Exchanges /\ Uploads
  BY DEF IInv
<1>2. /\ client' = client /\ UNCHANGED library /\ features' = features
      /\ client \in Clients /\ conns \in 0 .. MaxFaults + 1 /\ calls \in 0 .. MaxCalls
      /\ known \in [Conns -> SUBSET Features] /\ skipEPSV \in [Conns -> BOOLEAN]
      /\ handle \in BOOLEAN /\ copied \in BOOLEAN
      /\ line \in [Conns -> {"open", "closed"}] /\ requests \in [Conns -> Seq(Commands)]
      /\ sending \in [Conns -> BOOLEAN]
      /\ replies \in [Conns -> Seq([to : Commands \cup {"none"}, code : Codes])]
      /\ data \in {"none", "part", "whole"} /\ dirs \in 0 .. Depth /\ file \in {"none", "cut", "whole"}
  BY <1>1 DEF ServerAnswers, ServerEndsTransfer, ServerTimesOut, ConnectionBreaks, TypeOK
<1>3. UNCHANGED <<known, skipEPSV, handle, copied, conns, calls>>
  BY <1>2 DEF library
<1>4. ASSUME NEW x \in [to : Commands \cup {"none"}, code : Codes], replies' = [replies EXCEPT ![c] = Append(@, x)]
      PROVE  replies' \in [Conns -> Seq([to : Commands \cup {"none"}, code : Codes])]
  <2>1. Append(replies[c], x) \in Seq([to : Commands \cup {"none"}, code : Codes])
    BY <1>2, AppendProperties
  <2> QED
    BY <1>2, <1>4, <2>1
<1>5. requests[c] # <<>> => Head(requests[c]) \in Commands /\ Tail(requests[c]) \in Seq(Commands)
  BY <1>2, Heard
<1>6. CASE ServerAnswers(c)
  <2>1. requests[c] # <<>>
    BY <1>6 DEF ServerAnswers
  <2>2. PICK cmd, code : /\ cmd = Head(requests[c]) /\ code \in Answers(cmd) \cup Refusals(cmd)
                         /\ Reply(c, cmd, code)
                         /\ IF code \in Answers(cmd) \/ code = "absent" THEN NoFault ELSE Fault
                         /\ sending' = [sending EXCEPT ![c] = code = "prelim"]
                         /\ requests' = IF code = "prelim" THEN requests ELSE [requests EXCEPT ![c] = Tail(@)]
                         /\ dirs' = IF cmd = "MKD" /\ code = "ok" THEN client.level ELSE dirs
    BY <1>6 DEF ServerAnswers
  <2>3. cmd \in Commands /\ code \in Codes
    BY <1>5, <2>1, <2>2, CodesOf
  <2>4. [to |-> cmd, code |-> code] \in [to : Commands \cup {"none"}, code : Codes]
    BY <2>3
  <2>5. replies' \in [Conns -> Seq([to : Commands \cup {"none"}, code : Codes])]
    BY <1>4, <2>2, <2>4 DEF Reply
  <2>6. sending' \in [Conns -> BOOLEAN]
    BY <1>2, <2>2
  <2>7. requests' \in [Conns -> Seq(Commands)]
    BY <1>2, <1>5, <2>1, <2>2
  <2>8. dirs' \in 0 .. Depth
    BY <1>2, <2>2 DEF Clients
  <2>9. faults' \in 0 .. MaxFaults
    BY <1>1, <2>2, CountsFaults
  <2>10. TypeOK'
    <3>1. line' = line /\ data' = data /\ file' = file
      BY <1>6 DEF ServerAnswers
    <3> QED
      BY <1>1, <1>2, <1>3, <2>5, <2>6, <2>7, <2>8, <2>9, <3>1, TypeKept
  <2> QED
    BY <1>1, <1>6, <2>10, AnswersInTurn, ServerAnswersKeeps DEF IInv
<1>7. CASE ServerEndsTransfer(c)
  <2>1. requests[c] # <<>>
    <3>1. sending[c] => c = Conn /\ Exchange(client, c)
      BY <1>1 DEF Exchanges, Exchanged, IsIdle
    <3>2. \A cmd : <<cmd>> # <<>>
      OBVIOUS
    <3> QED
      BY <1>7, <3>1, <3>2 DEF ServerEndsTransfer, Exchange, Goes, Answered, Asked, Transfers, Transferred, IsQuiet, Waits
  <2>2. PICK code \in {"ok", "no"} : Reply(c, Head(requests[c]), code) /\ (NoFault \/ Fault)
    BY <1>7 DEF ServerEndsTransfer
  <2>3. [to |-> Head(requests[c]), code |-> code] \in [to : Commands \cup {"none"}, code : Codes]
    BY <1>5, <2>1, <2>2 DEF Codes
  <2>4. replies' \in [Conns -> Seq([to : Commands \cup {"none"}, code : Codes])]
    BY <1>4, <2>2, <2>3 DEF Reply
  <2>5. /\ sending' \in [Conns -> BOOLEAN] /\ requests' \in [Conns -> Seq(Commands)]
        /\ line' = line /\ dirs' = dirs
        /\ data' \in {"none", "part", "whole"} /\ file' \in {"none", "cut", "whole"}
    BY <1>2, <1>5, <1>7, <2>1 DEF ServerEndsTransfer
  <2>6. faults' \in 0 .. MaxFaults
    BY <1>1, <2>2, CountsFaults
  <2>7. TypeOK'
    BY <1>1, <1>2, <1>3, <2>4, <2>5, <2>6, TypeKept
  <2> QED
    BY <1>1, <1>7, <2>7, EndsInTurn, ServerEndsTransferKeeps DEF IInv
<1>8. CASE ServerTimesOut(c)
  <2>1. [to |-> "none", code |-> "bye"] \in [to : Commands \cup {"none"}, code : Codes]
    BY DEF Codes
  <2>2. replies' \in [Conns -> Seq([to : Commands \cup {"none"}, code : Codes])]
    BY <1>4, <1>8, <2>1 DEF ServerTimesOut, Reply
  <2>3. /\ sending' = sending /\ requests' = requests /\ dirs' = dirs /\ data' = data /\ file' = file
        /\ line' \in [Conns -> {"open", "closed"}]
    BY <1>2, <1>8 DEF ServerTimesOut
  <2>4. faults' \in 0 .. MaxFaults
    BY <1>1, <1>8, CountsFaults DEF ServerTimesOut
  <2>5. TypeOK'
    BY <1>1, <1>2, <1>3, <2>2, <2>3, <2>4, TypeKept
  <2> QED
    BY <1>1, <1>8, <2>5, ClosesWhenIdle, ServerTimesOutKeeps DEF IInv
<1>9. CASE ConnectionBreaks(c)
  <2>1. <<>> \in Seq(Commands) /\ <<>> \in Seq([to : Commands \cup {"none"}, code : Codes])
    BY EmptySeq
  <2>2. /\ line' \in [Conns -> {"open", "closed"}] /\ sending' \in [Conns -> BOOLEAN]
        /\ requests' \in [Conns -> Seq(Commands)]
        /\ data' \in {"none", "part", "whole"} /\ file' \in {"none", "cut", "whole"} /\ dirs' = dirs
    BY <1>2, <1>9, <2>1 DEF ConnectionBreaks
  <2>3. replies' \in [Conns -> Seq([to : Commands \cup {"none"}, code : Codes])]
    BY <1>2, <1>9, <2>1 DEF ConnectionBreaks
  <2>4. faults' \in 0 .. MaxFaults
    BY <1>1, <1>9, CountsFaults DEF ConnectionBreaks
  <2>5. TypeOK'
    BY <1>1, <1>2, <1>3, <2>2, <2>3, <2>4, TypeKept
  <2> QED
    BY <1>1, <1>9, <2>5, Breaks, ConnectionBreaksKeeps DEF IInv
<1> QED
  BY <1>6, <1>7, <1>8, <1>9

LEMMA ClientStepHolds ==
    ASSUME IInv, ClientStep
    PROVE  IInv'
<1>1. TypeOK /\ Course /\ Dialled /\ Exchanges /\ Uploads
  BY DEF IInv
<1>2. /\ client \in Clients /\ conns \in 0 .. MaxFaults + 1 /\ calls \in 0 .. MaxCalls
      /\ known \in [Conns -> SUBSET Features] /\ skipEPSV \in [Conns -> BOOLEAN]
      /\ handle \in BOOLEAN /\ copied \in BOOLEAN
      /\ line \in [Conns -> {"open", "closed"}] /\ requests \in [Conns -> Seq(Commands)]
      /\ sending \in [Conns -> BOOLEAN]
      /\ replies \in [Conns -> Seq([to : Commands \cup {"none"}, code : Codes])]
      /\ data \in {"none", "part", "whole"} /\ features \in FeatureSets
      /\ dirs \in 0 .. Depth /\ file \in {"none", "cut", "whole"}
      /\ faults \in 0 .. MaxFaults /\ features \subseteq Features
  BY <1>1, FtpAssumption DEF TypeOK
<1>3. CASE MkDir \/ DeleteOldBackups \/ GetEntry \/ OpenArchive
  <2>1. UNCHANGED <<library, server>> /\ (NoFault \/ Fault)
    BY <1>3 DEF MkDir, DeleteOldBackups, GetEntry, OpenArchive, NoFault
  <2>2. UNCHANGED <<known, skipEPSV, handle, copied, calls, features, dirs, data, file>>
    BY <2>1 DEF library, server
  <2>3. Left
    BY <1>1, <1>3, BetweenCommandsLeaves
  <2> QED
    BY <1>2, <2>1, <2>2, <2>3, LeftKeepsAll
<1>4. CASE Dial
  <2>1. /\ Course' /\ Dialled' /\ Exchanges' /\ Uploads'
        /\ client' \in Clients /\ conns' \in 0 .. MaxFaults + 1 /\ (conns' = conns \/ conns' \in Conns)
    BY <1>4, DialKeeps
  <2>2. UNCHANGED <<known, skipEPSV, handle, copied, calls, sending, replies, data, features, dirs, file>>
        /\ (NoFault \/ Fault)
    BY <1>4 DEF Dial
  <2>3. <<"CONNECT">> \in Seq(Commands)
    BY DEF Commands
  <2>4. line' \in [Conns -> {"open", "closed"}] /\ requests' \in [Conns -> Seq(Commands)]
    <3>1. /\ line' = line \/ line' = [line EXCEPT ![conns'] = "open"]
          /\ requests' = requests \/ requests' = [requests EXCEPT ![conns'] = <<"CONNECT">>]
      BY <1>4 DEF Dial
    <3>2. line' \in [Conns -> {"open", "closed"}]
      BY <1>2, <3>1
    <3>3. requests' \in [Conns -> Seq(Commands)]
      BY <1>2, <2>3, <3>1
    <3> QED
      BY <3>2, <3>3
  <2>5. faults' \in 0 .. MaxFaults
    BY <1>1, <2>2, CountsFaults
  <2>6. TypeOK'
    BY <1>1, <1>2, <2>1, <2>2, <2>4, <2>5, TypeKept
  <2> QED
    BY <2>1, <2>6 DEF IInv
<1>5. CASE SendCommand
  <2>1. /\ client.step \in Commands /\ ~client.sent
        /\ UNCHANGED <<known, copied, conns, calls, line, sending, replies, data, features, dirs, file, faults>>
    BY <1>5 DEF SendCommand
  <2>2. CASE /\ client' = [client EXCEPT !.sent = TRUE]
             /\ requests' = IF line[Conn] = "open"
                            THEN [requests EXCEPT ![Conn] = Append(@, client.step)] ELSE requests
             /\ UNCHANGED <<skipEPSV, handle>>
    <3>1. client' \in Clients
      BY <1>2, <2>2 DEF Clients
    <3>2. requests' \in [Conns -> Seq(Commands)]
      <4>1. \A c \in Conns : Append(requests[c], client.step) \in Seq(Commands)
        BY <1>2, <2>1, AppendProperties
      <4> QED
        BY <1>2, <2>2, <4>1
    <3>3. TypeOK'
      BY <1>1, <1>2, <2>1, <2>2, <3>1, <3>2, TypeKept
    <3> QED
      BY <1>1, <2>1, <2>2, <3>3, SendsInTurn, SendsKeeps DEF IInv
  <2>3. CASE /\ line[Conn] = "closed" /\ client' = Failed(client, "network")
             /\ skipEPSV' = [skipEPSV EXCEPT ![Conn] = @ \/ client.step = "EPSV"]
             /\ handle' = FALSE
    <3>1. Left
      BY <1>1, <1>5, <2>3, SendFailureLeaves
    <3>2. skipEPSV' \in [Conns -> BOOLEAN] /\ NoFault
      BY <1>2, <2>1, <2>3 DEF NoFault
    <3> QED
      BY <1>2, <2>1, <2>3, <3>1, <3>2, LeftKeepsAll
  <2> QED
    BY <1>5, <2>2, <2>3 DEF SendCommand
<1>6. CASE ReadReply
  <2>1. UNCHANGED <<copied, conns, calls, line, requests, sending, data, features, dirs, file, faults>>
    BY <1>6 DEF ReadReply
  <2>2. client.sent /\ replies[Conn] # <<>>
    BY <1>6 DEF ReadReply
  <2>3. Conn \in Conns
    BY <1>1, <2>2, InUse DEF Course, OnCourse, Commands, DataCommands
  <2>4. Tail(replies[Conn]) \in Seq([to : Commands \cup {"none"}, code : Codes])
    <3>1. replies[Conn] \in Seq([to : Commands \cup {"none"}, code : Codes])
      BY <1>2, <2>3
    <3> QED
      BY <2>2, <3>1, Heard
  <2>5. replies' \in [Conns -> Seq([to : Commands \cup {"none"}, code : Codes])]
    BY <1>2, <1>6, <2>4 DEF ReadReply
  <2>6. known' \in [Conns -> SUBSET Features]
    BY <1>2, <1>6 DEF ReadReply
  <2>7. skipEPSV' \in [Conns -> BOOLEAN]
    BY <1>2, <1>6 DEF ReadReply
  <2>8. handle' \in BOOLEAN
    BY <1>6 DEF ReadReply, StaysOpen
  <2>9. client' \in Clients
    BY <1>1, <1>6, ReplyLeads DEF Led
  <2>10. TypeOK'
    BY <1>1, <1>2, <2>1, <2>5, <2>6, <2>7, <2>8, <2>9, TypeKept
  <2> QED
    BY <1>1, <1>6, <2>10, ReadsInTurn, ReadReplyKeeps DEF IInv
<1>7. CASE ReadFails
  <2>1. UNCHANGED <<known, copied, conns, calls, server>> /\ handle' = FALSE /\ NoFault
    BY <1>7 DEF ReadFails, NoFault
  <2>2. UNCHANGED <<features, dirs, data, file>>
    BY <2>1 DEF server
  <2>3. skipEPSV' \in [Conns -> BOOLEAN]
    BY <1>2, <1>7 DEF ReadFails
  <2>4. Left
    BY <1>1, <1>7, ReadFailsLeaves
  <2> QED
    BY <1>2, <2>1, <2>2, <2>3, <2>4, LeftKeepsAll
<1>8. CASE OpenDataConn
  <2>1. UNCHANGED <<known, skipEPSV, copied, calls, features, dirs, file>> /\ (NoFault \/ Fault)
        /\ handle' \in BOOLEAN /\ data' \in {"none", "part", "whole"}
    BY <1>2, <1>8 DEF OpenDataConn
  <2>2. Left
    BY <1>1, <1>8, OpenDataConnLeaves
  <2> QED
    BY <1>2, <2>1, <2>2, LeftKeepsAll
<1>9. CASE Upload \/ Download
  <2>1. /\ UNCHANGED <<known, skipEPSV, conns, calls, line, requests, sending, replies, features, dirs, file>>
        /\ handle' = FALSE /\ copied' \in BOOLEAN /\ data' \in {"none", "part", "whole"}
        /\ (NoFault \/ Fault)
    BY <1>2, <1>9 DEF Upload, Download, server, NoFault
  <2>2. Course' /\ Dialled' /\ Exchanges' /\ Uploads' /\ client' \in Clients
    BY <1>1, <1>9, CopyKeeps
  <2>3. faults' \in 0 .. MaxFaults
    BY <1>1, <2>1, CountsFaults
  <2>4. TypeOK'
    BY <1>1, <1>2, <2>1, <2>2, <2>3, TypeKept
  <2> QED
    BY <2>2, <2>4 DEF IInv
<1> QED
  BY <1>3, <1>4, <1>5, <1>6, <1>7, <1>8, <1>9 DEF ClientStep

LEMMA StepHolds ==
    ASSUME IInv, [Next]_vars
    PROVE  IInv'
<1>1. TypeOK /\ Course /\ Dialled /\ Exchanges /\ Uploads
  BY DEF IInv
<1>2. CASE Connect
  <2>1. UNCHANGED <<library, server>> /\ NoFault
    BY <1>2 DEF Connect, NoFault
  <2>2. UNCHANGED <<known, skipEPSV, handle, copied, calls, features, dirs, data, file>>
    BY <2>1 DEF library, server
  <2>3. Left
    BY <1>1, <1>2, ConnectLeaves
  <2> QED
    BY <1>1, <2>1, <2>2, <2>3, LeftKeepsAll DEF TypeOK
<1>3. ASSUME NEW o \in Operations, BeginCall(o)
      PROVE  IInv'
  <2>1. /\ UNCHANGED <<known, skipEPSV, handle, copied, features, dirs, data>> /\ NoFault
        /\ file' \in {"none", file} /\ calls < MaxCalls /\ calls' = calls + 1
    BY <1>3 DEF BeginCall, NoFault
  <2>2. Left
    BY <1>1, <1>3, BeginCallLeaves
  <2>3. calls' \in 0 .. MaxCalls
    BY <1>1, <2>1, FtpAssumption DEF TypeOK
  <2>4. file' \in {"none", "cut", "whole"} /\ handle' \in BOOLEAN /\ skipEPSV' \in [Conns -> BOOLEAN]
        /\ data' \in {"none", "part", "whole"}
    BY <1>1, <2>1 DEF TypeOK
  <2> QED
    BY <2>1, <2>2, <2>3, <2>4, LeftKeepsAll
<1>4. CASE ClientStep
  BY <1>4, ClientStepHolds
<1>5. CASE ServerStep
  BY <1>5, ServerStepHolds DEF ServerStep
<1>6. ASSUME NEW c \in Conns, ServerTimesOut(c) \/ ConnectionBreaks(c)
      PROVE  IInv'
  BY <1>6, ServerStepHolds
<1>7. CASE UNCHANGED vars
  <2>1. /\ UNCHANGED <<client, known, skipEPSV, handle, copied, conns, calls>>
        /\ UNCHANGED <<line, requests, sending, replies, data, features, dirs, file, faults>>
    BY <1>7 DEF vars, library, server
  <2>2. TypeOK'
    BY <1>1, <2>1 DEF TypeOK
  <2>3. Course'
    BY <1>1, <2>1 DEF Course, OnCourse, WantedCommand
  <2>4. Dialled'
    BY <1>1, <2>1, DialledKept DEF Damaged
  <2>5. Exchanges'
    BY <1>1, <2>1, Untouched DEF Exchanges, Conns
  <2>6. Uploads'
    BY <1>1, <2>1 DEF Uploads, StoredIsWhole
  <2> QED
    BY <2>2, <2>3, <2>4, <2>5, <2>6 DEF IInv
<1> QED
  BY <1>2, <1>3, <1>4, <1>5, <1>6, <1>7 DEF Next

LEMMA IInvHolds == Spec => []IInv
<1>1. Init => IInv
  BY InitHolds
<1>2. IInv /\ [Next]_vars => IInv'
  BY StepHolds
<1> QED
  BY <1>1, <1>2, PTL DEF Spec

-----------------------------------------------------------------------------
\* The client, the server and what is under way between them stay within
\* their types; in particular the library never dials more connections than
\* there were failures, and one.
THEOREM TypeCorrect == Spec => []TypeOK
<1>1. IInv => TypeOK
  BY DEF IInv
<1> QED
  BY <1>1, IInvHolds, PTL

\* lib/ftp/ftp.go: whatever was refused or has failed before, a reply that
\* lies on the connection in use is the one to the command the client waits
\* for, or a farewell.
THEOREM NoReplyIsMistaken == Spec => []RepliesMatch
<1>1. ASSUME IInv
      PROVE  RepliesMatch
  <2> SUFFICES ASSUME NEW c \in Conns, c = Conn, NEW i \in DOMAIN replies[c]
               PROVE  replies[c][i].to \in Awaited \cup {"none"}
    BY DEF RepliesMatch
  <2>1. Exchange(client, c) /\ Course /\ TypeOK
    BY <1>1 DEF IInv, Exchanges, Exchanged
  <2>2. i \in Nat /\ i >= 1 /\ DOMAIN replies[c] = 1 .. Len(replies[c]) /\ Len(replies[c]) \in Nat
    <3>1. replies[c] \in Seq([to : Commands \cup {"none"}, code : Codes])
      BY <2>1 DEF TypeOK
    <3>2. DOMAIN replies[c] = 1 .. Len(replies[c]) /\ Len(replies[c]) \in Nat
      BY <3>1, LenProperties
    <3> QED
      BY <3>2
  <2>3. \A cmd : Answered(c, cmd) => replies[c][i].to \in {cmd, "none"}
    <3>1. CASE i = 1
      BY <3>1 DEF Answered, From
    <3>2. CASE i # 1
      <4>1. i >= 2
        BY <2>2, <3>2
      <4> QED
        BY <4>1 DEF Answered, OnlyFarewell, From
    <3> QED
      BY <3>1, <3>2
  <2>4. \A cmd : ~Goes(c, cmd) /\ ~Asked(c, cmd)
    <3>1. ASSUME replies[c] = <<>>
          PROVE  FALSE
      <4>1. Len(replies[c]) = 0
        BY <3>1, EmptySeq
      <4> QED
        BY <2>2, <4>1
    <3> QED
      BY <3>1 DEF Goes, Asked
  <2>5. \A cmd : Transfers(c, cmd) => replies[c][i].to \in {cmd, "none"}
    BY <2>2 DEF Transfers, From
  <2>6. \A cmd : Transferred(c, cmd) => replies[c][i].to \in {cmd, "none"}
    <3>1. i = 1 \/ i = 2 \/ i >= 3
      BY <2>2
    <3> QED
      BY <3>1 DEF Transferred, OnlyFarewell, From
  <2>7. CASE client.step \in {"transfer", "shut"}
    <3>1. Awaited = {WantedCommand(client)}
      BY <2>7 DEF Awaited
    <3> QED
      BY <2>1, <2>3, <2>4, <2>7, <3>1 DEF Exchange
  <2>8. CASE client.step \notin {"transfer", "shut"} /\ client.sent
    BY <2>1, <2>3, <2>4, <2>5, <2>6, <2>8 DEF Exchange, Awaited
  <2>9. CASE client.step \notin {"transfer", "shut"} /\ ~client.sent
    BY <2>1, <2>2, <2>9 DEF Exchange, Waits, IsQuiet, OnlyFarewell, From
  <2> QED
    BY <2>7, <2>8, <2>9
<1> QED
  BY <1>1, IInvHolds, PTL

\* lib/ftp/ftp.go: on no way through a call, refused or broken off, does a
\* data connection stay open.
THEOREM NoConnectionLeaks == Spec => []DataConnClosed
<1>1. IInv => DataConnClosed
  BY DEF IInv, Course, DataConnClosed
<1> QED
  BY <1>1, IInvHolds, PTL

\* storage/ftp/ftp.go, copy: a delivery that is reported as successful is on
\* the server as a whole.
THEOREM SuccessIsTrue == Spec => []StoredIsWhole
<1>1. IInv => StoredIsWhole
  BY DEF IInv, Uploads
<1> QED
  BY <1>1, IInvHolds, PTL

-----------------------------------------------------------------------------
(***************************************************************************)
(* When nothing has failed, and the server announces MLST (Unharmed).      *)
(***************************************************************************)
\* The reply number i the client may get for its step when nothing fails.
Good(i) ==
    IF client.step = "MLST" THEN {IF client.level <= dirs THEN "ok" ELSE "absent"}
    ELSE IF client.step \in DataCommands /\ i = 1
         THEN {"prelim"} \cup (IF client.step = "LIST" THEN {"absent"} ELSE {})
    ELSE {"ok"}

GoodReplies == Waits(client) => \A i \in DOMAIN replies[Conn] : replies[Conn][i].code \in Good(i)

\* The server has announced MLST on the connection in use.
MLSTKnown ==
    /\ client.cur # 0 => "MLST" \in known[client.cur]
    /\ client.dialing /\ client.step \in {"TYPE", "OPTS", "NOOP"} => "MLST" \in known[conns]

\* A directory is asked for below those that are there, and made next to them.
LevelsFit ==
    /\ client.step \in {"GetEntry", "MLST"} => client.level <= dirs + 1
    /\ client.step = "MKD" =>
          client.level = IF client.sent /\ replies[Conn] # <<>> THEN dirs ELSE dirs + 1

\* The server has said that it begins.
Begun ==
    \/ client.step = "transfer"
    \/ client.step \in DataCommands /\ client.sent /\ replies[Conn] # <<>> /\ replies[Conn][1].code = "prelim"

\* An upload goes on until the client ends it; a listing comes as a whole.
TransferRuns ==
    /\ Begun => sending[Conn] \/ (client.op # "deliver" /\ data = "whole")
    /\ client.step = "shut" => copied

\* Nothing has gone wrong in the calls so far.
AllWell ==
    /\ ~client.errs
    /\ client.op = "idle" /\ client.last # "list" => client.result \in {"none", "ok"}

Smooth == AllWell /\ MLSTKnown /\ LevelsFit /\ GoodReplies /\ TransferRuns

Unharmed == faults = 0 /\ "MLST" \in features => Smooth

\* The steps that say nothing about directories and transfers.
PlainSteps == Steps \ {"GetEntry", "MLST", "MKD", "transfer", "shut"}

LEMMA NoDamage ==
    ASSUME IInv, faults = 0
    PROVE  /\ Conn # 0 => /\ Conn \in Conns /\ line[Conn] = "open"
                          /\ ~Damaged(Conn)
                          /\ ~Waits(client) => replies[Conn] = <<>>
           /\ client.step = "dial" => client.cur = 0
<1>1. TypeOK /\ Course /\ Dialled /\ Exchanges
  BY DEF IInv
<1>2. conns \in Nat /\ client.cur \in Nat /\ client.cur <= conns /\ Conn \in Conns \cup {0}
      /\ (client.dialing => client.cur < conns)
  BY <1>1, InUse
<1>3. client.dialing => client.step # "dial"
  BY <1>1 DEF Course, OnCourse, Logins
<1>4. client.step = "dial" => client.cur = 0
  BY <1>1, <1>2, <1>3 DEF Dialled
<1>5. Conn # 0 => ~Damaged(Conn)
  BY <1>1, <1>2 DEF Dialled, Conn
<1>6. Conn # 0 => line[Conn] = "open"
  BY <1>1, <1>2, <1>5 DEF Damaged, TypeOK
<1>7. Conn # 0 /\ ~Waits(client) => replies[Conn] = <<>>
  BY <1>1, <1>2, <1>6, QuietNow, QuietIsEmpty
<1> QED
  BY <1>2, <1>4, <1>5, <1>6, <1>7

LEMMA PlainIsSmooth ==
    ASSUME client'.step \in PlainSteps, ~client'.sent, MLSTKnown', AllWell'
    PROVE  Smooth'
BY DEF PlainSteps, Smooth, LevelsFit, GoodReplies, TransferRuns, Begun, Waits

\* Client b goes on with the call of a, which has met no error, or has ended it.
Onward(a, b) ==
    /\ b.errs = FALSE /\ b.sent = FALSE /\ b.cur = a.cur /\ b.dialing = FALSE /\ b.step \in {"NOOP", "idle"}
    /\ b.op = "idle" /\ b.last # "list" => b.result = "ok"

LEMMA EndsWell ==
    ASSUME NEW a \in Clients
    PROVE  /\ Onward(a, Returned(a, "ok"))
           /\ a.op = "list" => Onward(a, Returned(a, "error"))
<1>1. \A r \in {"ok", "error", "panic"} :
        LET b == Returned(a, r)
        IN /\ b.step = "idle" /\ b.sent = FALSE /\ b.last = a.op /\ b.result = r
           /\ b.cur = a.cur /\ b.dialing = FALSE
  BY HasReturned
<1>2. \A r \in {"ok", "error", "panic"} : Returned(a, r).errs = FALSE
  BY HasReturned DEF Returned, Goto, Clients
<1> QED
  BY <1>1, <1>2 DEF Onward

LEMMA AsksWell ==
    ASSUME NEW a \in Clients, a.errs = FALSE, a.cur # 0, a.dialing = FALSE, a.op # "idle", NEW next \in Resumes
    PROVE  Onward(a, UpdateConn(a, next))
BY ConnUpdated DEF Onward

LEMMA NextDirWell ==
    ASSUME NEW a \in Clients, a.errs = FALSE, a.cur # 0, a.dialing = FALSE, a.op # "idle"
    PROVE  Onward(a, NextDir(a))
<1>1. CASE a.level > 1
  <2> DEFINE c == [a EXCEPT !.level = @ - 1]
  <2>1. a.level - 1 \in 0 .. Depth
    BY <1>1, FtpAssumption DEF Clients
  <2>2. c \in Clients
    BY <2>1 DEF Clients
  <2>3. c.cur = a.cur /\ c.op = a.op /\ c.dialing = a.dialing /\ c.errs = a.errs
    BY <2>2 DEF Clients
  <2> HIDE DEF c
  <2>4. Onward(c, UpdateConn(c, "LIST"))
    BY <2>2, <2>3, AsksWell DEF Resumes, DataCommands
  <2> QED
    BY <1>1, <2>3, <2>4 DEF NextDir, Onward, c
<1>2. CASE ~(a.level > 1)
  BY <1>2, EndsWell DEF NextDir
<1> QED
  BY <1>1, <1>2

LEMMA NextOldWell ==
    ASSUME NEW a \in Clients, a.errs = FALSE, a.cur # 0, a.dialing = FALSE, a.op # "idle"
    PROVE  Onward(a, NextOld(a))
BY AsksWell, NextDirWell DEF NextOld, Resumes

LEMMA OldWell ==
    ASSUME NEW a \in Clients, a.errs = FALSE, a.cur # 0, a.dialing = FALSE, a.op # "idle", NEW n \in 0 .. MaxOld
    PROVE  Onward(a, NextOld([a EXCEPT !.old = n]))
<1> DEFINE c == [a EXCEPT !.old = n]
<1>1. c \in Clients
  BY DEF Clients
<1>2. c.cur = a.cur /\ c.op = a.op /\ c.dialing = a.dialing /\ c.errs = a.errs
  BY <1>1 DEF Clients
<1> HIDE DEF c
<1>3. Onward(c, NextOld(c))
  BY <1>1, <1>2, NextOldWell
<1> QED
  BY <1>2, <1>3 DEF Onward, c

LEMMA OnwardIsSmooth ==
    ASSUME Smooth, IInv, Onward(client, client'), known' = known
    PROVE  Smooth'
<1>1. MLSTKnown'
  BY DEF Smooth, MLSTKnown, Onward
<1>2. AllWell'
  BY DEF Onward, AllWell
<1> QED
  BY <1>1, <1>2, PlainIsSmooth DEF Onward, PlainSteps, Steps, Commands
LEMMA GotoIsSmooth ==
    ASSUME Smooth, IInv, NEW a \in Clients, NEW next \in PlainSteps, client' = Goto(a, next),
           a.errs = FALSE, a.op # "idle", a.cur # 0 => "MLST" \in known'[a.cur],
           a.dialing /\ next \in {"TYPE", "OPTS", "NOOP"} => "MLST" \in known'[conns'],
           next \in {"idle", "open"} => a.dialing = FALSE
    PROVE  Smooth'
<1>1. /\ client'.step = next /\ client'.sent = FALSE /\ client'.op = a.op /\ client'.errs = a.errs
      /\ client'.cur = a.cur /\ client'.dialing = a.dialing
  BY Gone DEF PlainSteps
<1>2. MLSTKnown'
  BY <1>1 DEF MLSTKnown
<1>3. AllWell'
  BY <1>1 DEF AllWell
<1> QED
  BY <1>1, <1>2, <1>3, PlainIsSmooth

LEMMA ConnectSmooth ==
    ASSUME Smooth, IInv, Connect
    PROVE  Smooth'
<1> DEFINE a == [client EXCEPT !.op = "init"]
<1>1. client \in Clients /\ client.op = "idle" /\ client.result = "none"
  BY DEF IInv, TypeOK, Connect
<1>2. client.cur = 0 /\ client.step = "idle" /\ client.dialing = FALSE /\ client.errs = FALSE
  BY <1>1 DEF IInv, Course, OnCourse, Logins, Clients, Smooth, AllWell
<1>3. a \in Clients /\ a.op = "init" /\ a.cur = 0 /\ a.dialing = FALSE /\ a.errs = FALSE
  BY <1>1, <1>2 DEF Clients
<1>4. client' = UpdateConn(a, "done")
  BY DEF Connect
<1> HIDE DEF a
<1>5. /\ client'.step = "dial" /\ client'.sent = FALSE /\ client'.op = "init" /\ client'.cur = 0
      /\ client'.dialing = FALSE /\ client'.errs = FALSE
  BY <1>3, <1>4, ConnUpdated DEF Resumes
<1>6. MLSTKnown' /\ AllWell'
  BY <1>5 DEF MLSTKnown, AllWell
<1> QED
  BY <1>5, <1>6, PlainIsSmooth DEF PlainSteps, Steps

LEMMA BeginCallSmooth ==
    ASSUME Smooth, IInv, NEW o \in Operations, BeginCall(o)
    PROVE  Smooth'
<1> DEFINE a == [client EXCEPT !.op = o, !.level = Depth]
<1>1. /\ client \in Clients /\ client.op = "idle" /\ client.cur # 0
      /\ o \in {"deliver", "rotate", "list"} /\ Depth \in 0 .. Depth /\ known' = known
  BY FtpAssumption DEF IInv, TypeOK, BeginCall
<1>2. client.dialing = FALSE /\ client.errs = FALSE
  BY <1>1 DEF IInv, Course, OnCourse, Logins, Clients, Smooth, AllWell
<1>3. a \in Clients /\ a.op = o /\ a.cur = client.cur /\ a.dialing = FALSE /\ a.errs = FALSE
  <2>1. a \in Clients
    BY <1>1 DEF Clients
  <2> QED
    BY <1>1, <1>2, <2>1 DEF Clients
<1>4. PICK next \in {"mkDir", "rotate", "LIST"} : client' = UpdateConn(a, next)
  <2>1. client' = UpdateConn(a, CASE o = "deliver" -> "mkDir" [] o = "rotate" -> "rotate" [] o = "list" -> "LIST")
    BY DEF BeginCall
  <2> QED
    BY <1>1, <2>1
<1> HIDE DEF a
<1>5. Onward(a, UpdateConn(a, next))
  BY <1>1, <1>3, AsksWell DEF Resumes, DataCommands
<1>6. Onward(client, client')
  BY <1>3, <1>4, <1>5 DEF Onward
<1> QED
  BY <1>1, <1>6, OnwardIsSmooth

\* In the steps between the commands of a call.
LEMMA BetweenWell ==
    ASSUME Smooth, IInv, client.step \in {"mkDir", "rotate", "GetEntry", "open", "connect"}
    PROVE  /\ client \in Clients /\ client.errs = FALSE /\ client.cur # 0 /\ client.dialing = FALSE
           /\ client.op # "idle" /\ "MLST" \in known[client.cur]
<1>1. InCall(client, conns) /\ client.op # "idle" /\ client.dialing = FALSE
  BY BetweenCommands DEF IInv
<1> QED
  BY <1>1 DEF InCall, Smooth, AllWell, MLSTKnown, Clients

LEMMA MkDirSmooth ==
    ASSUME Smooth, IInv, MkDir
    PROVE  Smooth'
<1>1. /\ client \in Clients /\ client.errs = FALSE /\ client.cur # 0 /\ client.dialing = FALSE
      /\ client.op # "idle"
  BY BetweenWell DEF MkDir
<1>2. known' = known /\ dirs' = dirs /\ dirs \in Nat
  BY FtpAssumption DEF MkDir, library, server, IInv, TypeOK
<1>3. CASE client.level > 1
  <2> DEFINE c == [client EXCEPT !.level = @ - 1]
  <2>1. client.level - 1 \in 0 .. Depth
    BY <1>1, <1>3, FtpAssumption DEF Clients
  <2>2. c \in Clients
    BY <1>1, <2>1 DEF Clients
  <2>3. c.cur = client.cur /\ c.op = client.op /\ c.dialing = client.dialing /\ c.errs = client.errs
    BY <1>1, <2>2 DEF Clients
  <2>4. client' = UpdateConn(c, "mkDir")
    BY <1>3 DEF MkDir
  <2> HIDE DEF c
  <2>5. Onward(c, UpdateConn(c, "mkDir"))
    BY <1>1, <2>2, <2>3, AsksWell DEF Resumes
  <2>6. Onward(client, client')
    BY <2>3, <2>4, <2>5 DEF Onward
  <2> QED
    BY <1>2, <2>6, OnwardIsSmooth
<1>4. CASE ~(client.level > 1)
  <2>1. client' = Goto(client, "GetEntry")
    BY <1>4 DEF MkDir
  <2>2. /\ client'.step = "GetEntry" /\ client'.sent = FALSE /\ client'.op = client.op /\ client'.errs = client.errs
        /\ client'.cur = client.cur /\ client'.dialing = client.dialing /\ client'.level = client.level
    BY <1>1, <2>1, Gone DEF Steps
  <2>3. client'.level <= dirs' + 1
    BY <1>1, <1>2, <1>4, <2>2, FtpAssumption DEF Clients
  <2>4. AllWell' /\ MLSTKnown'
    BY <1>1, <1>2, <2>2 DEF AllWell, MLSTKnown, Smooth
  <2>5. LevelsFit' /\ GoodReplies' /\ TransferRuns'
    BY <2>2, <2>3 DEF LevelsFit, GoodReplies, TransferRuns, Begun, Waits, DataCommands
  <2> QED
    BY <2>4, <2>5 DEF Smooth
<1> QED
  BY <1>3, <1>4

LEMMA DeleteOldBackupsSmooth ==
    ASSUME Smooth, IInv, DeleteOldBackups
    PROVE  Smooth'
<1>1. Onward(client, UpdateConn(client, "LIST"))
  BY BetweenWell, AsksWell DEF DeleteOldBackups, Resumes, DataCommands
<1> QED
  BY <1>1, OnwardIsSmooth DEF DeleteOldBackups, library

LEMMA GetEntrySmooth ==
    ASSUME Smooth, IInv, GetEntry
    PROVE  Smooth'
<1>1. /\ client \in Clients /\ client.errs = FALSE /\ client.cur # 0 /\ client.dialing = FALSE
      /\ client.op # "idle" /\ "MLST" \in known[client.cur]
  BY BetweenWell DEF GetEntry
<1>2. known' = known /\ dirs' = dirs /\ Conn = client.cur
  BY <1>1 DEF GetEntry, library, server, Conn
<1>3. client' = Goto(client, "MLST")
  BY <1>1, <1>2 DEF GetEntry
<1>4. /\ client'.step = "MLST" /\ client'.sent = FALSE /\ client'.op = client.op /\ client'.errs = client.errs
      /\ client'.cur = client.cur /\ client'.dialing = client.dialing /\ client'.level = client.level
  BY <1>1, <1>3, Gone DEF Steps, Commands
<1>5. client'.level <= dirs' + 1
  BY <1>2, <1>4 DEF Smooth, LevelsFit, GetEntry
<1>6. AllWell' /\ MLSTKnown'
  BY <1>1, <1>2, <1>4 DEF AllWell, MLSTKnown, Smooth
<1>7. LevelsFit' /\ GoodReplies' /\ TransferRuns'
  BY <1>4, <1>5 DEF LevelsFit, GoodReplies, TransferRuns, Begun, Waits, DataCommands
<1> QED
  BY <1>6, <1>7 DEF Smooth

LEMMA OpenArchiveSmooth ==
    ASSUME Smooth, IInv, OpenArchive, NoFault
    PROVE  Smooth'
<1>1. client' = UpdateConn(client, "STOR") /\ known' = known
  BY DEF OpenArchive, NoFault, Fault, library, IInv, TypeOK
<1>2. Onward(client, UpdateConn(client, "STOR"))
  BY BetweenWell, AsksWell DEF OpenArchive, Resumes, DataCommands
<1> QED
  BY <1>1, <1>2, OnwardIsSmooth

LEMMA DialSmooth ==
    ASSUME Smooth, IInv, faults = 0, Dial, NoFault
    PROVE  Smooth'
<1>1. client \in Clients /\ client.step = "dial" /\ client.cur = 0 /\ client.errs = FALSE
      /\ client.op # "idle"
  BY NoDamage DEF IInv, TypeOK, Course, OnCourse, Dial, Smooth, AllWell, Clients
<1>2. client' = [Goto(client, "CONNECT") EXCEPT !.sent = TRUE, !.dialing = TRUE]
      /\ conns' = conns + 1 /\ replies' = replies /\ known' = known
  BY DEF Dial, NoFault, Fault, IInv, TypeOK
<1>3. /\ client'.step = "CONNECT" /\ client'.sent = TRUE /\ client'.op = client.op /\ client'.errs = client.errs
      /\ client'.cur = client.cur /\ client'.dialing = TRUE
  <2>1. /\ Goto(client, "CONNECT") \in Clients
        /\ Goto(client, "CONNECT").step = "CONNECT" /\ Goto(client, "CONNECT").op = client.op
        /\ Goto(client, "CONNECT").errs = client.errs /\ Goto(client, "CONNECT").cur = client.cur
    BY <1>1, Gone DEF Steps, Commands
  <2> QED
    BY <1>2, <2>1 DEF Clients
<1>4. Conn' = conns + 1 /\ conns + 1 \in Conns /\ ~(conns + 1 <= conns)
  <2>1. conns' \in 0 .. MaxFaults + 1 /\ conns \in Nat
    <3>1. IInv'
      BY ClientStepHolds DEF ClientStep
    <3> QED
      BY <3>1, FtpAssumption DEF IInv, TypeOK
  <2> QED
    BY <1>2, <1>3, <2>1, FtpAssumption DEF Conn, Conns
<1>5. replies[conns + 1] = <<>>
  <2>1. Exchanged(conns + 1) /\ conns \in Nat
    BY <1>4, FtpAssumption DEF IInv, Exchanges, TypeOK
  <2> QED
    BY <2>1 DEF Exchanged
<1>6. AllWell' /\ MLSTKnown'
  BY <1>1, <1>2, <1>3 DEF AllWell, MLSTKnown
<1>7. GoodReplies'
  <2>1. DOMAIN <<>> = {}
    OBVIOUS
  <2> QED
    BY <1>2, <1>4, <1>5, <2>1 DEF GoodReplies
<1>8. LevelsFit' /\ TransferRuns'
  BY <1>3 DEF LevelsFit, TransferRuns, Begun, DataCommands
<1> QED
  BY <1>6, <1>7, <1>8 DEF Smooth
LEMMA SendCommandSmooth ==
    ASSUME Smooth, IInv, faults = 0, SendCommand
    PROVE  Smooth'
<1>1. /\ client \in Clients /\ client.step \in Commands /\ client.sent = FALSE /\ client.op # "idle"
      /\ client.step \notin {"transfer", "shut", "idle", "dial"}
  BY DEF IInv, TypeOK, SendCommand, Course, OnCourse, Commands, DataCommands, Clients
<1>2. Conn \in Conns /\ Conn # 0
  BY <1>1, InUse DEF IInv, Conns
<1>3. line[Conn] = "open" /\ replies[Conn] = <<>>
  BY <1>1, <1>2, NoDamage DEF Waits
<1>4. /\ client' = [client EXCEPT !.sent = TRUE]
      /\ UNCHANGED <<known, conns, copied, replies, dirs, sending, data>>
  BY <1>3 DEF SendCommand
<1>5. /\ client'.step = client.step /\ client'.op = client.op /\ client'.errs = client.errs
      /\ client'.cur = client.cur /\ client'.dialing = client.dialing /\ client'.level = client.level
      /\ client'.last = client.last /\ client'.result = client.result
  BY <1>1, <1>4 DEF Clients
<1>6. Conn' = Conn
  BY <1>4, <1>5 DEF Conn
<1>7. AllWell' /\ MLSTKnown'
  BY <1>4, <1>5 DEF Smooth, AllWell, MLSTKnown
<1>8. LevelsFit'
  BY <1>1, <1>3, <1>4, <1>5, <1>6 DEF Smooth, LevelsFit
<1>9. GoodReplies'
  <2>1. DOMAIN <<>> = {}
    OBVIOUS
  <2> QED
    BY <1>3, <1>4, <1>6, <2>1 DEF GoodReplies
<1>10. TransferRuns'
  BY <1>1, <1>3, <1>4, <1>5, <1>6 DEF TransferRuns, Begun
<1> QED
  BY <1>7, <1>8, <1>9, <1>10 DEF Smooth

LEMMA OpenDataConnSmooth ==
    ASSUME Smooth, IInv, OpenDataConn, NoFault
    PROVE  Smooth'
<1>1. /\ client \in Clients /\ client.errs = FALSE /\ client.cur # 0 /\ client.dialing = FALSE
      /\ client.op # "idle" /\ "MLST" \in known[client.cur] /\ client.step = "connect"
  BY BetweenWell DEF OpenDataConn
<1>2. client' \in Succeeded(client) /\ UNCHANGED <<known, conns>>
  BY DEF OpenDataConn, NoFault, Fault, IInv, TypeOK
<1>3. client' = Goto(client, WantedCommand(client))
  BY <1>1, <1>2, SucceededCases
<1>4. WantedCommand(client) \in PlainSteps /\ WantedCommand(client) \notin {"idle", "open", "TYPE", "OPTS", "NOOP"}
  BY DEF WantedCommand, PlainSteps, Steps, Commands, DataCommands
<1> QED
  BY <1>1, <1>2, <1>3, <1>4, GotoIsSmooth

LEMMA CopySmooth ==
    ASSUME Smooth, IInv, faults' = 0, faults = 0, Upload \/ Download
    PROVE  Smooth'
<1>1. /\ client \in Clients /\ client.step = "transfer" /\ client.op # "idle" /\ client.dialing = FALSE
  BY DEF IInv, TypeOK, Course, OnCourse, Upload, Download, Logins, Clients
<1>2. UNCHANGED <<known, conns, replies, dirs, sending>>
  BY DEF Upload, Download, server
<1>3. client' = [Goto(client, "shut") EXCEPT !.sent = TRUE]
  BY DEF Upload, Download, AfterCopy
<1>4. /\ client'.step = "shut" /\ client'.sent = TRUE /\ client'.op = client.op /\ client'.errs = client.errs
      /\ client'.cur = client.cur /\ client'.dialing = FALSE
  <2>1. /\ Goto(client, "shut") \in Clients
        /\ Goto(client, "shut").step = "shut" /\ Goto(client, "shut").op = client.op
        /\ Goto(client, "shut").errs = client.errs /\ Goto(client, "shut").cur = client.cur
        /\ Goto(client, "shut").dialing = client.dialing
    BY <1>1, Gone DEF Steps
  <2> QED
    BY <1>1, <1>3, <2>1 DEF Clients
<1>5. sending[Conn] \/ (client.op # "deliver" /\ data = "whole")
  BY <1>1 DEF Smooth, TransferRuns, Begun
<1>6. copied'
  <2>1. CASE Upload
    <3>1. sending[Conn] /\ ~Fault
      BY <1>5, <2>1 DEF Upload, Fault
    <3> QED
      BY <2>1, <3>1 DEF Upload
  <2>2. CASE Download
    <3>1. data = "whole"
      BY <1>5, <2>2 DEF Download
    <3> QED
      BY <2>2, <3>1 DEF Download
  <2> QED
    BY <2>1, <2>2
<1>7. Conn' = Conn
  BY <1>1, <1>2, <1>4 DEF Conn
<1>8. AllWell' /\ MLSTKnown'
  BY <1>1, <1>2, <1>4 DEF Smooth, AllWell, MLSTKnown
<1>9. LevelsFit' /\ TransferRuns'
  BY <1>4, <1>6 DEF LevelsFit, TransferRuns, Begun, DataCommands
<1>10. GoodReplies'
  <2>1. \A i : Good(i)' = {"ok"} /\ Good(i) = {"ok"}
    BY <1>1, <1>4 DEF Good, DataCommands
  <2> QED
    BY <1>1, <1>2, <1>4, <1>7, <2>1 DEF Smooth, GoodReplies, Waits
<1> QED
  BY <1>8, <1>9, <1>10 DEF Smooth
\* What the first reply can be, and that it leads on as expected, or that it
\* tells of an absent directory.
LEMMA GoodReply ==
    ASSUME Smooth, IInv, ReadReply, NEW code, code = Head(replies[Conn]).code
    PROVE  /\ client \in Clients /\ client.op # "idle" /\ client.errs = FALSE
           /\ client.step \in Commands \cup {"shut"} /\ client.step \notin {"transfer", "idle", "dial", "connect"}
           /\ client.sent = TRUE /\ replies[Conn] # <<>> /\ replies[Conn][1].code = code
           /\ Conn \in Conns /\ Conn # 0
           /\ \/ client' \in Succeeded(client) /\ code = (IF client.step \in DataCommands THEN "prelim" ELSE "ok")
              \/ client.step = "MLST" /\ code = "absent" /\ client' = Goto(client, "MKD")
              \/ client.step = "LIST" /\ code = "absent" /\ client' = ListFailed(client, "absent")
           /\ client.step = "MLST" => code = IF client.level <= dirs THEN "ok" ELSE "absent"
           /\ replies[Conn] \in Seq([to : Commands \cup {"none"}, code : Codes])
<1>1. /\ client.sent /\ replies[Conn] # <<>>
      /\ \/ (IsExpected(code) \/ Tolerated(code)) /\ Completed /\ client' \in Succeeded(client)
         \/ ~(IsExpected(code) /\ Completed)
            /\ client' = Failed(client, IF IsExpected(code) THEN "network" ELSE code)
  BY DEF ReadReply
<1>2. /\ client \in Clients /\ client.op # "idle" /\ client.errs = FALSE /\ client.sent = TRUE
      /\ client.step \in Commands \cup {"shut"} /\ client.step \notin {"transfer", "idle", "dial", "connect"}
  BY <1>1 DEF IInv, TypeOK, Course, OnCourse, Commands, DataCommands, Clients, Smooth, AllWell
<1>3. Conn \in Conns /\ Conn # 0
  BY <1>2, InUse DEF IInv, Conns
<1>4. replies[Conn] \in Seq([to : Commands \cup {"none"}, code : Codes])
  BY <1>3 DEF IInv, TypeOK
<1>5. replies[Conn][1].code = code /\ 1 \in DOMAIN replies[Conn]
  BY <1>1, <1>4, Heard
<1>6. code \in Good(1)
  BY <1>1, <1>5 DEF Smooth, GoodReplies, Waits
<1>7. Completed
  BY DEF Completed, Smooth, TransferRuns
<1>8. CASE client.step \in DataCommands
  <2>1. code = "prelim" \/ (client.step = "LIST" /\ code = "absent")
    BY <1>6, <1>8 DEF Good, DataCommands
  <2>2. IsExpected(code) <=> code = "prelim"
    BY <1>8 DEF IsExpected, DataCommands
  <2>3. ~Tolerated(code)
    BY <1>8 DEF Tolerated, DataCommands
  <2>4. CASE code = "prelim"
    BY <1>1, <1>2, <1>3, <1>4, <1>5, <1>7, <1>8, <2>2, <2>4 DEF DataCommands
  <2>5. CASE client.step = "LIST" /\ code = "absent"
    <3>1. client.op # "deliver"
      BY <2>5 DEF IInv, Course, OnCourse, WantedCommand, DataCommands
    <3>2. Failed(client, "absent") = ListFailed(client, "absent")
      BY <2>5, <3>1, FailedCases DEF InListing
    <3> QED
      BY <1>1, <1>2, <1>3, <1>4, <1>5, <2>2, <2>3, <2>5, <3>2
  <2> QED
    BY <2>1, <2>4, <2>5
<1>9. CASE client.step = "MLST"
  <2>1. code = IF client.level <= dirs THEN "ok" ELSE "absent"
    BY <1>6, <1>9 DEF Good
  <2>2. IsExpected(code) <=> code = "ok"
    BY <1>9 DEF IsExpected, DataCommands
  <2>3. ~Tolerated(code) /\ client.step \notin DataCommands
    BY <1>9 DEF Tolerated, DataCommands
  <2>4. Failed(client, "absent") = Goto(client, "MKD")
    BY <1>9, FailedCases
  <2> QED
    BY <1>1, <1>2, <1>3, <1>4, <1>5, <1>7, <1>9, <2>1, <2>2, <2>3, <2>4
<1>10. CASE client.step \notin DataCommands \cup {"MLST"}
  <2>1. code = "ok"
    BY <1>6, <1>10 DEF Good
  <2>2. IsExpected(code)
    BY <1>10, <2>1 DEF IsExpected
  <2> QED
    BY <1>1, <1>2, <1>3, <1>4, <1>5, <1>7, <1>10, <2>1, <2>2
<1> QED
  BY <1>8, <1>9, <1>10

LEMMA ReadReplySmooth ==
    ASSUME Smooth, IInv, "MLST" \in features, ReadReply
    PROVE  Smooth'
<1>0. PICK code : code = Head(replies[Conn]).code
  OBVIOUS
<1>1. /\ client \in Clients /\ client.op # "idle" /\ client.errs = FALSE
      /\ client.step \in Commands \cup {"shut"} /\ client.step \notin {"transfer", "idle", "dial", "connect"}
      /\ client.sent = TRUE /\ replies[Conn] # <<>> /\ replies[Conn][1].code = code
      /\ Conn \in Conns /\ Conn # 0
      /\ \/ client' \in Succeeded(client) /\ code = (IF client.step \in DataCommands THEN "prelim" ELSE "ok")
         \/ client.step = "MLST" /\ code = "absent" /\ client' = Goto(client, "MKD")
         \/ client.step = "LIST" /\ code = "absent" /\ client' = ListFailed(client, "absent")
      /\ client.step = "MLST" => code = IF client.level <= dirs THEN "ok" ELSE "absent"
      /\ replies[Conn] \in Seq([to : Commands \cup {"none"}, code : Codes])
  BY <1>0, GoodReply
<1>14. client \in Clients
  BY <1>1
<1>2. /\ replies' = [replies EXCEPT ![Conn] = Tail(@)]
      /\ UNCHANGED <<copied, conns, sending, data, dirs>>
      /\ known' = IF client.step = "FEAT" /\ code = "ok" THEN [known EXCEPT ![Conn] = features] ELSE known
  BY <1>0 DEF ReadReply
<1>3. /\ client.cur \in Conns \cup {0} /\ client.dialing \in BOOLEAN /\ conns \in Nat
      /\ client.step \notin Logins => client.dialing = FALSE /\ client.cur # 0 /\ Conn = client.cur
      /\ client.step \in Logins \ {"NOOP"} => client.dialing = TRUE /\ Conn = conns
  BY <1>1, FtpAssumption DEF IInv, TypeOK, Course, OnCourse, Clients, Commands, DataCommands, Logins, Conn
<1>4. client.cur # 0 => "MLST" \in known'[client.cur]
  BY <1>1, <1>2, <1>3 DEF Smooth, MLSTKnown, IInv, TypeOK
<1>5. client.step \notin Logins => known' = known /\ "MLST" \in known[client.cur]
  BY <1>2, <1>3, <1>4 DEF Logins
<1>6. CASE client.step \in Logins \ {"NOOP"}
  <2>1. client' \in Succeeded(client) /\ code = "ok"
    BY <1>1, <1>6 DEF Logins, DataCommands
  <2>2. PICK next \in Logins \ {"CONNECT"} :
          client' = Goto(client, next) /\ (next \in {"TYPE", "OPTS", "NOOP"} => client.step \in {"FEAT", "TYPE", "OPTS"})
    <3>1. CASE client.step \in {"CONNECT", "USER", "PASS"}
      <4>1. Succeeded(client) \in {{Goto(client, "USER")}, {Goto(client, "PASS"), Goto(client, "FEAT")},
                                  {Goto(client, "FEAT")}}
        BY <3>1, SucceededCases
      <4>2. client' \in {Goto(client, "USER"), Goto(client, "PASS"), Goto(client, "FEAT")}
        BY <2>1, <4>1
      <4> QED
        BY <4>2 DEF Logins
    <3>2. CASE client.step \in {"FEAT", "TYPE", "OPTS"}
      <4>1. Succeeded(client) \in {{Goto(client, "TYPE")}, {Goto(client, "OPTS")}, {Goto(client, "NOOP")}}
        BY <3>2, SucceededCases
      <4>2. client' \in {Goto(client, "TYPE"), Goto(client, "OPTS"), Goto(client, "NOOP")}
        BY <2>1, <4>1
      <4> QED
        BY <3>2, <4>2 DEF Logins
    <3> QED
      BY <1>6, <3>1, <3>2 DEF Logins
  <2>3. next \in {"TYPE", "OPTS", "NOOP"} => "MLST" \in known'[conns']
    <3>1. CASE client.step = "FEAT"
      BY <1>1, <1>2, <1>3, <1>6, <2>1, <3>1 DEF IInv, TypeOK
    <3>2. CASE client.step \in {"TYPE", "OPTS"}
      BY <1>2, <1>3, <1>6, <3>2 DEF Smooth, MLSTKnown
    <3> QED
      BY <2>2, <3>1, <3>2
  <2>4. next \in PlainSteps /\ next \notin {"idle", "open"}
    BY DEF PlainSteps, Steps, Commands, Logins
  <2> QED
    BY <1>1, <1>4, <2>2, <2>3, <2>4, GotoIsSmooth
<1>7. CASE client.step = "NOOP"
  <2> DEFINE b == [client EXCEPT !.cur = Conn, !.dialing = FALSE]
  <2>1. client' = Resumed(client)
    <3>1. client' \in Succeeded(client)
      BY <1>1, <1>7
    <3> QED
      BY <1>7, <3>1, SucceededCases
  <2>2. b \in Clients
    BY <1>1 DEF Clients
  <2>3. b.cur = Conn /\ b.dialing = FALSE /\ b.errs = FALSE /\ b.op = client.op
    BY <1>1, <2>2 DEF Clients
  <2>4. known' = known /\ "MLST" \in known[Conn]
    BY <1>2, <1>3, <1>7, <1>1 DEF Smooth, MLSTKnown, Conn
  <2>5. /\ client.resume = "done" => client' = Returned(b, "ok")
        /\ client.resume \in DataCommands => client' = Goto(b, DataConnFrom(Conn))
        /\ client.resume \notin {"done"} \cup DataCommands => client' = Goto(b, client.resume)
    BY <2>1, ResumedCases
  <2>6. client.resume \in Resumes \ {"idle"}
    BY <1>1, <1>7 DEF IInv, Course, OnCourse, Logins, Clients, Resumes
  <2> HIDE DEF b
  <2>7. CASE client.resume = "done"
    <3>1. Onward(b, client')
      BY <2>2, <2>5, <2>7, EndsWell
    <3>2. MLSTKnown' /\ AllWell'
      BY <2>3, <2>4, <3>1 DEF MLSTKnown, AllWell, Onward
    <3> QED
      BY <3>1, <3>2, PlainIsSmooth DEF Onward, PlainSteps, Steps, Commands
  <2>8. CASE client.resume # "done"
    <3>1. PICK next \in {"mkDir", "rotate", "DELE", "PRET", "EPSV", "PASV"} : client' = Goto(b, next)
      BY <2>5, <2>6, <2>8 DEF Resumes, DataConnFrom, AddressCommand
    <3>2. next \in PlainSteps
      BY DEF PlainSteps, Steps, Commands
    <3> QED
      BY <1>1, <2>2, <2>3, <2>4, <3>1, <3>2, GotoIsSmooth
  <2> QED
    BY <2>7, <2>8
<1>8. CASE client.step \in {"PRET", "EPSV", "PASV"}
  <2>1. PICK next \in {"EPSV", "PASV", "connect"} : client' = Goto(client, next)
    <3>1. client' \in Succeeded(client)
      BY <1>1, <1>8
    <3>2. Succeeded(client) \in {{Goto(client, "EPSV")}, {Goto(client, "PASV")}, {Goto(client, "connect")}}
      BY <1>8, SucceededCases
    <3> QED
      BY <3>1, <3>2
  <2>2. next \in PlainSteps
    BY DEF PlainSteps, Steps, Commands
  <2> QED
    BY <1>1, <1>4, <2>1, <2>2, GotoIsSmooth
<1>9. CASE client.step \in DataCommands /\ code = "prelim"
  <2>1. client' = Goto(client, "transfer")
    <3>1. client' \in Succeeded(client)
      BY <1>1, <1>9 DEF DataCommands
    <3> QED
      BY <1>9, <3>1, SucceededCases
  <2>2. /\ client'.step = "transfer" /\ client'.op = client.op /\ client'.errs = client.errs
        /\ client'.cur = client.cur /\ client'.dialing = client.dialing
    BY <1>14, <2>1, Gone DEF Steps
  <2>3. Conn' = Conn
    BY <1>2, <2>2 DEF Conn
  <2>4. AllWell' /\ MLSTKnown'
    BY <1>1, <1>4, <2>2 DEF AllWell, MLSTKnown
  <2>5. LevelsFit'
    BY <2>2 DEF LevelsFit
  <2>6. GoodReplies'
    <3>1. \A i \in DOMAIN replies'[Conn] : i \in Nat /\ i >= 1 /\ i + 1 \in DOMAIN replies[Conn]
                                           /\ replies'[Conn][i] = replies[Conn][i + 1]
      <4>1. replies'[Conn] = Tail(replies[Conn])
        BY <1>1, <1>2 DEF IInv, TypeOK
      <4> QED
        BY <1>1, <4>1, Heard
    <3>2. \A i \in Nat : i >= 1 => Good(i + 1) = {"ok"}
      BY <1>9 DEF Good, DataCommands
    <3>3. \A i : Good(i)' = {"ok"}
      BY <2>2 DEF Good, DataCommands
    <3> QED
      BY <1>1, <2>3, <3>1, <3>2, <3>3 DEF Smooth, GoodReplies, Waits
  <2>7. TransferRuns'
    BY <1>1, <1>2, <1>9, <2>2, <2>3 DEF Smooth, TransferRuns, Begun
  <2> QED
    BY <2>4, <2>5, <2>6, <2>7 DEF Smooth
<1>10. CASE client.step = "LIST" /\ code = "absent"
  <2>1. client.op \in {"rotate", "list"}
    BY <1>1, <1>10, FtpAssumption DEF IInv, Course, OnCourse, WantedCommand, DataCommands, Clients, Logins
  <2>2. client' = ListFailed(client, "absent")
    BY <1>1, <1>10 DEF DataCommands
  <2>3. Onward(client, client')
    <3>1. CASE client.op = "rotate"
      BY <1>1, <1>3, <1>10, <2>2, <3>1, NextDirWell DEF ListFailed, Logins
    <3>2. CASE client.op = "list"
      BY <1>1, <2>2, <3>2, EndsWell DEF ListFailed
    <3> QED
      BY <2>1, <3>1, <3>2
  <2> QED
    BY <1>5, <1>10, <2>3, OnwardIsSmooth DEF Logins
<1>11. CASE client.step = "MLST" /\ code = "absent"
  <2>1. client' = Goto(client, "MKD")
    BY <1>1, <1>11 DEF DataCommands
  <2>2. /\ client'.step = "MKD" /\ client'.sent = FALSE /\ client'.op = client.op /\ client'.errs = client.errs
        /\ client'.cur = client.cur /\ client'.dialing = client.dialing /\ client'.level = client.level
    BY <1>14, <2>1, Gone DEF Steps, Commands
  <2>3. client.level = dirs + 1
    BY <1>1, <1>11, FtpAssumption DEF Smooth, LevelsFit, Clients, IInv, TypeOK
  <2>4. AllWell' /\ MLSTKnown'
    BY <1>1, <1>4, <2>2 DEF AllWell, MLSTKnown
  <2>5. LevelsFit' /\ GoodReplies' /\ TransferRuns'
    BY <1>2, <2>2, <2>3 DEF LevelsFit, GoodReplies, TransferRuns, Begun, Waits, DataCommands
  <2> QED
    BY <2>4, <2>5 DEF Smooth
<1>12. CASE client.step \in {"MLST", "MKD"} /\ code = "ok"
  <2>1. client' = NextLevel(client)
    <3>1. client' \in Succeeded(client)
      BY <1>1, <1>12
    <3> QED
      BY <1>12, <3>1, SucceededCases
  <2>2. client.level <= dirs /\ client.level \in 0 .. Depth
    <3>1. client.step = "MKD" => client.level = dirs
      BY <1>1 DEF Smooth, LevelsFit
    <3>2. client.step = "MLST" => client.level <= dirs
      BY <1>1, <1>12
    <3> QED
      BY <1>1, <1>12, <3>1, <3>2, FtpAssumption DEF Clients, IInv, TypeOK
  <2>3. CASE client.level = Depth
    <3>1. client' = Goto(client, "open")
      BY <2>1, <2>3 DEF NextLevel
    <3>2. "open" \in PlainSteps
      BY DEF PlainSteps, Steps
    <3> QED
      BY <1>1, <1>3, <1>4, <1>12, <3>1, <3>2, GotoIsSmooth DEF Logins
  <2>4. CASE client.level # Depth
    <3> DEFINE c == [client EXCEPT !.level = @ + 1]
    <3>1. client.level + 1 \in 0 .. Depth
      BY <2>2, <2>4, FtpAssumption
    <3>2. c \in Clients
      BY <1>1, <3>1 DEF Clients
    <3>3. /\ c.op = client.op /\ c.errs = client.errs /\ c.cur = client.cur /\ c.dialing = client.dialing
          /\ c.level = client.level + 1
      BY <1>1, <3>2 DEF Clients
    <3>4. client' = Goto(c, "GetEntry")
      BY <2>1, <2>4 DEF NextLevel
    <3> HIDE DEF c
    <3>5. /\ client'.step = "GetEntry" /\ client'.sent = FALSE /\ client'.op = c.op /\ client'.errs = c.errs
          /\ client'.cur = c.cur /\ client'.dialing = c.dialing /\ client'.level = c.level
      BY <3>2, <3>4, Gone DEF Steps
    <3>6. client'.level <= dirs' + 1
      BY <1>2, <2>2, <3>3, <3>5, FtpAssumption DEF IInv, TypeOK
    <3>7. client'.dialing = FALSE
      BY <1>3, <1>12, <3>3, <3>5 DEF Logins
    <3>8. AllWell' /\ MLSTKnown'
      BY <1>1, <1>4, <3>3, <3>5 DEF AllWell, MLSTKnown
    <3>9. LevelsFit' /\ GoodReplies' /\ TransferRuns'
      BY <3>5, <3>6 DEF LevelsFit, GoodReplies, TransferRuns, Begun, Waits, DataCommands
    <3> QED
      BY <3>8, <3>9 DEF Smooth
  <2> QED
    BY <2>3, <2>4
<1>13. CASE client.step \in {"shut", "DELE"}
  <2>1. client' \in Succeeded(client)
    BY <1>1, <1>13
  <2>2. client.cur # 0 /\ client.dialing = FALSE /\ client.op \in {"deliver", "rotate", "list"}
    BY <1>1, <1>3, <1>13, FtpAssumption DEF Logins, IInv, Course, OnCourse, Clients
  <2>3. Onward(client, client')
    <3>1. CASE client.step = "shut" /\ client.op = "deliver"
      <4>1. client' = Returned(client, "ok")
        BY <2>1, <3>1, SucceededCases
      <4> QED
        BY <1>1, <4>1, EndsWell
    <3>2. CASE client.step = "shut" /\ client.op = "list"
      <4>1. client' = NextDir(client)
        BY <2>1, <3>2, SucceededCases
      <4> QED
        BY <1>1, <2>2, <4>1, NextDirWell
    <3>3. CASE client.step = "shut" /\ client.op = "rotate"
      <4>1. PICK n \in 0 .. MaxOld : client' = NextOld([client EXCEPT !.old = n])
        <5>1. Succeeded(client) = {NextOld([client EXCEPT !.old = n]) : n \in 0 .. MaxOld}
          BY <3>3, SucceededCases
        <5> QED
          BY <2>1, <5>1
      <4> QED
        BY <1>1, <2>2, <4>1, OldWell
    <3>4. CASE client.step = "DELE"
      <4>1. client' = NextOld([client EXCEPT !.old = @ - 1])
        BY <2>1, <3>4, SucceededCases
      <4>2. PICK n : n = client.old - 1
        OBVIOUS
      <4>3. n \in 0 .. MaxOld
        BY <1>1, <3>4, <4>2, FtpAssumption DEF IInv, Course, OnCourse, Clients
      <4> QED
        BY <1>1, <2>2, <4>1, <4>2, <4>3, OldWell
    <3> QED
      BY <1>13, <2>2, <3>1, <3>2, <3>3, <3>4
  <2> QED
    BY <1>5, <1>13, <2>3, OnwardIsSmooth DEF Logins
<1> QED
  BY <1>1, <1>6, <1>7, <1>8, <1>9, <1>10, <1>11, <1>12, <1>13 DEF Logins, Commands, DataCommands
\* The server leaves the connection in use alone.
LEMMA ElsewhereSmooth ==
    ASSUME Smooth, IInv, NEW c \in Conns, c # Conn, UNCHANGED <<client, known, conns, copied, dirs>>,
           NEW x, replies' = [replies EXCEPT ![c] = x],
           NEW y, sending' = [sending EXCEPT ![c] = y], data' = data
    PROVE  Smooth'
<1>1. Conn' = Conn
  BY DEF Conn
<1>2. AllWell' /\ MLSTKnown'
  BY DEF Smooth, AllWell, MLSTKnown
<1>3. CASE Conn \in Conns
  <2>1. replies'[Conn] = replies[Conn] /\ sending'[Conn] = sending[Conn]
    BY <1>3 DEF IInv, TypeOK
  <2>2. \A i : Good(i)' = Good(i)
    BY DEF Good
  <2>3. LevelsFit'
    BY <1>1, <2>1 DEF Smooth, LevelsFit
  <2>4. GoodReplies'
    BY <1>1, <2>1, <2>2 DEF Smooth, GoodReplies, Waits
  <2>5. TransferRuns'
    BY <1>1, <2>1 DEF Smooth, TransferRuns, Begun
  <2> QED
    BY <1>2, <2>3, <2>4, <2>5 DEF Smooth
<1>4. CASE Conn \notin Conns
  <2>1. client.step \in {"idle", "dial"}
    BY <1>4, InUse DEF IInv
  <2>2. ~Waits(client)
    BY <2>1 DEF IInv, Course, OnCourse, Waits, Commands, DataCommands
  <2>3. LevelsFit' /\ GoodReplies' /\ TransferRuns'
    BY <2>1, <2>2 DEF LevelsFit, GoodReplies, TransferRuns, Begun, Waits, DataCommands
  <2> QED
    BY <1>2, <2>3 DEF Smooth
<1> QED
  BY <1>3, <1>4

LEMMA ServerAnswersSmooth ==
    ASSUME Smooth, IInv, faults' = 0, NEW c \in Conns, ServerAnswers(c)
    PROVE  Smooth'
<1>1. /\ UNCHANGED <<client, known, conns, copied, data>>
      /\ line[c] = "open" /\ requests[c] # <<>> /\ ~sending[c]
  BY DEF ServerAnswers, library
<1>2. PICK cmd : cmd = Head(requests[c])
  OBVIOUS
<1>3. PICK code \in Answers(cmd) \cup Refusals(cmd) :
        /\ Reply(c, cmd, code)
        /\ IF code \in Answers(cmd) \/ code = "absent" THEN NoFault ELSE Fault
        /\ sending' = [sending EXCEPT ![c] = code = "prelim"]
        /\ dirs' = IF cmd = "MKD" /\ code = "ok" THEN client.level ELSE dirs
  BY <1>2 DEF ServerAnswers
<1>4. /\ cmd \in Commands
      /\ c = Conn => client.sent /\ client.step # "shut" /\ Asked(c, client.step) /\ cmd = client.step
      /\ c # Conn => cmd \in Logins
  BY <1>1, <1>2, OneRequest DEF IInv
<1>5. code \in Answers(cmd) \/ code = "absent"
  BY <1>3 DEF Fault, IInv, TypeOK
<1>6. PICK x : x = [to |-> cmd, code |-> code]
  OBVIOUS
<1>7. CASE c # Conn
  <2>1. dirs' = dirs
    BY <1>3, <1>4, <1>7 DEF Logins
  <2>2. replies' = [replies EXCEPT ![c] = Append(replies[c], x)]
    BY <1>3, <1>6 DEF Reply
  <2> QED
    BY <1>1, <1>3, <1>7, <2>1, <2>2, ElsewhereSmooth
<1>8. CASE c = Conn
  <2>1. /\ client.sent /\ client.step # "shut" /\ cmd = client.step /\ replies[c] = <<>>
        /\ client.step \in Commands
    BY <1>4, <1>8 DEF Asked
  <2>2. replies'[c] = <<x>> /\ Conn' = Conn
    <3>1. replies'[c] = Append(<<>>, x)
      BY <1>3, <1>6, <2>1 DEF Reply, IInv, TypeOK
    <3> QED
      BY <1>1, <3>1 DEF Conn
  <2>3. DOMAIN <<x>> = {1} /\ <<x>>[1] = x /\ <<x>> # <<>> /\ x.code = code
    BY <1>6
  <2>4. code = "ok" => cmd \notin DataCommands
    BY <1>3, <1>4, CodesOf
  <2>5. client.step = "MKD" => client.level = dirs + 1 /\ code = "ok" /\ dirs' = client.level
    <3>1. client.step = "MKD" => client.level = dirs + 1
      BY <1>8, <2>1 DEF Smooth, LevelsFit
    <3>2. client.step = "MKD" => code = "ok"
      BY <1>5, <2>1, <3>1 DEF Answers, Refusals, DataCommands
    <3> QED
      BY <1>3, <2>1, <3>1, <3>2
  <2>6. client.step # "MKD" => dirs' = dirs
    BY <1>3, <2>1
  <2>7. AllWell' /\ MLSTKnown'
    BY <1>1 DEF Smooth, AllWell, MLSTKnown
  <2>8. LevelsFit'
    BY <1>1, <1>8, <2>1, <2>2, <2>3, <2>5, <2>6 DEF Smooth, LevelsFit
  <2>9. code \in Good(1)'
    <3>1. CASE client.step = "MKD"
      BY <1>1, <2>5, <3>1 DEF Good, DataCommands
    <3>2. CASE client.step = "MLST"
      BY <1>1, <1>3, <1>5, <2>1, <2>6, <3>2 DEF Good, Answers, Refusals, DataCommands
    <3>3. CASE client.step \in DataCommands
      BY <1>1, <1>3, <1>5, <2>1, <3>3 DEF Good, Answers, Refusals, DataCommands
    <3>4. CASE client.step \notin DataCommands \cup {"MKD", "MLST"}
      BY <1>1, <1>3, <1>5, <2>1, <3>4 DEF Good, Answers, Refusals, DataCommands
    <3> QED
      BY <3>1, <3>2, <3>3, <3>4
  <2>10. GoodReplies'
    BY <1>8, <2>2, <2>3, <2>9 DEF GoodReplies
  <2>11. TransferRuns'
    <3>1. client.step # "transfer"
      BY <2>1 DEF Commands, DataCommands
    <3>2. code = "prelim" => sending'[c]
      BY <1>3 DEF IInv, TypeOK
    <3> QED
      BY <1>1, <1>8, <2>1, <2>2, <2>3, <3>1, <3>2 DEF TransferRuns, Begun
  <2> QED
    BY <2>7, <2>8, <2>10, <2>11 DEF Smooth
<1> QED
  BY <1>7, <1>8

LEMMA ServerEndsTransferSmooth ==
    ASSUME Smooth, IInv, faults' = 0, NEW c \in Conns, ServerEndsTransfer(c)
    PROVE  Smooth'
<1>1. /\ UNCHANGED <<client, known, conns, copied, dirs>>
      /\ line[c] = "open" /\ sending[c]
      /\ sending' = [sending EXCEPT ![c] = FALSE]
  BY DEF ServerEndsTransfer, library
<1>2. PICK cmd, s : cmd = Head(requests[c]) /\ s = replies[c]
  OBVIOUS
<1>3. /\ cmd = "STOR" => ~handle
      /\ data' = IF cmd = "STOR" THEN data ELSE "whole"
      /\ Reply(c, cmd, "ok")
  BY <1>2 DEF ServerEndsTransfer, Fault, IInv, TypeOK
<1>4. requests[c] # <<>>
  <2>1. c = Conn /\ Exchange(client, c)
    BY <1>1 DEF IInv, Exchanges, Exchanged, IsIdle
  <2>2. \A d : <<d>> # <<>>
    OBVIOUS
  <2> QED
    BY <1>1, <2>1, <2>2 DEF Exchange, Goes, Answered, Asked, Transfers, Transferred, IsQuiet, Waits
<1>5. /\ c = Conn /\ cmd \in DataCommands
      /\ \/ Goes(c, cmd) /\ client.step \in {"transfer", "shut"} /\ cmd = WantedCommand(client)
         \/ Transfers(c, cmd) /\ client.step = cmd /\ client.sent
  BY <1>1, <1>2, <1>4, OneRequest DEF IInv
<1>6. client.step \in DataCommands => client.step = WantedCommand(client)
  BY DEF IInv, Course, OnCourse
<1>7. cmd = WantedCommand(client)
  BY <1>5, <1>6
<1>8. PICK x : x = [to |-> cmd, code |-> "ok"]
  OBVIOUS
<1>9. /\ x \in [to : Commands \cup {"none"}, code : Codes] /\ x.code = "ok"
      /\ s \in Seq([to : Commands \cup {"none"}, code : Codes])
  BY <1>2, <1>5, <1>8 DEF IInv, TypeOK, Codes, Commands
<1>10. /\ DOMAIN s = 1 .. Len(s) /\ Len(s) \in Nat
       /\ DOMAIN Append(s, x) = 1 .. Len(s) + 1 /\ Append(s, x) # <<>>
       /\ \A i \in 1 .. Len(s) : Append(s, x)[i] = s[i]
       /\ Append(s, x)[Len(s) + 1] = x
  BY <1>9, Said
<1>11. replies'[c] = Append(s, x) /\ Conn' = Conn
  BY <1>1, <1>2, <1>3, <1>8 DEF Reply, IInv, TypeOK, Conn
<1>12. AllWell' /\ MLSTKnown'
  BY <1>1 DEF Smooth, AllWell, MLSTKnown
<1>13. LevelsFit'
  BY <1>1, <1>5 DEF LevelsFit, DataCommands
<1>14. \A i : Good(i)' = Good(i)
  BY <1>1 DEF Good
<1>15. "ok" \in Good(Len(s) + 1)
  <2>1. CASE client.step \in {"transfer", "shut"}
    BY <2>1 DEF Good, DataCommands
  <2>2. CASE Transfers(c, cmd) /\ client.step = cmd
    <3>1. Len(s) = 1
      BY <1>2, <2>2 DEF Transfers
    <3> QED
      BY <1>5, <2>2, <3>1 DEF Good, DataCommands
  <2> QED
    BY <1>5, <2>1, <2>2
<1>16. GoodReplies'
  <2>1. Waits(client)
    BY <1>5 DEF Waits
  <2>2. \A i \in DOMAIN s : s[i].code \in Good(i)
    BY <1>2, <1>5, <2>1 DEF Smooth, GoodReplies
  <2>3. \A i \in DOMAIN Append(s, x) : Append(s, x)[i].code \in Good(i)
    BY <1>9, <1>10, <1>15, <2>2
  <2> QED
    BY <1>5, <1>11, <1>14, <2>3 DEF GoodReplies
<1>17. TransferRuns'
  <2>1. client.step = "shut" => copied'
    BY <1>1 DEF Smooth, TransferRuns
  <2>2. cmd = "STOR" => client.step = "shut"
    BY <1>3, <1>5 DEF IInv, Course
  <2>3. cmd # "STOR" => client.op # "deliver" /\ data' = "whole"
    BY <1>3, <1>7 DEF WantedCommand
  <2>4. client.step = "shut" => ~Begun'
    BY <1>1 DEF Begun, DataCommands
  <2> QED
    BY <1>1, <2>1, <2>2, <2>3, <2>4 DEF TransferRuns
<1> QED
  BY <1>12, <1>13, <1>16, <1>17 DEF Smooth

LEMMA SmoothStep ==
    ASSUME Smooth, IInv, faults = 0, faults' = 0, "MLST" \in features, [Next]_vars
    PROVE  Smooth'
<1>1. ~Fault /\ (NoFault <=> TRUE)
  BY DEF Fault, NoFault
<1>2. CASE ClientStep
  <2>1. CASE MkDir \/ DeleteOldBackups \/ GetEntry \/ OpenArchive \/ Dial
    BY <1>1, <2>1, MkDirSmooth, DeleteOldBackupsSmooth, GetEntrySmooth, OpenArchiveSmooth, DialSmooth
  <2>2. CASE SendCommand \/ ReadReply \/ OpenDataConn \/ Upload \/ Download
    BY <1>1, <2>2, SendCommandSmooth, ReadReplySmooth, OpenDataConnSmooth, CopySmooth
  <2>3. ~ReadFails
    <3>1. ASSUME ReadFails
          PROVE  FALSE
      <4>1. client.sent /\ line[Conn] = "closed"
        BY <3>1 DEF ReadFails
      <4>2. Conn \in Conns /\ Conn # 0
        BY <4>1, InUse DEF IInv, Course, OnCourse, Commands, DataCommands, Conns
      <4> QED
        BY <4>1, <4>2, NoDamage
    <3> QED
      BY <3>1
  <2> QED
    BY <1>2, <2>1, <2>2, <2>3 DEF ClientStep
<1>3. CASE Connect \/ \E o \in Operations : BeginCall(o)
  BY <1>3, ConnectSmooth, BeginCallSmooth
<1>4. CASE ServerStep
  BY <1>4, ServerAnswersSmooth, ServerEndsTransferSmooth DEF ServerStep
<1>5. ASSUME NEW c \in Conns
      PROVE  ~ServerTimesOut(c) /\ ~ConnectionBreaks(c)
  BY <1>1 DEF ServerTimesOut, ConnectionBreaks
<1>6. CASE UNCHANGED vars
  <2>1. UNCHANGED <<client, known, conns, copied, dirs, replies, sending, data>>
    BY <1>6 DEF vars, library, server
  <2>2. Conn' = Conn
    BY <2>1 DEF Conn
  <2>3. \A i : Good(i)' = Good(i)
    BY <2>1 DEF Good
  <2>4. GoodReplies'
    BY <2>1, <2>2, <2>3 DEF Smooth, GoodReplies, Waits
  <2>5. LevelsFit' /\ TransferRuns'
    BY <2>1, <2>2 DEF Smooth, LevelsFit, TransferRuns, Begun
  <2>6. AllWell' /\ MLSTKnown'
    BY <2>1 DEF Smooth, AllWell, MLSTKnown
  <2> QED
    BY <2>4, <2>5, <2>6 DEF Smooth
<1> QED
  BY <1>2, <1>3, <1>4, <1>5, <1>6 DEF Next

\* A failure is never forgotten, and the server's features stay.
LEMMA Remembered ==
    ASSUME TypeOK, [Next]_vars
    PROVE  features' = features /\ (faults' = 0 => faults = 0)
<1>1. faults \in Nat
  BY FtpAssumption DEF TypeOK
<1>2. ASSUME Fault \/ NoFault
      PROVE  faults' = 0 => faults = 0
  BY <1>1, <1>2 DEF Fault, NoFault
<1>3. CASE ClientStep
  <2>1. Fault \/ NoFault
    BY <1>3 DEF ClientStep, MkDir, DeleteOldBackups, GetEntry, OpenArchive, Dial, SendCommand, ReadReply,
                ReadFails, OpenDataConn, Upload, Download, NoFault
  <2>2. features' = features
    BY <1>3 DEF ClientStep, MkDir, DeleteOldBackups, GetEntry, OpenArchive, Dial, SendCommand, ReadReply,
                ReadFails, OpenDataConn, Upload, Download, server
  <2> QED
    BY <1>2, <2>1, <2>2
<1>4. CASE Connect \/ \E o \in Operations : BeginCall(o)
  BY <1>1, <1>4 DEF Connect, BeginCall, server
<1>5. ASSUME NEW c \in Conns,
             ServerAnswers(c) \/ ServerEndsTransfer(c) \/ ServerTimesOut(c) \/ ConnectionBreaks(c)
      PROVE  features' = features /\ (faults' = 0 => faults = 0)
  <2>1. features' = features
    BY <1>5 DEF ServerAnswers, ServerEndsTransfer, ServerTimesOut, ConnectionBreaks
  <2>2. Fault \/ NoFault
    BY <1>5 DEF ServerAnswers, ServerEndsTransfer, ServerTimesOut, ConnectionBreaks
  <2> QED
    BY <1>2, <2>1, <2>2
<1>6. CASE UNCHANGED vars
  BY <1>6 DEF vars, server
<1> QED
  BY <1>3, <1>4, <1>5, <1>6 DEF Next, ServerStep

\* storage/ftp/ftp.go: with a server that announces MLST a delivery or a
\* rotation fails only after a failure of the server, the network or the disk.
\* Unharmed is what makes it inductive.
THEOREM ErrorsHaveCauses == Spec => []ErrorHasCause
<1>1. Init => Unharmed
  <2> SUFFICES ASSUME Init
               PROVE  Smooth
    BY DEF Unharmed
  <2>1. /\ client.step = "idle" /\ client.sent = FALSE /\ client.cur = 0 /\ client.dialing = FALSE
        /\ client.errs = FALSE /\ client.result = "none"
    BY DEF Init
  <2>2. AllWell /\ MLSTKnown
    BY <2>1 DEF AllWell, MLSTKnown
  <2>3. LevelsFit /\ GoodReplies /\ TransferRuns
    BY <2>1 DEF LevelsFit, GoodReplies, TransferRuns, Begun, Waits, DataCommands
  <2> QED
    BY <2>2, <2>3 DEF Smooth
<1>2. IInv /\ Unharmed /\ [Next]_vars => Unharmed'
  <2> SUFFICES ASSUME IInv, Unharmed, [Next]_vars, faults' = 0, "MLST" \in features'
               PROVE  Smooth'
    BY DEF Unharmed
  <2>1. faults = 0 /\ "MLST" \in features
    BY Remembered DEF IInv
  <2> QED
    BY <2>1, SmoothStep DEF Unharmed
<1>3. Unharmed => ErrorHasCause
  BY DEF Unharmed, Smooth, AllWell, ErrorHasCause
<1> QED
  BY <1>1, <1>2, <1>3, IInvHolds, PTL DEF Spec
=============================================================================
