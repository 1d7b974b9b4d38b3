---------------------------- MODULE FtpConnection ----------------------------
(***************************************************************************)
(* The ftp storage and its client library against a server: the control    *)
(* connection with its commands and replies, the data connection of an     *)
(* upload or a listing, and the calls of the storage made of them.         *)
(* Connections break; the server closes idle ones, refuses commands and    *)
(* breaks transfers off.                                                   *)
(*                                                                         *)
(* Control connections are numbered in the order they were opened.  A      *)
(* reply is prelim (1xx), ok (2xx, 3xx), file (to MLST: what is there is   *)
(* no folder), absent (550), no (other 4xx, 5xx, or to MLST a 2xx that     *)
(* GetEntry cannot read) or bye (421, when the server closes the           *)
(* connection), and names the command it answers.  LIST stands for MLSD    *)
(* too.                                                                    *)
(***************************************************************************)
EXTENDS Integers, Sequences

CONSTANTS Operations, \* calls of the storage: "deliver", "rotate", "list"
          FeatureSets, \* features a server may announce
          Depth,      \* directories on the way to a copy, or to be listed
          MaxOld,     \* bound: outdated copies in one directory
          MaxCalls,   \* bound: calls of the storage
          MaxFaults   \* bound: failures of the server, the network, the disk

Features == {"MLST", "PRET", "UTF8"}

ASSUME FtpAssumption ==
    /\ Operations \subseteq {"deliver", "rotate", "list"}
    /\ FeatureSets \subseteq SUBSET Features
    /\ Depth \in Nat \ {0} /\ MaxOld \in Nat /\ MaxCalls \in Nat /\ MaxFaults \in Nat

Conns == 1 .. MaxFaults + 1 \* only a fault makes updateConn dial again
DataCommands == {"STOR", "LIST"}
Commands == {"CONNECT", "USER", "PASS", "FEAT", "TYPE", "OPTS", "NOOP", "PRET", "EPSV",
             "PASV", "MLST", "MKD", "DELE"} \cup DataCommands
Codes == {"prelim", "ok", "file", "absent", "no", "bye"}

VARIABLES
    client,   \* where the client is, see Clients
    known,    \* per connection, the features the server has told
    skipEPSV, \* per connection
    handle,   \* the client's end of the data connection is open
    copied,   \* the copy over it met no error
    conns,    \* connections opened so far
    calls,
    line,     \* per connection: "open" or "closed"
    requests, \* per connection: the commands the server has to answer
    sending,  \* per connection: it has answered "prelim" and transfers
    replies,  \* per connection: replies not yet read
    data,     \* what the data connection has carried: "none", "part", "whole"
    features, dirs, file, \* of the server; file is "none", "cut" or "whole"
    faults

library == <<known, skipEPSV, handle, copied, conns, calls>>
server == <<line, requests, sending, replies, data, features, dirs, file>>
vars == <<client, library, server, faults>>

\* op: the storage's call; step: the command it sends or waits for, or what
\* it does next; sent: the command of step is sent; resume: where it goes on
\* after updateConn; level: directories still to be made or listed; old:
\* outdated files of the directory; errs: the call has collected an error;
\* last, result: the last call and what it returned; cur: f.conn; dialing: a newer connection is tried.
Clients ==
    [op : Operations \cup {"idle", "init"},
     step : Commands \cup {"idle", "dial", "mkDir", "rotate", "GetEntry", "open", "connect", "transfer", "shut", "done"},
     sent : BOOLEAN,
     resume : {"idle", "mkDir", "rotate", "DELE", "done"} \cup DataCommands,
     level : 0 .. Depth, old : 0 .. MaxOld,
     errs : BOOLEAN, last : Operations \cup {"idle", "init"},
     result : {"none", "ok", "error", "panic"},
     cur : Conns \cup {0}, dialing : BOOLEAN]

Init ==
    /\ client = [op |-> "idle", step |-> "idle", sent |-> FALSE, resume |-> "idle", level |-> 0,
                 old |-> 0, errs |-> FALSE, last |-> "idle", result |-> "none", cur |-> 0, dialing |-> FALSE]
    /\ known = [c \in Conns |-> {}] /\ skipEPSV = [c \in Conns |-> FALSE]
    /\ handle = FALSE /\ copied = TRUE /\ conns = 0 /\ calls = 0
    /\ line = [c \in Conns |-> "closed"] /\ requests = [c \in Conns |-> <<>>]
    /\ sending = [c \in Conns |-> FALSE] /\ replies = [c \in Conns |-> <<>>]
    /\ data = "none"
    /\ features \in FeatureSets /\ dirs \in {0, Depth} /\ file = "none"
    /\ faults = 0

Fault == faults < MaxFaults /\ faults' = faults + 1
NoFault == UNCHANGED faults

\* The connection commands go to: the one being dialled, or f.conn.
Conn == IF client.dialing THEN conns ELSE client.cur

-----------------------------------------------------------------------------
(***************************************************************************)
(* Where the client goes next.                                             *)
(***************************************************************************)
Goto(a, next) == [a EXCEPT !.step = next, !.sent = FALSE]

Returned(a, result) ==
    [Goto(a, "idle") EXCEPT !.op = "idle", !.resume = "idle", !.level = 0, !.old = 0,
                            !.errs = FALSE, !.last = a.op, !.result = result, !.dialing = FALSE]

\* updateConn: the connection is asked with NOOP, or the first one opened.
UpdateConn(a, next) == Goto([a EXCEPT !.resume = next], IF a.cur = 0 THEN "dial" ELSE "NOOP")

\* Broken: the loop over the directories does not move on.
NextDirAgain(a) ==
    IF a.level > 1 THEN UpdateConn(a, "LIST") ELSE Returned(a, IF a.errs THEN "error" ELSE "ok")

\* deleteDiscBackup and listPaths go on with the next directory, or end.
NextDir(a) ==
    IF a.level > 1 THEN UpdateConn([a EXCEPT !.level = @ - 1], "LIST")
                   ELSE Returned(a, IF a.errs THEN "error" ELSE "ok")

NextOld(a) == IF a.old > 0 THEN UpdateConn(a, "DELE") ELSE NextDir(a)

\* Broken: one directory too many.
NextLevelLate(a) ==
    IF a.level > Depth THEN Goto(a, "open") ELSE Goto([a EXCEPT !.level = @ + 1], "GetEntry")

\* mkDir has made, or found, a directory: back to the one below it.
NextLevel(a) ==
    IF a.level = Depth THEN Goto(a, "open") ELSE Goto([a EXCEPT !.level = @ + 1], "GetEntry")

\* getDataConnPort, after PRET where the server wants it.
AddressCommand == IF skipEPSV[Conn] THEN "PASV" ELSE "EPSV"
DataConnFrom(c) == IF "PRET" \in known[c] THEN "PRET" ELSE AddressCommand

\* updateConn has a connection that answers: the call goes on with resume.
Resumed(a) ==
    LET b == [a EXCEPT !.cur = Conn, !.dialing = FALSE]
    IN CASE a.resume = "done" -> Returned(b, "ok")
         [] a.resume \in DataCommands -> Goto(b, DataConnFrom(Conn))
         [] OTHER -> Goto(b, a.resume)

WantedCommand(a) == IF a.op = "deliver" THEN "STOR" ELSE "LIST"

\* The reply was the expected one.  The rotation finds old files in a listing.
Succeeded(a) ==
    CASE a.step = "CONNECT" -> {Goto(a, "USER")}
      [] a.step = "USER" -> {Goto(a, "PASS"), Goto(a, "FEAT")}
      [] a.step = "PASS" -> {Goto(a, "FEAT")}
      [] a.step = "FEAT" -> {Goto(a, "TYPE")}
      [] a.step = "TYPE" -> {Goto(a, IF "UTF8" \in known[Conn] THEN "OPTS" ELSE "NOOP")}
      [] a.step = "OPTS" -> {Goto(a, "NOOP")}
      [] a.step = "NOOP" -> {Resumed(a)}
      [] a.step = "PRET" -> {Goto(a, AddressCommand)}
      [] a.step \in {"EPSV", "PASV"} -> {Goto(a, "connect")}
      [] a.step = "connect" -> {Goto(a, WantedCommand(a))}
      [] a.step \in DataCommands -> {Goto(a, "transfer")}
      [] a.step \in {"MLST", "MKD"} -> {NextLevel(a)}
      [] a.step = "shut" /\ a.op = "deliver" -> {Returned(a, "ok")}
      [] a.step = "shut" /\ a.op = "list" -> {NextDir(a)}
      [] a.step = "shut" /\ a.op = "rotate" -> {NextOld([a EXCEPT !.old = n]) : n \in 0 .. MaxOld}
      [] a.step = "DELE" -> {NextOld([a EXCEPT !.old = @ - 1])}

\* List failed.  A 550 is an absent directory, for the rotation no error; an
\* error that did not come from the protocol has no code: protoErr is nil.
ListFailed(a, why) ==
    CASE why = "network" -> Returned(a, "panic")
      [] why = "absent" /\ a.op = "rotate" -> NextDir(a)
      [] OTHER -> Returned(a, "error")

InListing(a) == a.op # "deliver" /\ a.step \in {"PRET", "EPSV", "PASV", "connect", "LIST", "shut"}

\* It was not, or none came (why is "network").  mkDir makes the directory
\* whenever GetEntry has failed, but not in place of something else.
Failed(a, why) ==
    CASE a.step = "NOOP" /\ ~a.dialing -> Goto(a, "dial")
      [] a.step = "EPSV" -> Goto(a, "PASV")
      [] a.step = "MLST" /\ why # "file" -> Goto(a, "MKD")
      [] a.step = "DELE" -> NextOld([a EXCEPT !.old = @ - 1, !.errs = TRUE])
      [] InListing(a) /\ a.step # "EPSV" -> ListFailed(a, why)
      [] OTHER -> Returned(a, "error")

-----------------------------------------------------------------------------
(***************************************************************************)
(* Calls of the storage.                                                   *)
(***************************************************************************)
\* Init connects; a storage that could not is not used.
Connect ==
    /\ client.op = "idle" /\ client.result = "none"
    /\ client' = UpdateConn([client EXCEPT !.op = "init"], "done")
    /\ UNCHANGED <<library, server, faults>>

\* The archive of a delivery is a new one: the server has no file of its name.
BeginCall(o) ==
    /\ client.op = "idle" /\ client.cur # 0 /\ client.result # "panic"
    /\ calls < MaxCalls
    /\ calls' = calls + 1
    /\ client' = UpdateConn([client EXCEPT !.op = o, !.level = Depth],
                            CASE o = "deliver" -> "mkDir" [] o = "rotate" -> "rotate" [] o = "list" -> "LIST")
    /\ file' = IF o = "deliver" THEN "none" ELSE file
    /\ UNCHANGED <<known, skipEPSV, handle, copied, conns, line, requests, sending, replies, data,
                   features, dirs, faults>>

\* mkDir calls itself down to the backup path, with updateConn each time.
MkDir ==
    /\ client.step = "mkDir"
    /\ client' = IF client.level > 1 THEN UpdateConn([client EXCEPT !.level = @ - 1], "mkDir")
                                     ELSE Goto(client, "GetEntry")
    /\ UNCHANGED <<library, server, faults>>

\* Broken: the directory is made without a look whether it is there.
GetEntryNever ==
    /\ client.step = "GetEntry"
    /\ client' = Goto(client, "MKD")
    /\ UNCHANGED <<library, server, faults>>

\* DeleteOldBackups and, for every period, deleteDiscBackup call updateConn.
DeleteOldBackups ==
    /\ client.step = "rotate"
    /\ client' = UpdateConn(client, "LIST")
    /\ UNCHANGED <<library, server, faults>>

\* Then, from the backup path on: a directory that is there is left alone;
\* GetEntry fails at once when the server has not announced MLST.
GetEntry ==
    /\ client.step = "GetEntry"
    /\ client' = Goto(client, IF "MLST" \in known[Conn] THEN "MLST" ELSE "MKD")
    /\ UNCHANGED <<library, server, faults>>

OpenArchive ==
    /\ client.step = "open"
    /\ \/ client' = UpdateConn(client, "STOR") /\ NoFault
       \/ client' = Returned(client, "error") /\ Fault
    /\ UNCHANGED <<library, server>>

\* Dial; the server greets.
Dial ==
    /\ client.step = "dial"
    /\ \/ /\ conns' = conns + 1
          /\ line' = [line EXCEPT ![conns'] = "open"]
          /\ requests' = [requests EXCEPT ![conns'] = <<"CONNECT">>]
          /\ client' = [Goto(client, "CONNECT") EXCEPT !.sent = TRUE, !.dialing = TRUE]
          /\ NoFault
       \/ /\ client' = Returned(client, "error")
          /\ Fault
          /\ UNCHANGED <<conns, line, requests>>
    /\ UNCHANGED <<known, skipEPSV, handle, copied, calls, sending, replies, data, features, dirs, file>>

-----------------------------------------------------------------------------
(***************************************************************************)
(* Commands and replies.                                                   *)
(***************************************************************************)
\* A write to a closed connection fails, or seems to succeed.
SendCommand ==
    /\ client.step \in Commands /\ ~client.sent
    /\ \/ /\ client' = [client EXCEPT !.sent = TRUE]
          /\ requests' = IF line[Conn] = "open"
                         THEN [requests EXCEPT ![Conn] = Append(@, client.step)] ELSE requests
          /\ UNCHANGED <<skipEPSV, handle>>
       \/ /\ line[Conn] = "closed"
          /\ client' = Failed(client, "network")
          /\ skipEPSV' = [skipEPSV EXCEPT ![Conn] = @ \/ client.step = "EPSV"]
          /\ handle' = FALSE
          /\ UNCHANGED requests
    /\ UNCHANGED <<known, copied, conns, calls, line, sending, replies, data, features, dirs, file, faults>>

\* ReadResponse(expected); FEAT, PRET and, for some codes, OPTS take any.
IsExpected(code) ==
    CASE client.step \in {"FEAT", "PRET"} -> TRUE
      [] client.step \in DataCommands -> code = "prelim"
      [] OTHER -> code = "ok"

Tolerated(code) == client.step = "OPTS" /\ code = "no"

\* Broken: what the copy has met is forgotten.
CompletedAnyway == TRUE

\* checkDataShut also reports what the copy has met.
Completed == client.step # "shut" \/ copied

\* Broken: the data connection stays open when the command is refused.
StaysOpenAlways(code) == handle

\* cmdDataConnFrom closes the data connection when its command is refused.
StaysOpen(code) == handle /\ code = "prelim"

ReadReply ==
    /\ client.sent
    /\ replies[Conn] # <<>>
    /\ LET code == Head(replies[Conn]).code
       IN /\ \/ (IsExpected(code) \/ Tolerated(code)) /\ Completed /\ client' \in Succeeded(client)
             \/ ~(IsExpected(code) /\ Completed)
                /\ client' = Failed(client, IF IsExpected(code) THEN "network" ELSE code)
          /\ known' = IF client.step = "FEAT" /\ code = "ok"
                      THEN [known EXCEPT ![Conn] = features] ELSE known
          /\ skipEPSV' = [skipEPSV EXCEPT ![Conn] = @ \/ (client.step = "EPSV" /\ code # "ok")]
          /\ handle' = StaysOpen(code)
    /\ replies' = [replies EXCEPT ![Conn] = Tail(@)]
    /\ UNCHANGED <<copied, conns, calls, line, requests, sending, data, features, dirs, file, faults>>

\* The connection is closed and nothing more comes.
ReadFails ==
    /\ client.sent
    /\ replies[Conn] = <<>> /\ line[Conn] = "closed"
    /\ client' = Failed(client, "network")
    /\ skipEPSV' = [skipEPSV EXCEPT ![Conn] = @ \/ client.step = "EPSV"]
    /\ handle' = FALSE
    /\ UNCHANGED <<known, copied, conns, calls, server, faults>>

\* openDataConn dials the address the server has given.
OpenDataConn ==
    /\ client.step = "connect"
    /\ \/ client' \in Succeeded(client) /\ handle' = TRUE /\ data' = "none" /\ NoFault
       \/ client' = Failed(client, "network") /\ UNCHANGED <<handle, data>> /\ Fault
    /\ UNCHANGED <<known, skipEPSV, copied, conns, calls, line, requests, sending, replies, features,
                   dirs, file>>

\* Broken: StorFrom returns as soon as the copy has failed.
AfterCopyIfGood(whole) ==
    IF whole THEN [Goto(client, "shut") EXCEPT !.sent = TRUE] ELSE Returned(client, "error")

\* StorFrom and List close the data connection and wait for its status, the
\* former also when the copy has failed.
AfterCopy(whole) == [Goto(client, "shut") EXCEPT !.sent = TRUE]

\* io.Copy to the server.  It may take everything although the server has
\* given up already.
Upload ==
    /\ client.step = "transfer" /\ client.op = "deliver"
    /\ \/ copied' = TRUE /\ data' = "whole" /\ NoFault
       \/ copied' = FALSE /\ data' = "part" /\ (IF sending[Conn] THEN Fault ELSE NoFault)
    /\ handle' = FALSE
    /\ client' = AfterCopy(copied')
    /\ UNCHANGED <<known, skipEPSV, conns, calls, line, requests, sending, replies, features, dirs, file>>

\* The lines are read until the server has closed the data connection; a
\* broken one may look closed.
Download ==
    /\ client.step = "transfer" /\ client.op # "deliver"
    /\ ~sending[Conn]
    /\ copied' \in (IF data = "whole" THEN {TRUE} ELSE BOOLEAN)
    /\ handle' = FALSE
    /\ client' = AfterCopy(TRUE)
    /\ UNCHANGED <<known, skipEPSV, conns, calls, server, faults>>

-----------------------------------------------------------------------------
(***************************************************************************)
(* The server and the network.                                             *)
(***************************************************************************)
Reply(c, cmd, code) == replies' = [replies EXCEPT ![c] = Append(@, [to |-> cmd, code |-> code])]

\* What the server answers when nothing goes wrong.
Answers(cmd) ==
    CASE cmd \in DataCommands -> {"prelim"}
      [] cmd = "MLST" -> IF client.level <= dirs THEN {"ok"} ELSE {"absent"}
      [] cmd = "MKD" -> IF client.level = dirs + 1 THEN {"ok"} ELSE {"absent"}
      [] OTHER -> {"ok"}

\* A directory that was never made is absent without any failure.  Somebody's
\* file under the name of a directory is counted among the failures.
Refusals(cmd) ==
    CASE cmd = "LIST" -> {"absent", "no"}
      [] cmd = "MLST" /\ client.level = dirs + 1 -> {"file", "no"}
      [] OTHER -> {"no"}

ServerAnswers(c) ==
    /\ line[c] = "open" /\ requests[c] # <<>> /\ ~sending[c]
    /\ LET cmd == Head(requests[c])
       IN \E code \in Answers(cmd) \cup Refusals(cmd) :
             /\ Reply(c, cmd, code)
             /\ IF code \in Answers(cmd) \/ code = "absent" THEN NoFault ELSE Fault
             /\ sending' = [sending EXCEPT ![c] = code = "prelim"]
             /\ requests' = IF code = "prelim" THEN requests ELSE [requests EXCEPT ![c] = Tail(@)]
             /\ dirs' = IF cmd = "MKD" /\ code = "ok" THEN client.level ELSE dirs
    /\ UNCHANGED <<client, library, line, data, features, file>>

\* The transfer ends: an upload when the client has closed the data connection
\* (the server cannot see whether that was all), a listing when it is sent.
ServerEndsTransfer(c) ==
    /\ line[c] = "open" /\ sending[c]
    /\ LET cmd == Head(requests[c])
       IN \/ /\ cmd = "STOR" => ~handle
             /\ data' = IF cmd = "STOR" THEN data ELSE "whole"
             /\ file' = IF cmd = "STOR" THEN (IF data = "whole" THEN "whole" ELSE "cut") ELSE file
             /\ Reply(c, cmd, "ok") /\ NoFault
          \/ /\ data' = IF data = "none" THEN "part" ELSE data
             /\ file' = IF cmd = "STOR" THEN "cut" ELSE file
             /\ Reply(c, cmd, "no") /\ Fault
    /\ sending' = [sending EXCEPT ![c] = FALSE]
    /\ requests' = [requests EXCEPT ![c] = Tail(@)]
    /\ UNCHANGED <<client, library, line, features, dirs>>

\* An idle connection is closed, with a word of farewell.
ServerTimesOut(c) ==
    /\ line[c] = "open" /\ requests[c] = <<>>
    /\ Reply(c, "none", "bye") /\ Fault
    /\ line' = [line EXCEPT ![c] = "closed"]
    /\ UNCHANGED <<client, library, requests, sending, data, features, dirs, file>>

\* A broken connection takes the replies with it; an upload stays as it is.
ConnectionBreaks(c) ==
    /\ line[c] = "open" /\ Fault
    /\ line' = [line EXCEPT ![c] = "closed"]
    /\ requests' = [requests EXCEPT ![c] = <<>>]
    /\ sending' = [sending EXCEPT ![c] = FALSE]
    /\ replies' = [replies EXCEPT ![c] = <<>>]
    /\ file' = IF sending[c] /\ Head(requests[c]) = "STOR"
               THEN (IF data = "whole" THEN "whole" ELSE "cut") ELSE file
    /\ data' = IF data = "none" THEN "part" ELSE data
    /\ UNCHANGED <<client, library, features, dirs>>

ClientStep ==
    \/ MkDir \/ DeleteOldBackups \/ GetEntry \/ OpenArchive \/ Dial
    \/ SendCommand \/ ReadReply \/ ReadFails \/ OpenDataConn \/ Upload \/ Download

ServerStep == \E c \in Conns : ServerAnswers(c) \/ ServerEndsTransfer(c)

Next ==
    \/ Connect \/ \E o \in Operations : BeginCall(o)
    \/ ClientStep \/ ServerStep
    \/ \E c \in Conns : ServerTimesOut(c) \/ ConnectionBreaks(c)

Spec == Init /\ [][Next]_vars

\* The client goes on; a server whose connection is open answers.
FairSpec == Spec /\ WF_vars(ClientStep) /\ WF_vars(ServerStep)

-----------------------------------------------------------------------------
(***************************************************************************)
(* Properties.                                                             *)
(***************************************************************************)
\* Type invariant of the client, the server and what is under way.
TypeOK ==
    /\ client \in Clients
    /\ known \in [Conns -> SUBSET Features] /\ skipEPSV \in [Conns -> BOOLEAN]
    /\ handle \in BOOLEAN /\ copied \in BOOLEAN
    /\ conns \in 0 .. MaxFaults + 1 /\ calls \in 0 .. MaxCalls
    /\ line \in [Conns -> {"open", "closed"}]
    /\ requests \in [Conns -> Seq(Commands)] /\ sending \in [Conns -> BOOLEAN]
    /\ replies \in [Conns -> Seq([to : Commands \cup {"none"}, code : Codes])]
    /\ data \in {"none", "part", "whole"}
    /\ features \in FeatureSets /\ dirs \in 0 .. Depth /\ file \in {"none", "cut", "whole"}
    /\ faults \in 0 .. MaxFaults

\* The commands whose reply the client waits for, or will wait for.
Awaited ==
    IF client.step \in {"transfer", "shut"} THEN {WantedCommand(client)}
    ELSE IF client.sent THEN {client.step} ELSE {}

\* lib/ftp/ftp.go:947-950: "if the upload fails we still need to try to read
\* the server response otherwise ... we cannot use the connection to send other
\* commands".  Whatever failed before, the client takes no reply for that of
\* another command: what it reads answers what it waits for (or is 421).
RepliesMatch ==
    \A c \in Conns : c = Conn => \A i \in DOMAIN replies[c] :
        replies[c][i].to \in Awaited \cup {"none"}

\* A delivery that FTP.copy reports as successful is on the server as a whole,
\* whichever of the transfer's three ends (copy, close, status) failed.
StoredIsWhole ==
    client.op = "idle" /\ client.last = "deliver" /\ client.result = "ok" => file = "whole"

\* No way through a call, refused or broken off, leaves a data connection open.
DataConnClosed == client.step \notin DataCommands \cup {"transfer"} => ~handle

\* With a server that announces MLST a delivery or a rotation fails only if
\* something has failed or a file is in its way, be the directories there already or not yet made.
ErrorHasCause ==
    /\ client.op = "idle" /\ client.last # "list"
    /\ "MLST" \in features /\ faults = 0
    => client.result \in {"none", "ok"}

\* Every call of the storage comes to its end.
CallsEnd == client.op # "idle" ~> client.op = "idle"
=============================================================================
