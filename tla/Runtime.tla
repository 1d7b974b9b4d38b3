------------------------------- MODULE Runtime -------------------------------
(***************************************************************************)
(* The goroutines of one nxs-backup process and how it ends: main, the     *)
(* signal handler, the cmd routine and the command handler it runs, the    *)
(* notification routine, and the goroutines that send the notifiers'       *)
(* buffers.  EventCh and Done are unbuffered, so a send and its receive    *)
(* are one step, and a send nobody receives blocks for ever.               *)
(*                                                                         *)
(* Levels are logrus': 2 error, 3 warning, 4 info, 5 debug, 6 trace.  An   *)
(* event is known by its place in the sequence of events taken.            *)
(***************************************************************************)
EXTENDS Integers, Sequences, FiniteSets

CONSTANTS Notifiers,    \* the configured notifiers
          Level,        \* the message_level of each
          Smtp,         \* those that are mailers with an smtp_server
          Commands,     \* "start", "server", "other": what may be run
          EventLevels,  \* levels of the events start logs
          MaxEvents,    \* bound: events start logs before it ends
          MaxSignals    \* bound: SIGTERM or SIGINT received

ASSUME RuntimeAssumption ==
    /\ Level \in [Notifiers -> 2 .. 4] \* notifiersInit's messageLevels
    /\ Smtp \subseteq Notifiers
    /\ Commands \subseteq {"start", "server", "other"}
    /\ EventLevels \subseteq 2 .. 5
    /\ MaxEvents \in Nat /\ MaxSignals \in Nat

InfoLevel == 4
TraceLevel == 6
NoEvent == [level |-> 0, flush |-> FALSE]
Events == [level : EventLevels \cup {2, InfoLevel}, flush : BOOLEAN]

VARIABLES cmd,        \* the command
          hpc,        \* the handler: run, send, finish, result, sendResult, returned
          offer,      \* the event it sends on EventCh
          resume,     \* where it goes on after that
          result,     \* the error it sends on Done: "nil" or "error"
          cpc,        \* cmd routine: select, cancelled, done, exited
          npc,        \* notification routine: select, drain, exited
          cause,      \* of c_app: "none", "canceled" or "error"
          stopNotify, \* c_notification is cancelled by itself
          signals,    \* signals received so far
          sigCh,      \* sc, the signal channel: holds one
          spc,        \* handle_signals: select, returned
          taken,      \* levels of the events the notification routine took
          buffer,     \* lines of each MessageBuffer
          lowest,     \* its lowest_level
          flushers,   \* SendBuffer goroutines that have not retrieved it yet
          sending,    \* messages being sent
          sent,       \* lines of the messages that were sent, or refused
          exit        \* "running", "0", "1" or "panic"

handlerVars == <<cmd, hpc, offer, resume, result>>
stopVars == <<cause, stopNotify, signals, sigCh, spc>>
bufferVars == <<buffer, lowest, flushers, sending, sent>>
vars == <<handlerVars, cpc, npc, stopVars, taken, bufferVars, exit>>

Running == exit = "running"
AppDone == cause # "none"

Init ==
    /\ cmd \in Commands
    /\ hpc = "run" /\ offer = NoEvent /\ resume = "run" /\ result = "nil"
    /\ cpc = "select" /\ npc = "select"
    /\ cause = "none" /\ stopNotify = FALSE
    /\ signals = 0 /\ sigCh = FALSE /\ spc = "select"
    /\ taken = <<>>
    /\ buffer = [n \in Notifiers |-> {}]
    /\ lowest = [n \in Notifiers |-> TraceLevel]
    /\ flushers = [n \in Notifiers |-> 0]
    /\ sending = [n \in Notifiers |-> {}]
    /\ sent = [n \in Notifiers |-> {}]
    /\ exit = "running"

-----------------------------------------------------------------------------
\* The handler.  start logs while it runs, and a last event that flushes the
\* notifiers unless another process held the lock; its deferred function
\* logs an error if the metrics cannot be saved.  The others log nothing.
SendEvent(level, flush, next) ==
    /\ hpc' = "send"
    /\ offer' = [level |-> level, flush |-> flush]
    /\ resume' = next
    /\ UNCHANGED <<cmd, result>>

HandlerLogs ==
    /\ hpc = "run" /\ cmd = "start"
    /\ Len(taken) < MaxEvents
    /\ \E level \in EventLevels : SendEvent(level, FALSE, "run")

HandlerEnds ==
    /\ hpc = "run" /\ cmd = "start"
    /\ \/ SendEvent(InfoLevel, TRUE, "finish")
       \/ SendEvent(2, FALSE, "finish")

HandlerSaves ==
    /\ hpc = "finish"
    /\ \/ SendEvent(2, FALSE, "result")
       \/ hpc' = "result" /\ UNCHANGED <<cmd, offer, resume, result>>

HandlerDone ==
    /\ hpc = "result" \/ (hpc = "run" /\ cmd = "other")
    /\ hpc' = "sendResult"
    /\ result' \in {"nil", "error"}
    /\ UNCHANGED <<cmd, offer, resume>>

HandlerStep ==
    /\ Running
    /\ HandlerLogs \/ HandlerEnds \/ HandlerSaves \/ HandlerDone
    /\ UNCHANGED <<cpc, npc, stopVars, taken, bufferVars, exit>>

\* ListenAndServe returns only when it fails.
ServerFails ==
    /\ Running
    /\ hpc = "run" /\ cmd = "server"
    /\ hpc' = "sendResult"
    /\ result' = "error"
    /\ UNCHANGED <<cmd, offer, resume, cpc, npc, stopVars, taken, bufferVars, exit>>

-----------------------------------------------------------------------------
\* cmd_handler.Runtime: select on the context and on Done, then wait for the
\* handler's goroutine.
CmdCancelled ==
    /\ cpc = "select"
    /\ AppDone
    /\ cpc' = "cancelled"
    /\ UNCHANGED <<hpc, cause, stopNotify>>

CmdReceivesResult ==
    /\ cpc = "select"
    /\ hpc = "sendResult"
    /\ cpc' = "done"
    /\ hpc' = "returned"
    /\ UNCHANGED <<cause, stopNotify>>

\* Broken: the result is not looked at.
HandlerFailedNever == FALSE

\* An error that came through Done cancels the application context.
HandlerFailed == cpc = "done" /\ result = "error"

\* The first cancellation sets the cause.
CmdReturns ==
    /\ hpc = "returned"
    /\ cpc \in {"cancelled", "done"}
    /\ cpc' = "exited"
    /\ IF HandlerFailed
       THEN /\ cause' = IF AppDone THEN cause ELSE "error"
            /\ UNCHANGED stopNotify
       ELSE /\ stopNotify' = (stopNotify \/ cpc = "done")
            /\ UNCHANGED cause
    /\ UNCHANGED hpc

CmdStep ==
    /\ Running
    /\ CmdCancelled \/ CmdReceivesResult \/ CmdReturns
    /\ UNCHANGED <<cmd, offer, resume, result, npc, signals, sigCh, spc, taken, bufferVars, exit>>

-----------------------------------------------------------------------------
\* MessageBuffer.FilterAndStore; pass_level is Info for every message_level.
Stored(level) == level <= InfoLevel
LowestLevel(n, level) == IF level < lowest[n] THEN level ELSE lowest[n]

\* notification.Runtime takes an event: every notifier stores it, and a
\* flushing event starts a SendBuffer goroutine for each.
TakeEvent ==
    /\ npc = "select"
    /\ hpc = "send"
    /\ hpc' = resume
    /\ offer' = NoEvent
    /\ taken' = Append(taken, offer.level)
    /\ buffer' = [n \in Notifiers |-> IF Stored(offer.level) THEN buffer[n] \cup {Len(taken')}
                                                                ELSE buffer[n]]
    /\ lowest' = [n \in Notifiers |-> IF Stored(offer.level) THEN LowestLevel(n, offer.level)
                                                                ELSE lowest[n]]
    /\ flushers' = [n \in Notifiers |-> IF offer.flush THEN flushers[n] + 1 ELSE flushers[n]]
    /\ UNCHANGED npc

\* Broken: only the application context is watched.
NotifyDoneByApp == AppDone

\* c_notification is derived from c_app.
NotifyDone == AppDone \/ stopNotify

\* When its context is done it flushes the notifiers and waits for EventsWG.
Drain ==
    /\ npc = "select"
    /\ NotifyDone
    /\ npc' = "drain"
    /\ flushers' = [n \in Notifiers |-> flushers[n] + 1]
    /\ UNCHANGED <<hpc, offer, taken, buffer, lowest>>

\* Broken: EventsWG counts a goroutine from its first step on.
EventsWaitedIfStarted == \A n \in Notifiers : sending[n] = {}

\* EventsWG.Wait: Add came before every go statement.
EventsWaited == \A n \in Notifiers : flushers[n] = 0 /\ sending[n] = {}

NotificationReturns ==
    /\ npc = "drain"
    /\ EventsWaited
    /\ npc' = "exited"
    /\ UNCHANGED <<hpc, offer, taken, buffer, lowest, flushers>>

NotificationStep ==
    /\ Running
    /\ TakeEvent \/ Drain \/ NotificationReturns
    /\ UNCHANGED <<cmd, resume, result, cpc, stopVars, sending, sent, exit>>

\* Broken: half a clear_nolock, and one to a wrong level.
ClearBufferKeepingLines(n) == lowest' = [lowest EXCEPT ![n] = TraceLevel] /\ UNCHANGED buffer
ClearBufferToZero(n) ==
    /\ buffer' = [buffer EXCEPT ![n] = {}]
    /\ lowest' = [lowest EXCEPT ![n] = 0]

\* clear_nolock.
ClearBuffer(n) ==
    /\ buffer' = [buffer EXCEPT ![n] = {}]
    /\ lowest' = [lowest EXCEPT ![n] = TraceLevel]

\* Broken: compared with pass_level.
TooQuietForAnyone(n) == lowest[n] > InfoLevel

\* The level of the buffer is not enough for its notifier.
TooQuiet(n) == lowest[n] > Level[n]

\* MessageBuffer.RetriveAndClear, under its lock: a buffer whose level is not
\* enough is dropped.
Retrieve(n) ==
    /\ flushers[n] > 0
    /\ flushers' = [flushers EXCEPT ![n] = @ - 1]
    /\ IF buffer[n] = {} THEN UNCHANGED <<buffer, lowest, sending>>
       ELSE /\ ClearBuffer(n)
            /\ sending' = IF TooQuiet(n) THEN sending
                          ELSE [sending EXCEPT ![n] = @ \cup {buffer[n]}]
    /\ UNCHANGED <<sent, exit>>

\* The server takes the message or refuses it; the mailer that cannot reach
\* its SMTP server closes a connection it does not have.
Send(n) ==
    /\ \E message \in sending[n] :
          \/ /\ sending' = [sending EXCEPT ![n] = @ \ {message}]
             /\ sent' = [sent EXCEPT ![n] = @ \cup message]
             /\ UNCHANGED exit
          \/ /\ n \in Smtp
             /\ exit' = "panic"
             /\ UNCHANGED <<sending, sent>>
    /\ UNCHANGED <<buffer, lowest, flushers>>

SendStep(n) ==
    /\ Running
    /\ Retrieve(n) \/ Send(n)
    /\ UNCHANGED <<handlerVars, cpc, npc, stopVars, taken>>

-----------------------------------------------------------------------------
\* A signal goes to the channel sc, unless one is waiting there.
Signal ==
    /\ Running
    /\ signals < MaxSignals
    /\ signals' = signals + 1
    /\ sigCh' = TRUE
    /\ UNCHANGED <<handlerVars, cpc, npc, cause, stopNotify, spc, taken, bufferVars, exit>>

\* handle_signals: cancel(nil) makes the cause context.Canceled.
HandleSignals ==
    /\ Running
    /\ spc = "select"
    /\ \/ /\ sigCh
          /\ sigCh' = FALSE
          /\ cause' = IF AppDone THEN cause ELSE "canceled"
          /\ UNCHANGED spc
       \/ /\ AppDone
          /\ spc' = "returned"
          /\ UNCHANGED <<sigCh, cause>>
    /\ UNCHANGED <<handlerVars, cpc, npc, stopNotify, signals, taken, bufferVars, exit>>

\* main waits for both routines; any cause makes the exit status 1.
MainExits ==
    /\ Running
    /\ cpc = "exited" /\ npc = "exited"
    /\ exit' = IF AppDone THEN "1" ELSE "0"
    /\ UNCHANGED <<handlerVars, cpc, npc, stopVars, taken, bufferVars>>

Next ==
    \/ HandlerStep \/ ServerFails \/ CmdStep \/ NotificationStep
    \/ \E n \in Notifiers : SendStep(n)
    \/ Signal \/ HandleSignals \/ MainExits

Spec == Init /\ [][Next]_vars

\* Every goroutine that can go on does; mail and web servers answer.
FairSpec ==
    /\ Spec
    /\ WF_vars(HandlerStep) /\ WF_vars(CmdStep) /\ WF_vars(NotificationStep)
    /\ \A n \in Notifiers : WF_vars(SendStep(n))
    /\ WF_vars(HandleSignals) /\ WF_vars(MainExits)

-----------------------------------------------------------------------------
\* Type invariant of the process state.
TypeOK ==
    /\ cmd \in Commands
    /\ hpc \in {"run", "finish", "send", "result", "sendResult", "returned"}
    /\ offer \in Events \cup {NoEvent}
    /\ resume \in {"run", "finish", "result"}
    /\ result \in {"nil", "error"}
    /\ cpc \in {"select", "cancelled", "done", "exited"}
    /\ npc \in {"select", "drain", "exited"}
    /\ cause \in {"none", "canceled", "error"}
    /\ stopNotify \in BOOLEAN /\ sigCh \in BOOLEAN
    /\ signals \in 0 .. MaxSignals
    /\ spc \in {"select", "returned"}
    /\ taken \in Seq(2 .. 5)
    /\ buffer \in [Notifiers -> SUBSET (1 .. Len(taken))]
    /\ lowest \in [Notifiers -> 2 .. TraceLevel]
    /\ flushers \in [Notifiers -> Nat]
    /\ sending \in [Notifiers -> SUBSET SUBSET (1 .. Len(taken))]
    /\ sent \in [Notifiers -> SUBSET (1 .. Len(taken))]
    /\ exit \in {"running", "0", "1", "panic"}

EventsServed == \A n \in Notifiers, i \in DOMAIN taken : taken[i] <= Level[n] => i \in sent[n]

\* When the process has come to its end by itself, each notifier has sent (or
\* tried to send) every event of its message_level that the notification
\* routine took, whatever was flushed, cleared or cancelled when.
EveryNotifierServed == exit \in {"0", "1"} => EventsServed

\* No line is in two messages: what one SendBuffer goroutine retrieved is
\* neither in the buffer nor with another one.
NoLineTwice ==
    \A n \in Notifiers :
        /\ \A a, b \in sending[n] : a # b => a \cap b = {}
        /\ \A a \in sending[n] : a \cap (buffer[n] \cup sent[n]) = {}
        /\ buffer[n] \cap sent[n] = {}

\* A message goes out only if one of its lines has the notifier's level.
QuietBelowLevel ==
    \A n \in Notifiers : \A message \in sending[n] : \E i \in message : taken[i] <= Level[n]

\* The exit status is 0 only if the handler reported no error, and 1 only if
\* it did or a signal came.
ExitCodeTellsResult ==
    /\ exit = "0" => result = "nil" /\ hpc = "returned"
    /\ exit = "1" => result = "error" \/ signals > 0

\* A process that gets no signal comes to its end, unless it is a server.
EndsByItself == [](signals = 0 /\ cmd # "server") => <>(~Running)

\* docs/3.7: message_level "defines the minimum level of events to be sent":
\* they are, however the process ends and whatever became of the servers of
\* the other notifiers.
ServedWhateverFails == ~Running => EventsServed
=============================================================================
