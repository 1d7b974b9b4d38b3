---------------------------- MODULE RuntimeProofs ----------------------------
(***************************************************************************)
(* Proofs about Runtime, for all notifiers, levels, commands, numbers of   *)
(* events and signals.                                                     *)
(*                                                                         *)
(* The inductive invariant has two halves that do not need each other.     *)
(* Ends relates the cancellation cause and the places of the routines to   *)
(* what the handler returned.  Lines follows every line from the buffer    *)
(* over the goroutine that retrieved it to the server: it is never lost    *)
(* (Accounted) nor doubled (NoLineTwice), a buffer's level is that of its  *)
(* loudest line (Lowest), and the notification routine does not leave      *)
(* before buffers and goroutines are empty (Drained).                      *)
(***************************************************************************)
EXTENDS Runtime, TLAPS, SequenceTheorems

\* An offer on EventCh is an event.
Offers == hpc = "send" => offer \in Events

\* Where the routines are tells what the handler has returned and who has
\* cancelled the contexts.
Ends ==
    /\ sigCh => signals > 0
    /\ cause = "canceled" => signals > 0
    /\ cause = "error" => hpc = "returned" /\ result = "error"
    /\ cpc = "cancelled" => AppDone
    /\ cpc = "done" => hpc = "returned"
    /\ cpc = "exited" => hpc = "returned" /\ (result = "error" => AppDone)
    /\ exit = "0" => cpc = "exited" /\ ~AppDone
    /\ exit = "1" => AppDone
    /\ exit \in {"0", "1"} => npc = "exited"

\* The level kept with a buffer is that of its loudest line.
Lowest ==
    \A n \in Notifiers :
        /\ buffer[n] = {} => lowest[n] = TraceLevel
        /\ buffer[n] # {} => \E i \in buffer[n] : taken[i] = lowest[n]
        /\ \A i \in buffer[n] : lowest[n] <= taken[i]

\* A line of the notifier's level is in the buffer, on its way or sent.
Accounted ==
    \A n \in Notifiers : \A i \in DOMAIN taken :
        taken[i] <= Level[n] =>
            \/ i \in buffer[n] \cup sent[n]
            \/ \E message \in sending[n] : i \in message

\* After the last flush a goroutine is there for whatever is in a buffer.
Drained ==
    \A n \in Notifiers :
        /\ npc = "drain" /\ buffer[n] # {} => flushers[n] > 0
        /\ npc = "exited" => buffer[n] = {} /\ sending[n] = {} /\ flushers[n] = 0

Lines == NoLineTwice /\ QuietBelowLevel /\ Lowest /\ Accounted /\ Drained

IInv == TypeOK /\ Offers /\ Ends /\ Lines

-----------------------------------------------------------------------------
\* Levels of offered events are levels of taken ones.
LEMMA EventLevel == Offers /\ hpc = "send" => offer.level \in 2 .. 5 /\ offer.flush \in BOOLEAN
<1> SUFFICES ASSUME Offers, hpc = "send"
             PROVE  offer.level \in 2 .. 5 /\ offer.flush \in BOOLEAN
  OBVIOUS
<1>1. offer \in [level : EventLevels \cup {2, 4}, flush : BOOLEAN]
  BY DEF Offers, Events, InfoLevel
<1>2. EventLevels \cup {2, 4} \subseteq 2 .. 5
  BY RuntimeAssumption
<1> QED
  BY <1>1, <1>2

\* What TakeEvent does to the sequence of events.
LEMMA TakenGrows ==
    ASSUME TypeOK, Offers, TakeEvent
    PROVE  /\ taken' \in Seq(2 .. 5)
           /\ Len(taken) \in Nat
           /\ Len(taken') = Len(taken) + 1
           /\ DOMAIN taken = 1 .. Len(taken)
           /\ DOMAIN taken' = 1 .. Len(taken) + 1
           /\ \A i \in 1 .. Len(taken) : taken'[i] = taken[i]
           /\ taken'[Len(taken) + 1] = offer.level
           /\ offer.level \in 2 .. 5
           /\ 1 .. Len(taken) \subseteq 1 .. Len(taken')
           /\ Len(taken) + 1 \in 1 .. Len(taken')
           /\ Len(taken) + 1 \notin 1 .. Len(taken)
<1>1. offer.level \in 2 .. 5
  BY EventLevel DEF TakeEvent
<1>2. taken \in Seq(2 .. 5) /\ taken' = Append(taken, offer.level)
  BY DEF TakeEvent, TypeOK
<1>3. /\ taken' \in Seq(2 .. 5) /\ Len(taken') = Len(taken) + 1
      /\ \A i \in 1 .. Len(taken) : taken'[i] = taken[i]
      /\ taken'[Len(taken) + 1] = offer.level
  BY <1>1, <1>2, AppendProperties
<1>4. Len(taken) \in Nat /\ DOMAIN taken = 1 .. Len(taken) /\ DOMAIN taken' = 1 .. Len(taken')
  BY <1>2, <1>3, LenProperties
<1> QED
  BY <1>1, <1>3, <1>4

-----------------------------------------------------------------------------
LEMMA TypeInit == Init => TypeOK /\ Offers
<1> SUFFICES ASSUME Init
             PROVE  TypeOK /\ Offers
  OBVIOUS
<1>1. taken \in Seq(2 .. 5)
  BY DEF Init
<1>2. 0 \in 0 .. MaxSignals
  BY RuntimeAssumption
<1>3. /\ buffer \in [Notifiers -> SUBSET (1 .. Len(taken))]
      /\ sending \in [Notifiers -> SUBSET SUBSET (1 .. Len(taken))]
      /\ sent \in [Notifiers -> SUBSET (1 .. Len(taken))]
  <2> DEFINE lines == 1 .. Len(taken)
  <2> HIDE DEF lines
  <2>1. /\ buffer \in [Notifiers -> SUBSET lines]
        /\ sending \in [Notifiers -> SUBSET SUBSET lines]
        /\ sent \in [Notifiers -> SUBSET lines]
    BY DEF Init
  <2> QED
    BY <2>1 DEF lines
<1>4. lowest \in [Notifiers -> 2 .. TraceLevel] /\ flushers \in [Notifiers -> Nat]
  BY DEF Init, TraceLevel
<1> QED
  BY <1>1, <1>2, <1>3, <1>4 DEF Init, TypeOK, Offers

\* Every action keeps the types, and offers are events.
LEMMA TypeNext == TypeOK /\ Offers /\ [Next]_vars => TypeOK' /\ Offers'
<1> SUFFICES ASSUME TypeOK, Offers, [Next]_vars
             PROVE  TypeOK' /\ Offers'
  OBVIOUS
<1> USE DEF handlerVars, stopVars, bufferVars
<1>1. CASE HandlerStep
  <2>1. ASSUME NEW level \in EventLevels \cup {2, InfoLevel}, NEW flush \in BOOLEAN,
               NEW next \in {"run", "finish", "result"}, SendEvent(level, flush, next)
        PROVE  TypeOK' /\ Offers'
    <3>1. offer' \in Events
      BY <2>1 DEF SendEvent, Events
    <3> QED
      BY <1>1, <2>1, <3>1 DEF HandlerStep, SendEvent, TypeOK, Offers
  <2>2. CASE HandlerLogs
    BY <2>1, <2>2 DEF HandlerLogs
  <2>3. CASE HandlerEnds
    BY <2>1, <2>3 DEF HandlerEnds
  <2>4. CASE HandlerSaves
    <3>1. CASE SendEvent(2, FALSE, "result")
      BY <2>1, <3>1
    <3>2. CASE hpc' = "result" /\ UNCHANGED <<cmd, offer, resume, result>>
      BY <1>1, <3>2 DEF HandlerStep, TypeOK, Offers
    <3> QED
      BY <2>4, <3>1, <3>2 DEF HandlerSaves
  <2>5. CASE HandlerDone
    BY <1>1, <2>5 DEF HandlerStep, HandlerDone, TypeOK, Offers
  <2> QED
    BY <1>1, <2>2, <2>3, <2>4, <2>5 DEF HandlerStep
<1>2. CASE ServerFails
  BY <1>2 DEF ServerFails, TypeOK, Offers
<1>3. CASE CmdStep
  <2>1. /\ hpc' \in {hpc, "returned"} /\ cause' \in {cause, "error"}
        /\ stopNotify' \in BOOLEAN /\ cpc' \in {"cancelled", "done", "exited"}
    BY <1>3 DEF CmdStep, CmdCancelled, CmdReceivesResult, CmdReturns, TypeOK
  <2> QED
    BY <1>3, <2>1 DEF CmdStep, TypeOK, Offers
<1>4. CASE NotificationStep
  <2>1. CASE TakeEvent
    <3> DEFINE lines == 1 .. Len(taken)
               lines1 == 1 .. Len(taken')
    <3>1. buffer' \in [Notifiers -> SUBSET lines1]
      BY <2>1, TakenGrows DEF TakeEvent, TypeOK
    <3>2. lowest' \in [Notifiers -> 2 .. TraceLevel]
      BY <2>1, TakenGrows DEF TakeEvent, TypeOK, LowestLevel, TraceLevel
    <3>3. flushers' \in [Notifiers -> Nat]
      BY <2>1 DEF TakeEvent, TypeOK
    <3>4. sending' \in [Notifiers -> SUBSET SUBSET lines1] /\ sent' \in [Notifiers -> SUBSET lines1]
      <4>1. sending \in [Notifiers -> SUBSET SUBSET lines] /\ sent \in [Notifiers -> SUBSET lines]
        BY DEF TypeOK
      <4>2. lines \subseteq lines1
        BY <2>1, TakenGrows
      <4>3. SUBSET lines \subseteq SUBSET lines1
        BY <4>2
      <4>4. SUBSET SUBSET lines \subseteq SUBSET SUBSET lines1
        BY <4>3
      <4> HIDE DEF lines, lines1
      <4>5. sending' = sending /\ sent' = sent
        BY <1>4 DEF NotificationStep
      <4> QED
        BY <4>1, <4>3, <4>4, <4>5
    <3>5. taken' \in Seq(2 .. 5) /\ hpc' = resume /\ offer' = NoEvent /\ npc' = npc
      BY <2>1, TakenGrows DEF TakeEvent
    <3> QED
      BY <1>4, <3>1, <3>2, <3>3, <3>4, <3>5 DEF NotificationStep, TypeOK, Offers
  <2>2. CASE Drain
    BY <1>4, <2>2 DEF NotificationStep, Drain, TypeOK, Offers
  <2>3. CASE NotificationReturns
    BY <1>4, <2>3 DEF NotificationStep, NotificationReturns, TypeOK, Offers
  <2> QED
    BY <1>4, <2>1, <2>2, <2>3 DEF NotificationStep
<1>5. ASSUME NEW n \in Notifiers, SendStep(n)
      PROVE  TypeOK' /\ Offers'
  <2> DEFINE lines == 1 .. Len(taken)
  <2>1. /\ buffer \in [Notifiers -> SUBSET lines] /\ sending \in [Notifiers -> SUBSET SUBSET lines]
        /\ sent \in [Notifiers -> SUBSET lines]
        /\ lowest \in [Notifiers -> 2 .. 6] /\ flushers \in [Notifiers -> Nat]
    BY DEF TypeOK, TraceLevel
  <2> HIDE DEF lines
  <2>2. /\ buffer' \in [Notifiers -> SUBSET lines] /\ sending' \in [Notifiers -> SUBSET SUBSET lines]
        /\ sent' \in [Notifiers -> SUBSET lines]
        /\ lowest' \in [Notifiers -> 2 .. 6] /\ flushers' \in [Notifiers -> Nat]
        /\ exit' \in {exit, "panic"}
    <3>1. CASE Retrieve(n)
      BY <2>1, <3>1 DEF Retrieve, ClearBuffer, TraceLevel
    <3>2. CASE Send(n)
      BY <2>1, <3>2 DEF Send
    <3> QED
      BY <1>5, <3>1, <3>2 DEF SendStep
  <2> QED
    BY <1>5, <2>2 DEF SendStep, TypeOK, Offers, TraceLevel, lines
<1>6. CASE Signal
  BY <1>6, RuntimeAssumption DEF Signal, TypeOK, Offers
<1>7. CASE HandleSignals
  <2>1. /\ cause' \in {cause, "canceled"} /\ sigCh' \in BOOLEAN /\ spc' \in {"select", "returned"}
    BY <1>7 DEF HandleSignals, TypeOK
  <2> QED
    BY <1>7, <2>1 DEF HandleSignals, TypeOK, Offers
<1>8. CASE MainExits
  BY <1>8 DEF MainExits, TypeOK, Offers
<1>9. CASE UNCHANGED vars
  BY <1>9 DEF vars, TypeOK, Offers
<1> QED
  BY <1>1, <1>2, <1>3, <1>4, <1>5, <1>6, <1>7, <1>8, <1>9 DEF Next

\* Every variable of a process keeps its type, for any notifiers and bounds.
THEOREM TypeCorrect == Spec => []TypeOK
<1>1. Init => TypeOK /\ Offers
  BY TypeInit
<1>2. TypeOK /\ Offers /\ [Next]_vars => TypeOK' /\ Offers'
  BY TypeNext
<1> QED
  BY <1>1, <1>2, PTL DEF Spec

-----------------------------------------------------------------------------
LEMMA EndsInit == Init => Ends
BY DEF Init, Ends, AppDone

LEMMA EndsNext == TypeOK /\ Ends /\ [Next]_vars => Ends'
<1> SUFFICES ASSUME TypeOK, Ends, [Next]_vars
             PROVE  Ends'
  OBVIOUS
<1> USE DEF handlerVars, stopVars, bufferVars, AppDone, Running
<1>1. CASE HandlerStep
  BY <1>1 DEF HandlerStep, HandlerLogs, HandlerEnds, HandlerSaves, HandlerDone, SendEvent, Ends
<1>2. CASE ServerFails
  BY <1>2 DEF ServerFails, Ends
<1>3. CASE CmdStep
  BY <1>3 DEF CmdStep, CmdCancelled, CmdReceivesResult, CmdReturns, HandlerFailed, TypeOK, Ends
<1>4. CASE NotificationStep
  BY <1>4 DEF NotificationStep, TakeEvent, Drain, NotificationReturns, Ends
<1>5. ASSUME NEW n \in Notifiers, SendStep(n)
      PROVE  Ends'
  BY <1>5 DEF SendStep, Retrieve, Send, Ends
<1>6. CASE Signal
  BY <1>6 DEF Signal, TypeOK, Ends
<1>7. CASE HandleSignals
  BY <1>7 DEF HandleSignals, Ends
<1>8. CASE MainExits
  BY <1>8 DEF MainExits, Ends
<1>9. CASE UNCHANGED vars
  BY <1>9 DEF vars, Ends
<1> QED
  BY <1>1, <1>2, <1>3, <1>4, <1>5, <1>6, <1>7, <1>8, <1>9 DEF Next

\* However the routines, the handler and the signals interleave, status 0
\* means that the handler has returned without an error (main.go: the cause of
\* the application's context is nil), status 1 that it failed or a signal came.
THEOREM ExitCodeIsTrue == Spec => []ExitCodeTellsResult
<1>1. Init => TypeOK /\ Offers /\ Ends
  BY TypeInit, EndsInit
<1>2. TypeOK /\ Offers /\ Ends /\ [Next]_vars => TypeOK' /\ Offers' /\ Ends'
  BY TypeNext, EndsNext
<1>3. TypeOK /\ Ends => ExitCodeTellsResult
  BY DEF TypeOK, Ends, ExitCodeTellsResult, AppDone
<1> QED
  BY <1>1, <1>2, <1>3, PTL DEF Spec
-----------------------------------------------------------------------------
LEMMA LinesInit == Init => Lines
<1> SUFFICES ASSUME Init
             PROVE  Lines
  OBVIOUS
<1>1. DOMAIN taken = {}
  BY DEF Init
<1> QED
  BY <1>1
  DEF Init, Lines, NoLineTwice, QuietBelowLevel, Lowest, Accounted, Drained

\* What TakeEvent does to the lines: a new one comes to the buffers or to none.
LEMMA TakeEventKeepsLines == TypeOK /\ Offers /\ Lines /\ NotificationStep /\ TakeEvent => Lines'
<1> SUFFICES ASSUME TypeOK, Offers, Lines, NotificationStep, TakeEvent
             PROVE  Lines'
  OBVIOUS
<1> DEFINE new == Len(taken) + 1
           lines == 1 .. Len(taken)
<1>1. /\ DOMAIN taken = lines /\ DOMAIN taken' = lines \cup {new}
      /\ \A i \in lines : taken'[i] = taken[i] /\ taken[i] \in 2 .. 5
      /\ taken'[new] = offer.level /\ offer.level \in 2 .. 5
      /\ new \notin lines /\ Len(taken') = new
  <2>1. taken \in Seq(2 .. 5)
    BY DEF TypeOK
  <2>2. \A i \in lines : taken[i] \in 2 .. 5
    BY <2>1, ElementOfSeq
  <2> QED
    BY <2>2, TakenGrows
<1>2. ASSUME NEW n \in Notifiers
      PROVE  /\ buffer[n] \in SUBSET lines /\ sent[n] \in SUBSET lines
             /\ sending[n] \in SUBSET SUBSET lines /\ lowest[n] \in 2 .. 6 /\ Level[n] \in 2 .. 4
  BY RuntimeAssumption DEF TypeOK, TraceLevel
<1>3. /\ sending' = sending /\ sent' = sent /\ npc' = npc /\ npc = "select"
  BY DEF NotificationStep, TakeEvent
<1>4. ASSUME NEW n \in Notifiers
      PROVE  \/ /\ offer.level <= 4
                /\ buffer'[n] = buffer[n] \cup {new}
                /\ lowest'[n] = IF offer.level < lowest[n] THEN offer.level ELSE lowest[n]
             \/ ~(offer.level <= 4) /\ buffer'[n] = buffer[n] /\ lowest'[n] = lowest[n]
  BY <1>1 DEF TakeEvent, Stored, LowestLevel, InfoLevel
<1> HIDE DEF new, lines
<1>5. NoLineTwice'
  BY <1>1, <1>2, <1>3, <1>4 DEF Lines, NoLineTwice
<1>6. QuietBelowLevel'
  BY <1>1, <1>2, <1>3 DEF Lines, QuietBelowLevel
<1>7. Lowest'
  BY <1>1, <1>2, <1>4 DEF Lines, Lowest, TraceLevel
<1>8. Accounted'
  BY <1>1, <1>2, <1>3, <1>4 DEF Lines, Accounted
<1>9. Drained'
  BY <1>3 DEF Lines, Drained
<1> QED
  BY <1>5, <1>6, <1>7, <1>8, <1>9 DEF Lines

\* RetriveAndClear makes a message of the buffer, or drops it when its loudest
\* line is too quiet: no line of the notifier's level is lost.
LEMMA RetrieveKeepsLines ==
    ASSUME TypeOK, Lines, NEW n \in Notifiers, SendStep(n), Retrieve(n)
    PROVE  Lines'
<1> DEFINE lines == 1 .. Len(taken)
<1>1. ASSUME NEW m \in Notifiers
      PROVE  /\ buffer[m] \in SUBSET lines /\ sent[m] \in SUBSET lines
             /\ sending[m] \in SUBSET SUBSET lines /\ lowest[m] \in 2 .. 6 /\ Level[m] \in 2 .. 4
             /\ flushers[m] \in Nat
  BY RuntimeAssumption DEF TypeOK, TraceLevel
<1>2. DOMAIN taken = lines /\ (\A i \in lines : taken[i] \in 2 .. 5)
  BY LenProperties DEF TypeOK
<1>3. taken' = taken /\ sent' = sent /\ npc' = npc
  BY DEF SendStep, Retrieve
<1>4. \A m \in Notifiers \ {n} :
          /\ buffer'[m] = buffer[m] /\ sending'[m] = sending[m]
          /\ lowest'[m] = lowest[m] /\ flushers'[m] = flushers[m]
  BY DEF Retrieve, ClearBuffer, TypeOK
<1>5. flushers[n] > 0 /\ flushers'[n] = flushers[n] - 1
  BY DEF Retrieve, TypeOK
<1>6. \/ buffer[n] = {} /\ UNCHANGED <<buffer, lowest, sending>>
      \/ /\ buffer[n] # {} /\ buffer'[n] = {} /\ lowest'[n] = 6
         /\ sending'[n] = IF lowest[n] > Level[n] THEN sending[n] ELSE sending[n] \cup {buffer[n]}
  BY DEF Retrieve, ClearBuffer, TooQuiet, TypeOK, TraceLevel
<1> HIDE DEF lines
<1>7. NoLineTwice'
  BY <1>1, <1>3, <1>4, <1>6 DEF Lines, NoLineTwice
<1>8. QuietBelowLevel'
  <2>1. buffer[n] # {} /\ ~(lowest[n] > Level[n]) => \E i \in buffer[n] : taken[i] <= Level[n]
    BY <1>1 DEF Lines, Lowest
  <2>2. \A message \in sending'[n] :
            message \in sending[n] \/ (message = buffer[n] /\ buffer[n] # {} /\ ~(lowest[n] > Level[n]))
    BY <1>6
  <2> QED
    BY <1>3, <1>4, <2>1, <2>2 DEF Lines, QuietBelowLevel
<1>9. Lowest'
  BY <1>1, <1>2, <1>3, <1>4, <1>6 DEF Lines, Lowest, TraceLevel
<1>10. Accounted'
  BY <1>1, <1>2, <1>3, <1>4, <1>6 DEF Lines, Accounted, Lowest
<1>11. Drained'
  BY <1>1, <1>3, <1>4, <1>5, <1>6 DEF Lines, Drained
<1> QED
  BY <1>7, <1>8, <1>9, <1>10, <1>11 DEF Lines

\* A message that is sent takes its lines along.
LEMMA SendKeepsLines ==
    ASSUME TypeOK, Lines, NEW n \in Notifiers, SendStep(n), Send(n)
    PROVE  Lines'
<1>1. UNCHANGED <<taken, buffer, lowest, flushers, npc>>
  BY DEF SendStep, Send
<1>2. \A m \in Notifiers \ {n} : sending'[m] = sending[m] /\ sent'[m] = sent[m]
  BY DEF Send, TypeOK
<1>3. \/ UNCHANGED <<sending, sent>>
      \/ \E message \in sending[n] :
            sending'[n] = sending[n] \ {message} /\ sent'[n] = sent[n] \cup message
  BY DEF Send, TypeOK
<1>4. NoLineTwice'
  BY <1>1, <1>2, <1>3 DEF Lines, NoLineTwice
<1>5. QuietBelowLevel'
  BY <1>1, <1>2, <1>3 DEF Lines, QuietBelowLevel
<1>6. Lowest'
  BY <1>1 DEF Lines, Lowest
<1>7. Accounted'
  BY <1>1, <1>2, <1>3 DEF Lines, Accounted
<1>8. Drained'
  BY <1>1, <1>2, <1>3 DEF Lines, Drained
<1> QED
  BY <1>4, <1>5, <1>6, <1>7, <1>8 DEF Lines

LEMMA LinesNext == TypeOK /\ Offers /\ Lines /\ [Next]_vars => Lines'
<1> SUFFICES ASSUME TypeOK, Offers, Lines, [Next]_vars
             PROVE  Lines'
  OBVIOUS
<1> USE DEF handlerVars, stopVars, bufferVars
<1>1. ASSUME UNCHANGED <<taken, npc, bufferVars>>
      PROVE  Lines'
  BY <1>1 DEF Lines, NoLineTwice, QuietBelowLevel, Lowest, Accounted, Drained
<1>2. CASE NotificationStep
  <2>1. CASE TakeEvent
    BY <1>2, <2>1, TakeEventKeepsLines
  <2>2. CASE Drain
    <3>1. /\ UNCHANGED <<taken, buffer, lowest, sending, sent>> /\ npc' = "drain"
          /\ \A n \in Notifiers : flushers'[n] = flushers[n] + 1 /\ flushers[n] \in Nat
      BY <1>2, <2>2 DEF NotificationStep, Drain, TypeOK
    <3> QED
      BY <3>1 DEF Lines, NoLineTwice, QuietBelowLevel, Lowest, Accounted, Drained
  <2>3. CASE NotificationReturns
    <3>1. /\ UNCHANGED <<taken, buffer, lowest, flushers, sending, sent>>
          /\ npc = "drain" /\ npc' = "exited"
          /\ \A n \in Notifiers : flushers[n] = 0 /\ sending[n] = {}
      BY <1>2, <2>3 DEF NotificationStep, NotificationReturns, EventsWaited
    <3> QED
      BY <3>1 DEF Lines, NoLineTwice, QuietBelowLevel, Lowest, Accounted, Drained
  <2> QED
    BY <1>2, <2>1, <2>2, <2>3 DEF NotificationStep
<1>3. ASSUME NEW n \in Notifiers, SendStep(n)
      PROVE  Lines'
  BY <1>3, RetrieveKeepsLines, SendKeepsLines DEF SendStep
<1>4. CASE HandlerStep \/ ServerFails \/ CmdStep \/ Signal \/ HandleSignals \/ MainExits \/ UNCHANGED vars
  BY <1>1, <1>4 DEF HandlerStep, ServerFails, CmdStep, Signal, HandleSignals, MainExits, vars
<1> QED
  BY <1>2, <1>3, <1>4 DEF Next

\* The whole invariant, from which the theorems below follow.
LEMMA Invariance == Spec => []IInv
<1>1. Init => IInv
  BY TypeInit, EndsInit, LinesInit DEF IInv
<1>2. IInv /\ [Next]_vars => IInv'
  BY TypeNext, EndsNext, LinesNext DEF IInv
<1> QED
  BY <1>1, <1>2, PTL DEF Spec

\* Whatever is logged while buffers are flushed, no two messages of a notifier
\* share a line, nor does one with its buffer (MessageBuffer's lock).
THEOREM LinesAreSentOnce == Spec => []NoLineTwice
<1>1. IInv => NoLineTwice
  BY DEF IInv, Lines
<1> QED
  BY <1>1, Invariance, PTL

\* A notifier never sends a message of which no line has its message_level.
THEOREM QuietMessagesStay == Spec => []QuietBelowLevel
<1>1. IInv => QuietBelowLevel
  BY DEF IInv, Lines
<1> QED
  BY <1>1, Invariance, PTL

\* A process that comes to its end by itself has lost no event: each notifier
\* has sent all of its message_level, in any order of logging, flushing,
\* cancellation and signals.
THEOREM NotifiersAreServed == Spec => []EveryNotifierServed
<1>1. IInv => EveryNotifierServed
  BY DEF IInv, Ends, Lines, Accounted, Drained, EveryNotifierServed, EventsServed
<1> QED
  BY <1>1, Invariance, PTL
=============================================================================
