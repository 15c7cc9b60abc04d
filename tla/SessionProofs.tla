--------------------------- MODULE SessionProofs ---------------------------
(* The threads carry the messages through: Session keeps every promise of Threads, *)
(* the bytes are where the threads think they are, the dialogue of menu and         *)
(* receiver is that of Dialogue, and every message is legible.                      *)
EXTENDS Session, ConsoleProofs, MessageProofs

\* The names of the messages; neither "none" nor "unset" is one.
LEMMA SpeciesNames ==
  /\ Species = {"connect", "ping", "send_user", "send_recvack", "send_readack", "send_ack",
                "push_user", "push_readack", "delete_all", "delete_session", "delete_message",
                "delete_ack", "req", "req_ack", "sync_new", "sync_session", "sync_last",
                "sync_ack", "disconnect", "reconnect"}
  /\ "none" \notin Species /\ "unset" \notin Species
<1>1. Species = (DOMAIN ConnectMsgs) \cup (DOMAIN SendMsgs) \cup (DOMAIN PushMsgs)
                  \cup (DOMAIN DeleteMsgs) \cup (DOMAIN ReqMsgs) \cup (DOMAIN SyncMsgs)
                  \cup (DOMAIN DisconnectMsgs) \cup (DOMAIN ReconnectMsgs)
  BY DEF Species, Builders
<1>2. QED
  BY <1>1 DEF ConnectMsgs, SendMsgs, PushMsgs, DeleteMsgs, ReqMsgs, SyncMsgs, DisconnectMsgs,
              ReconnectMsgs

\* The menu chooses something, and an unset pointer only for what Threads says.
LEMMA MenuChooses ==
  ASSUME NEW o \in Options, NEW s \in MessagesFor(o)
  PROVE  s \in Species \cup {"unset"} /\ (s = "unset" => Unset)
<1>1. o \in 1..9 /\ CharOf[o] = option
  BY DEF Options
<1>2. CASE o \in {1, 2, 8, 9}
  BY <1>2, SpeciesNames DEF MessagesFor, Submenu, Simple
<1>3. CASE o = 4
  <2>1. option = "push"
    BY <1>1, <1>3 DEF CharOf
  <2>2. PICK a \in Answers : s = Selected(4, a)
    BY <1>3 DEF MessagesFor, Submenu
  <2>3. species = "one" => a \in 1..2
    BY <2>2 DEF Answers, CharOf
  <2>4. QED
    BY <2>1, <2>2, <2>3, SpeciesNames DEF Selected, Default, Submenu, Unset
<1>4. CASE o \in {3, 5, 6, 7}
  <2>1. PICK a \in Answers : s = Selected(o, a)
    BY <1>4 DEF MessagesFor, Submenu
  <2>2. QED
    BY <1>4, <2>1, SpeciesNames DEF Selected, Default, Submenu
<1>5. QED
  BY <1>1, <1>2, <1>3, <1>4

\* What a step that neither sends, receives, reports nor forgets a message leaves
\* alone.
Undisturbed ==
  /\ ~AllDead /\ ServerTurn => ~AllDead'
  /\ ~AllDead' =>
       /\ stream' = stream
       /\ Reporting' <=> Reporting
       /\ ServerTurn' => ServerTurn
       /\ ServerTurn /\ ~ServerTurn' => pc["dispatch"] = "signal"
       /\ DispatchBusy' =>
            (pc'["dispatch"] \in {"enter", "signal"} <=> pc["dispatch"] \in {"enter", "signal"})
       /\ AwaitsReport => AwaitsReport' /\ (Unset => Unset')

\* A step of the threads that moves no bytes disturbs nothing that is said of them.
LEMMA SilentStep ==
  ASSUME Pieces \subseteq {1}, Spurious = {}, TypeOK, BirthInv, OrderInv, Silent
  PROVE  Undisturbed
  <1> USE DEF TypeOK, MainLabel, ClientLabel, DispatchLabel, Thread, Mutex, Cond, NoThread, ExitLabels,
              AllDead, Step, OrderInv, TurnInv, QuitInv, MutexInv, Holds, OneTurn, MainTurn, ClientTurn,
              ServerTurn, DispatchBusy, BirthInv, Undisturbed, Reporting, AwaitsReport, Unset, Silent, Moves
  <1>1. ASSUME NEW t \in Thread, Ending(t) PROVE Undisturbed
    <2>1. CASE ThreadExit(t)
      BY <2>1 DEF ThreadExit, sync, terminal, socket
    <2>2. CASE DestructorLock(t)
      BY <2>2 DEF DestructorLock, Lock, terminal, socket, tls
    <2>3. CASE DestructorLoad(t)
      BY <2>3 DEF DestructorLoad, sync, terminal, socket
    <2>4. CASE DestructorStore(t)
      BY <2>4 DEF DestructorStore, sync, terminal, socket
    <2>5. CASE DestructorTest(t)
      BY <2>5 DEF DestructorTest, sync, terminal, socket
    <2>6. CASE DestructorUnlock(t)
      BY <2>6 DEF DestructorUnlock, Unlock, terminal, socket, tls
    <2>7. QED
      BY <1>1, <2>1, <2>2, <2>3, <2>4, <2>5, <2>6 DEF Ending
  <1>2. CASE Main
    <2>1. CASE MainStart
      BY <2>1 DEF MainStart, sync, terminal, socket
    <2>2. CASE MainOnceHangs
      BY <2>2 DEF MainOnceHangs, sync, terminal, socket, tls
    <2>3. CASE MainFails
      BY <2>3 DEF MainFails, ProcessEnds, sync, terminal, socket, tls
    <2>4. CASE MainSleep
      BY <2>4 DEF MainSleep, sync, terminal, socket, tls
    <2>5. CASE MainAccept
      BY <2>5 DEF MainAccept, sync, terminal, socket, tls
    <2>6. CASE MainAcceptAgain
      BY <2>6 DEF MainAcceptAgain, vars, sync, terminal, socket, tls
    <2>7. CASE MainLockS
      BY <2>7 DEF MainLockS, Lock, terminal, socket, tls
    <2>8. CASE MainSignal
      BY <2>8 DEF MainSignal, Signal, terminal, socket, tls
    <2>9. CASE MainUnlockS
      BY <2>9 DEF MainUnlockS, Unlock, terminal, socket, tls
    <2>10. CASE MainLockG
      BY <2>10 DEF MainLockG, Lock, terminal, socket, tls
    <2>11. CASE MainWait
      BY <2>11 DEF MainWait, Wait, terminal, socket, tls
    <2>12. CASE MainWake
      BY <2>12 DEF MainWake, Wake, Lock, terminal, socket, tls
    <2>13. CASE MainClose
      BY <2>13 DEF MainClose, Unlock, terminal, socket, tls
    <2>14. CASE MainCancel
      BY <2>14 DEF MainCancel, sync, terminal, socket, tls
    <2>15. CASE MainDestroy
      BY <2>15 DEF MainDestroy, DestroyCond, DestroyMutex, sync, terminal, socket, tls
    <2>16. CASE Ending("main")
      BY <2>16, <1>1 DEF Thread
    <2>17. QED
      BY <1>2, <2>1, <2>2, <2>3, <2>4, <2>5, <2>6, <2>7, <2>8, <2>9, <2>10, <2>11, <2>12, <2>13, <2>14, <2>15, <2>16 DEF Main
  <1>3. CASE Client
    <2>1. CASE ClientStart
      BY <2>1 DEF ClientStart, sync, terminal, socket
    <2>2. CASE ClientConnect
      BY <2>2 DEF ClientConnect, SetSpecific, sync, terminal
    <2>3. CASE ClientConnectFails
      BY <2>3 DEF ClientConnectFails, sync, terminal, socket, tls
    <2>4. CASE ClientLock
      BY <2>4 DEF ClientLock, Lock, terminal, socket, tls
    <2>5. CASE ClientWait
      BY <2>5 DEF ClientWait, Wait, terminal, socket, tls
    <2>6. CASE ClientDoesNotWait
      BY <2>6 DEF ClientDoesNotWait, sync, terminal, socket, tls
    <2>7. CASE ClientWake
      BY <2>7 DEF ClientWake, Wake, Lock, terminal, socket, tls
    <2>8. CASE ClientPrompt
      BY <2>8 DEF ClientPrompt, Unlock, terminal, socket, tls
    <2>9. CASE ClientReadsOption
      BY <2>9 DEF ClientReadsOption, GetChar, sync, socket, tls
    <2>10. CASE ClientQuits
      BY <2>10 DEF ClientQuits, GetChar, sync, tls
    <2>11. CASE ClientRejects
      BY <2>11 DEF ClientRejects, GetChar, sync, socket, tls
    <2>12. CASE ClientChooses
      BY <2>12 DEF ClientChooses, GetChar, sync, socket, tls
    <2>13. CASE ClientReadsSpecies
      BY <2>13 DEF ClientReadsSpecies, GetChar, sync, socket, tls
    <2>14. CASE ClientSends
      BY <2>14 DEF ClientSends, sync, terminal, tls
    <2>15. CASE ClientCrashes
      BY <2>15 DEF ClientCrashes, ProcessEnds, sync, terminal, socket, tls
    <2>16. CASE ClientSignals
      BY <2>16 DEF ClientSignals, Lock, Signal, Unlock, terminal, socket, tls
    <2>17. CASE Ending("client")
      BY <2>17, <1>1 DEF Thread
    <2>18. QED
      BY <1>3, <2>1, <2>2, <2>3, <2>4, <2>5, <2>6, <2>7, <2>8, <2>9, <2>10, <2>11, <2>12, <2>13, <2>14, <2>15, <2>16, <2>17 DEF Client
  <1>4. CASE Dispatch
    <2>1. CASE DispatchStart
      BY <2>1 DEF DispatchStart, SetSpecific, sync, terminal, socket
    <2>2. CASE DispatchReceives
      BY <2>2 DEF DispatchReceives, sync, terminal, tls
    <2>3. CASE DispatchSpins
      BY <2>3 DEF DispatchSpins, vars, sync, terminal, socket, tls
    <2>4. CASE DispatchSleeps
      BY <2>4 DEF DispatchSleeps, sync, terminal, socket, tls
    <2>5. CASE DispatchLock
      BY <2>5 DEF DispatchLock, Lock, terminal, socket, tls
    <2>6. CASE DispatchParses
      BY <2>6 DEF DispatchParses, sync, terminal, socket, tls
    <2>7. CASE DispatchReadsEnter
      BY <2>7 DEF DispatchReadsEnter, GetChar, sync, socket, tls
    <2>8. CASE DispatchSignal
      BY <2>8 DEF DispatchSignal, Signal, terminal, socket, tls
    <2>9. CASE DispatchUnlock
      BY <2>9 DEF DispatchUnlock, Unlock, terminal, socket, tls
    <2>10. CASE DispatchCancelled
      BY <2>10 DEF DispatchCancelled, sync, terminal, socket, tls
    <2>11. CASE Ending("dispatch")
      BY <2>11, <1>1 DEF Thread
    <2>12. CASE DispatchCrashes
      BY <2>12 DEF DispatchCrashes, ProcessEnds, sync, terminal, socket, tls
    <2>13. QED
      BY <1>4, <2>1, <2>2, <2>3, <2>4, <2>5, <2>6, <2>7, <2>8, <2>9, <2>10, <2>11, <2>12 DEF Dispatch
  <1>5. CASE UserTypes
    BY <1>5 DEF UserTypes, sync, socket, tls
  <1>6. CASE SpuriousWakeup
    BY <1>6 DEF SpuriousWakeup, terminal, socket, tls
  <1>7. CASE UNCHANGED vars
    BY <1>7 DEF vars, sync, terminal, socket, tls
  <1>8. QED
    BY <1>2, <1>3, <1>4, <1>5, <1>6, <1>7 DEF Silent, Next, Terminated

-----------------------------------------------------------------------------
(* The threads of Session are those of Threads. *)

\* Every step of Session is a step of Threads, or leaves the threads alone.
LEMMA ThreadsStep == [SessionNext]_svars => [Next]_vars
  BY DEF SessionNext, SendsMessage, ReceivesMessage, ReportsMessage, ReportCrashes, ForgetsMessage,
         Silent, svars, Next, Client, Dispatch

\* So what is proved of the threads holds while they carry messages.
THEOREM SessionThreads == SessionSpec => Spec
<1>1. SessionInit => Init
  BY DEF SessionInit
<1>2. QED
  BY <1>1, ThreadsStep, PTL DEF SessionSpec, Spec

\* In every state of Session the threads are as the theorems about them say.
LEMMA SessionOrder ==
  ASSUME Spurious = {}
  PROVE  SessionSpec => [](TypeOK /\ CounterInv /\ OrderInv)
<1>1. Pieces \subseteq {1}
  BY SessionAssumption
<1>2. Spec => []OrderInv
  BY <1>1, OrderHolds
<1>3. QED
  BY <1>2, SessionThreads, TypeAndCounter, PTL

-----------------------------------------------------------------------------
(* The bytes. *)

\* A sequence with nothing before it.
LEMMA NothingBefore ==
  ASSUME NEW S, NEW m \in Seq(S)
  PROVE  <<>> \o m = m
  OBVIOUS

\* What fits the buffer is received whole, and nothing else is.
LEMMA ReceivedWhole ==
  ASSUME NEW S, NEW m \in Seq(S), BUFFER_SIZE \in Nat, Len(m) <= BUFFER_SIZE
  PROVE  LET n == Min({Len(m), BUFFER_SIZE}) IN
         /\ Filled(<<>>, SubSeq(m, 1, n)) = m
         /\ SubSeq(m, n + 1, Len(m)) = <<>>
<1>1. Min({Len(m), BUFFER_SIZE}) = Len(m)
  BY DEF Min
<1>2. SubSeq(m, 1, Len(m)) = m /\ SubSeq(m, Len(m) + 1, Len(m)) = <<>>
  OBVIOUS
<1>3. Filled(<<>>, m) = m
  BY DEF Filled
<1>4. QED
  BY <1>1, <1>2, <1>3

\* What is said is a sequence that fits the buffer.
LEMMA SaidFits ==
  ASSUME Legible, chosen \in Species \cup {"unset"}, NEW m \in Said
  PROVE  m # <<>> /\ m \in Seq(Range(m)) /\ Len(m) <= BUFFER_SIZE
<1>1. CASE chosen \in Species
  BY <1>1 DEF Legible, Said
<1>2. CASE chosen = "unset"
  <2>1. m = [i \in 1..7 |-> Cell("junk", i, 1)]
    BY <1>2, SpeciesNames DEF Said, Junk
  <2>2. m \in Seq(Range(m)) /\ Len(m) = 7
    BY <2>1 DEF Range
  <2>3. QED
    BY <2>1, <2>2, MessagesAssumption DEF Legible
<1>3. QED
  BY <1>1, <1>2

\* The initial state has nothing to say.
LEMMA BytesInit == SessionInit => BytesWithThreads
  BY DEF SessionInit, Init, BytesWithThreads, Reporting, DispatchBusy, Thread

\* Sending: nothing was on the connection, and nothing was being reported.
LEMMA SendStep ==
  ASSUME Legible, TypeOK, OrderInv, BytesWithThreads, SendsMessage
  PROVE  BytesWithThreads'
<1>1. /\ pc["client"] = "send" /\ pc' = [pc EXCEPT !["client"] = "lock"] /\ client_wait
      /\ UNCHANGED <<waiters, client_wait, option, species>>
  BY DEF SendsMessage, ClientSends, Step, sync, terminal, OrderInv, TurnInv
<1>2. ~AllDead /\ ~AllDead'
  BY <1>1 DEF TypeOK, AllDead, Thread
<1>3. ~MainTurn /\ stream = 0 /\ ~Reporting
  BY <1>1 DEF OrderInv, TurnInv, MutexInv, OneTurn, ClientTurn, ServerTurn, Reporting, TypeOK
<1>4. wire = <<>> /\ buffer = <<>> /\ buffer' = <<>> /\ ~Reporting' /\ ~DispatchBusy'
  BY <1>1, <1>2, <1>3 DEF BytesWithThreads, SendsMessage, Reporting, DispatchBusy, TypeOK, Thread
<1>5. chosen' # "none" /\ (chosen' = "unset" => Unset') /\ AwaitsReport'
  <2>1. chosen' # "none" /\ (chosen' = "unset" => Unset)
    BY MenuChooses, SpeciesNames DEF SendsMessage
  <2>2. Unset' = Unset
    BY <1>1 DEF Unset
  <2>3. AwaitsReport'
    BY <1>1, <1>3 DEF AwaitsReport, MainTurn, TypeOK, Thread
  <2>4. QED
    BY <2>1, <2>2, <2>3
<1>6. chosen' \in Species \cup {"unset"}
  BY MenuChooses DEF SendsMessage
<1>7. wire' \in IF stream' > 0 THEN Said' ELSE {<<>>}
  <2>1. CASE stream' = stream /\ wire' = wire
    BY <2>1, <1>3, <1>4
  <2>2. CASE stream' > stream /\ chosen' = "unset" /\ wire' = wire \o Junk(7)
    BY <2>2, <1>3, <1>4, NothingBefore, SpeciesNames DEF Said
  <2>3. CASE stream' > stream /\ chosen' \in Species
             /\ \E bytes \in Sendable[chosen'] : wire' = wire \o bytes
    BY <2>3, <1>3, <1>4, NothingBefore DEF Said, Legible
  <2>4. QED
    BY <2>1, <2>2, <2>3 DEF SendsMessage
<1>8. QED
  BY <1>2, <1>4, <1>5, <1>6, <1>7 DEF BytesWithThreads, DispatchBusy

\* Receiving: the whole message moves from the connection to the empty buffer.
LEMMA ReceiveStep ==
  ASSUME Legible, TypeOK, OrderInv, BytesWithThreads, ReceivesMessage
  PROVE  BytesWithThreads'
<1>1. /\ pc["dispatch"] = "recv" /\ pc' = [pc EXCEPT !["dispatch"] = "sleep"]
      /\ UNCHANGED <<waiters, client_wait, option, species, chosen, printed>>
  BY DEF ReceivesMessage, DispatchReceives, Step, sync, terminal
<1>2. stream = 1 /\ stream' = 0
  BY DEF ReceivesMessage, DispatchReceives, TypeOK, OrderInv, TurnInv
<1>3. ~AllDead /\ ~AllDead' /\ Reporting' /\ ~Reporting
  BY <1>1 DEF TypeOK, AllDead, Thread, Reporting, DispatchBusy
<1>4. wire \in Said /\ buffer = <<>> /\ chosen # "none"
  BY <1>2, <1>3 DEF BytesWithThreads
<1>5. wire' = <<>> /\ buffer' = wire
  <2>1. wire \in Seq(Range(wire)) /\ Len(wire) <= BUFFER_SIZE
    BY <1>3, <1>4, SaidFits DEF BytesWithThreads
  <2>2. QED
    BY <1>4, <2>1, ReceivedWhole, MessagesAssumption DEF ReceivesMessage
<1>6. Said' = Said /\ (Unset' <=> Unset)
  BY <1>1 DEF Said, Unset
<1>7. AwaitsReport'
  BY <1>1, <1>3, <1>4 DEF BytesWithThreads, AwaitsReport, MainTurn, TypeOK, Thread
<1>8. pc'["dispatch"] = "sleep"
  BY <1>1 DEF TypeOK, Thread
<1>9. QED
  BY <1>1, <1>2, <1>3, <1>4, <1>5, <1>6, <1>7, <1>8 DEF BytesWithThreads

\* Something is printed of anything.
LEMMA SomethingPrinted ==
  ASSUME NEW m, NEW n
  PROVE  Parse(m, n) # {}
  BY DEF Parse

\* Reporting: the buffer holds the message, and nothing else.
LEMMA ReportStep ==
  ASSUME Legible, TypeOK, OrderInv, BytesWithThreads, ReportsMessage
  PROVE  BytesWithThreads'
<1>1. /\ pc["dispatch"] = "parse" /\ pc' = [pc EXCEPT !["dispatch"] = "enter"]
      /\ UNCHANGED <<waiters, client_wait, option, species, stream, chosen, wire, buffer>>
  BY DEF ReportsMessage, DispatchParses, Step, sync, terminal, socket
<1>2. ~AllDead /\ ~AllDead' /\ Reporting' /\ Reporting
  BY <1>1 DEF TypeOK, AllDead, Thread, Reporting, DispatchBusy
<1>3. buffer \in Said
  BY <1>2 DEF BytesWithThreads
<1>4. printed' # {} /\ (chosen \in Species => Faithful(chosen, printed'))
  BY <1>3, SomethingPrinted DEF ReportsMessage, Said, Legible
<1>5. Said' = Said /\ (Unset' <=> Unset)
  BY <1>1 DEF Said, Unset
<1>6. AwaitsReport => AwaitsReport'
  BY <1>1 DEF AwaitsReport, MainTurn, TypeOK, Thread
<1>7. QED
  BY <1>1, <1>2, <1>4, <1>5, <1>6 DEF BytesWithThreads

\* The loop begins again: nothing was on the connection.
LEMMA ForgetStep ==
  ASSUME TypeOK, OrderInv, BytesWithThreads, ForgetsMessage
  PROVE  BytesWithThreads'
<1>1. /\ pc["dispatch"] = "unlock" /\ pc' = [pc EXCEPT !["dispatch"] = "recv"]
      /\ UNCHANGED <<stream, wire>> /\ chosen' = "none" /\ buffer' = <<>>
  BY DEF ForgetsMessage, DispatchUnlock, Step, socket
<1>2. ~AllDead /\ ~AllDead' /\ Reporting /\ ~Reporting' /\ pc'["dispatch"] = "recv"
  BY <1>1 DEF TypeOK, AllDead, Thread, Reporting, DispatchBusy
<1>3. stream = 0 /\ wire = <<>>
  BY <1>2 DEF BytesWithThreads, TypeOK
<1>4. QED
  BY <1>1, <1>2, <1>3 DEF BytesWithThreads

\* Every other step leaves the bytes alone.
LEMMA SilentBytes ==
  ASSUME Pieces \subseteq {1}, Spurious = {}, TypeOK, BirthInv, OrderInv, BytesWithThreads, Silent
  PROVE  BytesWithThreads'
<1>1. Undisturbed
  BY SilentStep
<1>2. UNCHANGED content /\ Said' = Said
  BY DEF Silent, content, Said
<1>3. ASSUME ~AllDead' PROVE ~AllDead
  BY <1>3, TurnStep DEF Silent, Passes
<1>4. ASSUME ~AllDead'
      PROVE  pc'["dispatch"] \in {"enter", "signal"} => pc["dispatch"] \in {"enter", "signal"}
  BY <1>1, <1>4 DEF Undisturbed, DispatchBusy
<1>5. ASSUME ~AllDead', chosen # "none" PROVE AwaitsReport' /\ (Unset => Unset')
  BY <1>1, <1>3, <1>5 DEF BytesWithThreads, Undisturbed
<1>6. ASSUME ~AllDead' PROVE stream' = stream /\ (Reporting' <=> Reporting)
  BY <1>1, <1>6 DEF Undisturbed
<1>7. SUFFICES ASSUME ~AllDead' PROVE BytesWithThreads'
  BY DEF BytesWithThreads
<1>8. /\ chosen' = chosen /\ wire' = wire /\ buffer' = buffer /\ printed' = printed
      /\ ~AllDead
  BY <1>2, <1>3, <1>7 DEF content
<1>9. QED
  BY <1>2, <1>4, <1>5, <1>6, <1>7, <1>8 DEF BytesWithThreads

\* No step puts bytes where the threads do not think they are.
LEMMA BytesStep ==
  ASSUME Legible, Spurious = {}, TypeOK, BirthInv, OrderInv, BytesWithThreads, [SessionNext]_svars
  PROVE  BytesWithThreads'
<1>1. Pieces \subseteq {1}
  BY SessionAssumption
<1>2. CASE SendsMessage
  BY <1>2, SendStep
<1>3. CASE ReceivesMessage
  BY <1>3, ReceiveStep
<1>4. CASE ReportsMessage
  BY <1>4, ReportStep
<1>5. CASE ReportCrashes
  <2>1. AllDead'
    BY <1>5 DEF ReportCrashes, DispatchCrashes, ProcessEnds, AllDead
  <2>2. QED
    BY <2>1 DEF BytesWithThreads
<1>6. CASE ForgetsMessage
  BY <1>6, ForgetStep
<1>7. CASE Silent
  BY <1>1, <1>7, SilentBytes
<1>8. CASE UNCHANGED svars
  BY <1>8 DEF svars, vars, content, sync, terminal, socket, tls, BytesWithThreads, Said, Unset,
              AwaitsReport, Reporting, DispatchBusy, MainTurn, AllDead
<1>9. QED
  BY <1>2, <1>3, <1>4, <1>5, <1>6, <1>7, <1>8 DEF SessionNext

\* If no wakeup is spurious, and each message is reported rightly when it is read
\* alone, then it is read alone: whatever the relative speed of the threads, the
\* receive buffer holds the message chosen last and nothing else while it is being
\* reported, and the connection is empty before the next one is sent
\* (main.c:119-141).
THEOREM BytesHold ==
  ASSUME Legible, Spurious = {}
  PROVE  SessionSpec => []BytesWithThreads
<1>1. TypeOK /\ CounterInv /\ OrderInv /\ BytesWithThreads /\ [SessionNext]_svars
        => BytesWithThreads'
  BY BytesStep DEF CounterInv
<1>2. QED
  BY <1>1, BytesInit, SessionOrder, PTL DEF SessionSpec

-----------------------------------------------------------------------------
(* The dialogue. *)

\* What the phases say of the turns; outside one of them nothing is said.
Meant ==
  /\ phase = "ended"  <=> AllDead
  /\ phase = "server" <=> ~AllDead /\ ~closed /\ ~MainTurn /\ ~ClientTurn /\ ServerTurn
  /\ phase = "client" <=> ~AllDead /\ ~closed /\ ~MainTurn /\ ClientTurn /\ ~ServerTurn
  /\ ~AllDead /\ ~closed /\ ~MainTurn /\ ~ClientTurn /\ ~ServerTurn => phase = "stalled"
  /\ phase # "server" => topic = "none" /\ heard = {}

\* The phases by the turns they stand for, in both states of a step.
LEMMA PhaseMeans == Meant /\ Meant'
  BY DEF Meant, phase, topic, heard

\* To send is to say something, or nothing leaves and the conversation stalls.
LEMMA SendSays ==
  ASSUME Legible, TypeOK, OrderInv, BytesWithThreads, SendsMessage
  PROVE  Dialogue_!Say \/ Dialogue_!Stall
<1>1. /\ pc["client"] = "send" /\ pc' = [pc EXCEPT !["client"] = "lock"]
      /\ client_wait' /\ ~closed /\ ~closed'
  BY DEF SendsMessage, ClientSends, Step, OrderInv, TurnInv, ExitLabels
<1>2. pc'["client"] = "lock" /\ pc'["main"] = pc["main"] /\ pc'["dispatch"] = pc["dispatch"]
  BY <1>1 DEF TypeOK, Thread
<1>3. ~AllDead /\ ~AllDead'
  BY <1>1, <1>2 DEF AllDead, Thread
<1>4. ~MainTurn /\ ClientTurn /\ ~ServerTurn
  BY <1>1 DEF OrderInv, TurnInv, OneTurn, ClientTurn
<1>5. ~MainTurn' /\ ~ClientTurn' /\ (ServerTurn' <=> stream' > 0) /\ ~DispatchBusy'
  BY <1>1, <1>2, <1>4 DEF MainTurn, ClientTurn, ServerTurn, DispatchBusy
<1>6. phase = "client" /\ topic = "none" /\ heard = {}
  BY <1>1, <1>3, <1>4, PhaseMeans DEF Meant
<1>7. CASE stream' > 0
  <2>1. phase' = "server"
    BY <1>1, <1>3, <1>5, <1>7, PhaseMeans DEF Meant
  <2>2. topic' = chosen' /\ chosen' \in Species \cup {"unset"}
    BY <2>1, MenuChooses DEF topic, SendsMessage
  <2>3. heard' = {}
    BY <1>5 DEF heard, DispatchBusy
  <2>4. QED
    BY <1>6, <2>1, <2>2, <2>3 DEF Dialogue_!Say
<1>8. CASE ~(stream' > 0)
  <2>1. phase' = "stalled"
    BY <1>1, <1>3, <1>5, <1>8, PhaseMeans DEF Meant
  <2>2. topic' = "none" /\ heard' = {}
    BY <2>1 DEF topic, heard
  <2>3. QED
    BY <1>6, <2>1, <2>2 DEF Dialogue_!Stall
<1>9. QED
  BY <1>7, <1>8

\* While a message is on its way or being reported, that is the topic.
LEMMA Speaking ==
  ASSUME TypeOK, OrderInv, BytesWithThreads, ~AllDead, ServerTurn
  PROVE  phase = "server" /\ topic = chosen /\ chosen \in Species \cup {"unset"}
<1>1. chosen \in Species \cup {"unset"} /\ AwaitsReport
  BY DEF BytesWithThreads, ServerTurn, Reporting
<1>2. ~MainTurn /\ ~ClientTurn /\ ~closed
  BY DEF OrderInv, TurnInv, OneTurn, ClientTurn
<1>3. phase = "server"
  BY <1>2, PhaseMeans DEF Meant
<1>4. QED
  BY <1>1, <1>3 DEF topic

\* The report is that of the topic, once.
LEMMA ReportReports ==
  ASSUME Legible, TypeOK, OrderInv, OrderInv', TypeOK', BytesWithThreads, BytesWithThreads',
         ReportsMessage
  PROVE  Dialogue_!Report
<1>1. pc["dispatch"] = "parse" /\ pc'["dispatch"] = "enter" /\ chosen' = chosen
  BY DEF ReportsMessage, DispatchParses, Step, TypeOK, Thread
<1>2. ~AllDead /\ ~AllDead' /\ ServerTurn /\ ServerTurn'
  BY <1>1 DEF AllDead, Thread, ServerTurn, DispatchBusy
<1>3. phase = "server" /\ topic = chosen /\ chosen \in Species \cup {"unset"} /\ heard = {}
  BY <1>1, <1>2, Speaking DEF heard
<1>4. phase' = "server" /\ topic' = topic /\ heard' = printed'
  <2>1. ~MainTurn' /\ ~ClientTurn' /\ ~closed'
    BY <1>2 DEF OrderInv, TurnInv, OneTurn, ClientTurn
  <2>2. phase' = "server"
    BY <1>2, <2>1, PhaseMeans DEF Meant
  <2>3. QED
    BY <1>1, <1>3, <2>2 DEF topic, heard
<1>5. printed' # {} /\ (chosen \in Species => Faithful(chosen, printed'))
  BY <1>1, <1>2 DEF BytesWithThreads
<1>6. QED
  BY <1>3, <1>4, <1>5 DEF Dialogue_!Report

\* A parser crashes on nothing but what an unset pointer sent.
LEMMA CrashAborts ==
  ASSUME Legible, TypeOK, OrderInv, BytesWithThreads, ReportCrashes
  PROVE  Dialogue_!Abort
<1>1. pc["dispatch"] = "parse"
  BY DEF ReportCrashes, DispatchCrashes
<1>2. ~AllDead /\ ServerTurn /\ Reporting
  BY <1>1 DEF AllDead, Thread, ServerTurn, DispatchBusy, Reporting
<1>3. phase = "server" /\ topic = chosen /\ chosen \in Species \cup {"unset"}
  BY <1>2, Speaking
<1>4. chosen \notin Species
  <2>1. buffer \in Said /\ \E n \in Tails : UNDEFINED \in Parse(buffer, n)
    BY <1>2 DEF BytesWithThreads, ReportCrashes
  <2>2. QED
    BY <2>1 DEF Said, Legible, Faithful
<1>5. AllDead'
  BY DEF ReportCrashes, DispatchCrashes, ProcessEnds, AllDead
<1>6. phase' = "ended" /\ topic' = "none" /\ heard' = {}
  BY <1>5, PhaseMeans DEF Meant
<1>7. QED
  BY <1>3, <1>4, <1>6 DEF Dialogue_!Abort

\* To receive and to forget a message changes nothing that is said.
LEMMA ReceiveSilent ==
  ASSUME TypeOK, OrderInv, OrderInv', BytesWithThreads, ReceivesMessage
  PROVE  UNCHANGED <<phase, topic, heard>>
<1>1. pc["dispatch"] = "recv" /\ pc'["dispatch"] = "sleep" /\ chosen' = chosen /\ stream > 0
  BY DEF ReceivesMessage, DispatchReceives, Step, TypeOK, Thread
<1>2. ~AllDead /\ ~AllDead' /\ ServerTurn /\ ServerTurn'
  BY <1>1 DEF AllDead, Thread, ServerTurn, DispatchBusy
<1>3. phase = "server"
  BY <1>2, Speaking
<1>4. phase' = "server"
  <2>1. ~MainTurn' /\ ~ClientTurn' /\ ~closed'
    BY <1>2 DEF OrderInv, TurnInv, OneTurn, ClientTurn
  <2>2. QED
    BY <1>2, <2>1, PhaseMeans DEF Meant
<1>5. QED
  BY <1>1, <1>3, <1>4 DEF topic, heard

\* To clear the buffer for the next message is nothing the dialogue can see.
LEMMA ForgetSilent ==
  ASSUME TypeOK, OrderInv, BytesWithThreads, ForgetsMessage
  PROVE  UNCHANGED <<phase, topic, heard>>
<1>1. /\ pc["dispatch"] = "unlock" /\ pc' = [pc EXCEPT !["dispatch"] = "recv"]
      /\ UNCHANGED <<stream, client_wait, waiters, closed>>
  BY DEF ForgetsMessage, DispatchUnlock, Unlock, Step, socket
<1>2. pc'["client"] = pc["client"] /\ pc'["main"] = pc["main"] /\ pc'["dispatch"] = "recv"
  BY <1>1 DEF TypeOK, Thread
<1>3. ~AllDead /\ ~AllDead' /\ ~DispatchBusy /\ ~DispatchBusy'
  BY <1>1, <1>2 DEF AllDead, Thread, DispatchBusy
<1>4. stream = 0
  BY <1>1, <1>3 DEF BytesWithThreads, Reporting
<1>5. ~ServerTurn /\ ~ServerTurn' /\ MainTurn' = MainTurn /\ ClientTurn' = ClientTurn
  BY <1>1, <1>2, <1>3, <1>4 DEF ServerTurn, MainTurn, ClientTurn
<1>6. phase' = phase /\ phase # "server" /\ phase' # "server"
  BY <1>1, <1>3, <1>5 DEF phase
<1>7. QED
  BY <1>6 DEF topic, heard

\* Every other step of the threads is one of the dialogue or none: the turn leaves
\* the receiver only after the report.
LEMMA SilentDialogue ==
  ASSUME Pieces \subseteq {1}, Spurious = {}, TypeOK, BirthInv, OrderInv, OrderInv',
         BytesWithThreads, Silent
  PROVE  [Dialogue_!Next]_<<phase, topic, heard>>
<1>1. Undisturbed /\ Passes
  BY SilentStep, TurnStep DEF Silent
<1>2. [Console_!Next]_phase
  BY <1>1, PhaseStep DEF OrderInv, TurnInv
<1>3. chosen' = chosen /\ printed' = printed
  BY DEF Silent, content
<1>4. Meant /\ Meant'
  BY PhaseMeans
<1>5. ASSUME phase = "server", phase' # "server"
      PROVE  phase' # "ended" /\ heard # {} /\ topic' = "none" /\ heard' = {}
  <2>1. ~AllDead /\ ServerTurn /\ ~AllDead'
    BY <1>1, <1>4, <1>5 DEF Meant, Undisturbed
  <2>2. closed' => ClientTurn
    BY <1>1, <2>1 DEF Passes
  <2>3. ~ServerTurn'
    <3>1. ASSUME ServerTurn' PROVE ~MainTurn' /\ ~ClientTurn' /\ ~closed'
      BY <3>1 DEF OrderInv, TurnInv, OneTurn, ClientTurn
    <3>2. QED
      BY <3>1, <2>1, <1>4, <1>5 DEF Meant
  <2>4. pc["dispatch"] = "signal"
    BY <1>1, <2>1, <2>3 DEF Undisturbed
  <2>5. heard # {}
    BY <1>5, <2>1, <2>4 DEF heard, BytesWithThreads
  <2>6. QED
    BY <1>4, <1>5, <2>1, <2>5 DEF Meant
<1>6. ASSUME phase = "server", phase' = "server" PROVE UNCHANGED <<phase, topic, heard>>
  <2>1. ~AllDead' /\ ServerTurn /\ ServerTurn' /\ stream' = stream
    BY <1>1, <1>4, <1>6 DEF Meant, Undisturbed
  <2>2. stream > 0 => ~DispatchBusy
    BY DEF OrderInv, TurnInv
  <2>3. pc'["dispatch"] \in {"enter", "signal"} <=> pc["dispatch"] \in {"enter", "signal"}
    <3>1. CASE DispatchBusy'
      BY <1>1, <2>1, <3>1 DEF Undisturbed
    <3>2. CASE ~DispatchBusy'
      BY <2>1, <2>2, <3>2 DEF ServerTurn, DispatchBusy
    <3>3. QED
      BY <3>1, <3>2
  <2>4. QED
    BY <1>3, <1>6, <2>3 DEF topic, heard
<1>7. ASSUME phase # "server" PROVE phase' # "server" /\ topic = "none" /\ heard = {}
  <2>1. CASE AllDead
    BY <1>1, <1>4, <2>1 DEF Meant, Passes
  <2>2. CASE ~AllDead
    <3>1. ASSUME ServerTurn PROVE FALSE
      <4>1. ~MainTurn /\ ~ClientTurn /\ ~closed
        BY <3>1 DEF OrderInv, TurnInv, OneTurn, ClientTurn
      <4>2. QED
        BY <1>4, <1>7, <2>2, <3>1, <4>1 DEF Meant
    <3>2. QED
      BY <1>1, <1>4, <1>7, <3>1 DEF Meant, Undisturbed
  <2>3. QED
    BY <1>4, <1>7, <2>1, <2>2 DEF Meant
<1>8. ASSUME phase' # "server" PROVE topic' = "none" /\ heard' = {}
  BY <1>4, <1>8 DEF Meant
<1>9. CASE phase' = phase
  BY <1>6, <1>7, <1>8, <1>9
<1>10. CASE phase = "server" /\ phase' # "server"
  <2>1. phase' \in {"client", "stalled"}
    BY <1>2, <1>5, <1>10 DEF Console_!Next, Console_!Menu, Console_!Send, Console_!Stall,
                            Console_!Quit, Console_!End, Console_!Abort
  <2>2. QED
    BY <1>5, <1>10, <2>1 DEF Dialogue_!Next, Dialogue_!Menu, Dialogue_!Stall, Dialogue_!Answered
<1>11. CASE phase # "server" /\ phase' # phase
  <2>1. /\ phase' # "server" /\ topic = "none" /\ heard = {}
        /\ topic' = "none" /\ heard' = {}
    BY <1>7, <1>8, <1>11
  <2>2. Console_!Next
    BY <1>2, <1>11
  <2>3. QED
    BY <1>11, <2>1, <2>2
       DEF Console_!Next, Console_!Menu, Console_!Send, Console_!Stall, Console_!Quit,
           Console_!End, Console_!Abort, Dialogue_!Next, Dialogue_!Menu, Dialogue_!Stall,
           Dialogue_!Answered, Dialogue_!Quit, Dialogue_!End, Dialogue_!Abort
<1>12. QED
  BY <1>9, <1>10, <1>11

\* Every step of Session is a step of Dialogue or none.
LEMMA DialogueStep ==
  ASSUME Legible, Spurious = {}, TypeOK, TypeOK', BirthInv, OrderInv, OrderInv',
         BytesWithThreads, BytesWithThreads', [SessionNext]_svars
  PROVE  [Dialogue_!Next]_<<phase, topic, heard>>
<1>1. Pieces \subseteq {1}
  BY SessionAssumption
<1>2. CASE SendsMessage
  BY <1>2, SendSays DEF Dialogue_!Next
<1>3. CASE ReceivesMessage
  BY <1>3, ReceiveSilent
<1>4. CASE ReportsMessage
  BY <1>4, ReportReports DEF Dialogue_!Next
<1>5. CASE ReportCrashes
  BY <1>5, CrashAborts DEF Dialogue_!Next
<1>6. CASE ForgetsMessage
  BY <1>6, ForgetSilent
<1>7. CASE Silent
  BY <1>1, <1>7, SilentDialogue
<1>8. CASE UNCHANGED svars
  BY <1>8 DEF svars, vars, content, sync, terminal, socket, tls, phase, topic, heard, AllDead,
              MainTurn, ClientTurn, ServerTurn, DispatchBusy
<1>9. QED
  BY <1>2, <1>3, <1>4, <1>5, <1>6, <1>7, <1>8 DEF SessionNext

\* If no wakeup is spurious, and each message is reported rightly when it is read
\* alone, then the threads and the messages together implement Dialogue: every
\* message that leaves the menu is reported rightly and once before the next menu or
\* the end, whatever the relative speed of the threads, the user's lines and the
\* system calls that fail (main.c:77-141, 211-251).
THEOREM DialogueImplemented ==
  ASSUME Legible, Spurious = {}
  PROVE  SessionSpec => KeepsDialogue
<1>1. SessionInit => Dialogue_!Init
  BY DEF SessionInit, Init, Dialogue_!Init, phase, topic, heard, AllDead, MainTurn, ClientTurn,
         ServerTurn, DispatchBusy, Thread
<1>2. TypeOK /\ CounterInv /\ OrderInv /\ BytesWithThreads /\ TypeOK' /\ OrderInv'
      /\ BytesWithThreads' /\ [SessionNext]_svars => [Dialogue_!Next]_<<phase, topic, heard>>
  BY DialogueStep DEF CounterInv
<1>3. QED
  BY <1>1, <1>2, SessionOrder, BytesHold, PTL DEF SessionSpec, KeepsDialogue, Dialogue_!Spec

-----------------------------------------------------------------------------
(* Every message is legible. *)

\* Every message, built in memory that held nothing and sent as far as strlen finds it,
\* is reported faithfully when it arrives whole and alone: all its numbers, texts and
\* words and nothing else (_build_*, _send and parse_* of the code), for texts of any
\* length and any number of messages packed in a SYNC-ACK.
THEOREM LegibleHolds == LengthsFit /\ MemoryFits => Legible
<1> SUFFICES ASSUME LengthsFit, MemoryFits PROVE Legible
  OBVIOUS
<1>1. ASSUME NEW s \in Species, NEW bytes \in Sendable[s]
      PROVE  Clean(bytes, s) /\ Len(bytes) < BUFFER_SIZE
  <2>1. PICK rest \in Behind(s, Bytes(s, 0)) :
          bytes = SubSeq(Bytes(s, 0) \o rest, 1, strlen(Bytes(s, 0) \o rest))
    BY <1>1 DEF Sendable
  <2>2. rest \in Row /\ Len(rest) \in Nat \ {0} /\ rest[Len(rest)] = Nul
    BY BehindRow
  <2>3. Clean(bytes, s) /\ Len(bytes) < Len(Bytes(s, 0)) + Len(rest)
    BY <2>1, <2>2, CleanSent
  <2>4. Len(Bytes(s, 0)) + Len(rest) <= BUFFER_SIZE
    BY DEF MemoryFits
  <2>5. Len(bytes) \in Nat /\ Len(Bytes(s, 0)) \in Nat /\ Len(rest) \in Nat
    BY <2>2, <2>3, BytesRow, RowCells DEF Clean
  <2>6. QED
    BY <2>3, <2>4, <2>5, MessagesAssumption
<1>2. BUFFER_SIZE >= 7
  <2>1. "connect" \in Species /\ "connect" \in Loaded
    BY SpeciesAre DEF Loaded
  <2>2. LeftBy("connect", Bytes("connect", 0)) \in Behind("connect", Bytes("connect", 0))
    BY <2>1 DEF Behind
  <2>3. PICK rest : rest \in Behind("connect", Bytes("connect", 0))
    BY <2>2
  <2>4. Len(Bytes("connect", 0)) + Len(rest) <= BUFFER_SIZE
    BY <2>1, <2>3 DEF MemoryFits
  <2>5. Len(Bytes("connect", 0)) \in Nat /\ Len(rest) \in Nat /\ Own("connect") \in Nat
        /\ Own("connect") >= 7 /\ Own("connect") <= Len(Bytes("connect", 0))
    <3>1. rest \in Row /\ Len(rest) \in Nat
      BY <2>1, <2>3, BehindRow
    <3>2. Len(Bytes("connect", 0)) \in Nat
      BY <2>1, BytesRow, RowCells
    <3>3. Own("connect") \in Nat /\ Own("connect") >= 7
      BY <2>1, OwnLong
    <3>4. Own("connect") <= Len(Bytes("connect", 0))
      BY <2>1, OwnRow
    <3>5. QED
      BY <3>1, <3>2, <3>3, <3>4
  <2>6. QED
    BY <2>4, <2>5, MessagesAssumption
<1>3. ASSUME NEW s \in Species, NEW bytes \in Sendable[s]
      PROVE  /\ bytes \in Seq(Range(bytes)) /\ Len(bytes) \in 1..BUFFER_SIZE
             /\ \A n \in Tails : Faithful(s, Parse(bytes, n))
  <2>1. Clean(bytes, s) /\ Len(bytes) < BUFFER_SIZE
    BY <1>1
  <2>2. bytes \in Seq(CellType) /\ Len(bytes) \in Nat /\ 1 <= Len(bytes)
    <3>1. /\ bytes \in Row /\ Len(bytes) \in Nat
          /\ Own(s) \in Nat \ {0} /\ Own(s) <= Len(bytes)
      BY <2>1 DEF Clean
    <3>2. QED
      BY <3>1 DEF Row
  <2>3. bytes \in Seq(Range(bytes))
    <3>1. bytes = [p \in 1..Len(bytes) |-> bytes[p]] /\ DOMAIN bytes = 1..Len(bytes)
      BY <2>2
    <3>2. \A p \in 1..Len(bytes) : bytes[p] \in Range(bytes)
      BY <3>1 DEF Range
    <3>3. bytes \in [1..Len(bytes) -> Range(bytes)]
      BY <3>1, <3>2
    <3>4. QED
      BY <2>2, <3>3
  <2>4. Len(bytes) \in 1..BUFFER_SIZE
    BY <2>1, <2>2, MessagesAssumption
  <2>5. \A n \in Tails : Faithful(s, Parse(bytes, n))
    BY <2>1, CleanReport
  <2>6. QED
    BY <2>3, <2>4, <2>5
<1>4. QED
  BY <1>2, <1>3 DEF Legible

=============================================================================
