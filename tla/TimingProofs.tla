---------------------------- MODULE TimingProofs ----------------------------
(* What the sleeps are for: under the timing of Timely no signal is lost, and the  *)
(* conversation never stalls.                                                      *)
EXTENDS ConsoleProofs

\* Every step keeps that whoever is about to be signalled waits already.
LEMMA ArrivalStep ==
  ASSUME {"sleep", "typing"} \subseteq Timely, Pieces \subseteq {1}, Spurious = {},
         TypeOK, BirthInv, OrderInv, ArrivalInv, [Next]_vars
  PROVE  ArrivalInv'
  <1> USE DEF TypeOK, MainLabel, ClientLabel, DispatchLabel, Thread, Mutex, Cond, NoThread, ExitLabels,
              AllDead, Step, OrderInv, TurnInv, QuitInv, MutexInv, OneTurn, MainTurn, ClientTurn,
              ServerTurn, DispatchBusy, BirthInv, ArrivalInv, ClientReads, DispatchReads
  <1>1. ASSUME NEW t \in Thread, Ending(t) PROVE ArrivalInv'
    <2>1. CASE ThreadExit(t)
      BY <2>1 DEF ThreadExit, sync, terminal, socket
    <2>2. CASE DestructorLock(t)
      BY <2>2 DEF DestructorLock, Lock, terminal, socket, tls
    <2>3. CASE DestructorLoad(t)
      BY <2>3 DEF DestructorLoad, sync, terminal, socket
    <2>4. CASE DestructorStore(t)
      BY <2>4 DEF DestructorStore, sync, terminal, socket
    <2>5. CASE DestructorTest(t)
      BY <2>5 DEF DestructorTest, sync, terminal, socket
    <2>6. CASE DestructorUnlock(t)
      BY <2>6 DEF DestructorUnlock, Unlock, terminal, socket, tls
    <2>7. QED
      BY <1>1, <2>1, <2>2, <2>3, <2>4, <2>5, <2>6 DEF Ending
  <1>2. CASE Main
    <2>1. CASE MainStart
      BY <2>1 DEF MainStart, sync, terminal, socket
    <2>2. CASE MainOnceHangs
      BY <2>2 DEF MainOnceHangs, sync, terminal, socket, tls
    <2>3. CASE MainFails
      BY <2>3 DEF MainFails, ProcessEnds, sync, terminal, socket, tls
    <2>4. CASE MainSleep
      BY <2>4 DEF MainSleep, Slept, sync, terminal, socket, tls
    <2>5. CASE MainAccept
      BY <2>5 DEF MainAccept, sync, terminal, socket, tls
    <2>6. CASE MainAcceptAgain
      BY <2>6 DEF MainAcceptAgain, vars, sync, terminal, socket, tls
    <2>7. CASE MainLockS
      BY <2>7 DEF MainLockS, Lock, terminal, socket, tls
    <2>8. CASE MainSignal
      BY <2>8 DEF MainSignal, Signal, terminal, socket, tls
    <2>9. CASE MainUnlockS
      BY <2>9 DEF MainUnlockS, Unlock, terminal, socket, tls
    <2>10. CASE MainLockG
      BY <2>10 DEF MainLockG, Lock, terminal, socket, tls
    <2>11. CASE MainWait
      BY <2>11 DEF MainWait, Wait, terminal, socket, tls
    <2>12. CASE MainWake
      BY <2>12 DEF MainWake, Wake, Lock, terminal, socket, tls
    <2>13. CASE MainClose
      BY <2>13 DEF MainClose, Unlock, terminal, socket, tls
    <2>14. CASE MainCancel
      BY <2>14 DEF MainCancel, sync, terminal, socket, tls
    <2>15. CASE MainDestroy
      BY <2>15 DEF MainDestroy, DestroyCond, DestroyMutex, sync, terminal, socket, tls
    <2>16. CASE Ending("main")
      BY <2>16, <1>1 DEF Thread
    <2>17. QED
      BY <1>2, <2>1, <2>2, <2>3, <2>4, <2>5, <2>6, <2>7, <2>8, <2>9, <2>10, <2>11, <2>12, <2>13, <2>14, <2>15, <2>16 DEF Main
  <1>3. CASE Client
    <2>1. CASE ClientStart
      BY <2>1 DEF ClientStart, sync, terminal, socket
    <2>2. CASE ClientConnect
      BY <2>2 DEF ClientConnect, SetSpecific, sync, terminal
    <2>3. CASE ClientConnectFails
      BY <2>3 DEF ClientConnectFails, sync, terminal, socket, tls
    <2>4. CASE ClientLock
      BY <2>4 DEF ClientLock, Lock, terminal, socket, tls
    <2>5. CASE ClientWait
      BY <2>5 DEF ClientWait, Wait, terminal, socket, tls
    <2>6. CASE ClientDoesNotWait
      BY <2>6 DEF ClientDoesNotWait, sync, terminal, socket, tls
    <2>7. CASE ClientWake
      BY <2>7 DEF ClientWake, Wake, Lock, terminal, socket, tls
    <2>8. CASE ClientPrompt
      BY <2>8 DEF ClientPrompt, Unlock, terminal, socket, tls
    <2>9. CASE ClientReadsOption
      BY <2>9 DEF ClientReadsOption, GetChar, sync, socket, tls
    <2>10. CASE ClientQuits
      <3>1. /\ pc["client"] = "option_nl" /\ pc' = [pc EXCEPT !["client"] = "q_lock"] /\ tty # <<>>
            /\ UNCHANGED <<waiters, stream>>
        BY <2>10 DEF ClientQuits, GetChar, sync
      <3>2. pc'["client"] = "q_lock" /\ pc'["main"] = pc["main"] /\ pc'["dispatch"] = pc["dispatch"]
        BY <3>1
      <3>3. ClientTurn /\ ~MainTurn /\ ~ServerTurn
        BY <3>1
      <3>4. ~closed
        BY <3>1
      <3>5. pc["main"] = "g_waiting" /\ "main" \in waiters["g_cond"]
        <4>1. pc["main"] \notin {"start", "sleep", "accept", "s_lock", "s_signal",
                                "s_unlock", "g_lock", "g_wait", "hung"}
          BY <3>1, <3>3
        <4>2. ~ShuttingDown /\ pc["main"] \notin ExitLabels
          BY <3>1, <3>4 DEF ShutdownOnlyAfterQuit, ShuttingDown
        <4>3. QED
          BY <4>1, <4>2, <3>4 DEF ShuttingDown
      <3>6. "client" \notin waiters["s_to_c_cond"]
        BY <3>1
      <3>7. QED
        BY <3>1, <3>2, <3>3, <3>5, <3>6
    <2>11. CASE ClientRejects
      BY <2>11 DEF ClientRejects, GetChar, sync, socket, tls
    <2>12. CASE ClientChooses
      BY <2>12 DEF ClientChooses, GetChar, sync, socket, tls
    <2>13. CASE ClientReadsSpecies
      BY <2>13 DEF ClientReadsSpecies, GetChar, sync, socket, tls
    <2>14. CASE ClientSends
      BY <2>14 DEF ClientSends, sync, terminal, tls
    <2>15. CASE ClientCrashes
      BY <2>15 DEF ClientCrashes, ProcessEnds, sync, terminal, socket, tls
    <2>16. CASE ClientSignals
      BY <2>16 DEF ClientSignals, Lock, Signal, Unlock, terminal, socket, tls
    <2>17. CASE Ending("client")
      BY <2>17, <1>1 DEF Thread
    <2>18. QED
      BY <1>3, <2>1, <2>2, <2>3, <2>4, <2>5, <2>6, <2>7, <2>8, <2>9, <2>10, <2>11, <2>12, <2>13, <2>14, <2>15, <2>16, <2>17 DEF Client
  <1>4. CASE Dispatch
    <2>1. CASE DispatchStart
      BY <2>1 DEF DispatchStart, SetSpecific, sync, terminal, socket
    <2>2. CASE DispatchReceives
      BY <2>2 DEF DispatchReceives, sync, terminal, tls
    <2>3. CASE DispatchSpins
      BY <2>3 DEF DispatchSpins, vars, sync, terminal, socket, tls
    <2>4. CASE DispatchSleeps
      BY <2>4 DEF DispatchSleeps, Slept, sync, terminal, socket, tls
    <2>5. CASE DispatchLock
      BY <2>5 DEF DispatchLock, Lock, terminal, socket, tls
    <2>6. CASE DispatchParses
      BY <2>6 DEF DispatchParses, sync, terminal, socket, tls
    <2>7. CASE DispatchReadsEnter
      BY <2>7 DEF DispatchReadsEnter, GetChar, sync, socket, tls
    <2>8. CASE DispatchSignal
      BY <2>8 DEF DispatchSignal, Signal, terminal, socket, tls
    <2>9. CASE DispatchUnlock
      BY <2>9 DEF DispatchUnlock, Unlock, terminal, socket, tls
    <2>10. CASE DispatchCancelled
      BY <2>10 DEF DispatchCancelled, sync, terminal, socket, tls
    <2>11. CASE Ending("dispatch")
      BY <2>11, <1>1 DEF Thread
    <2>12. CASE DispatchCrashes
      BY <2>12 DEF DispatchCrashes, ProcessEnds, sync, terminal, socket, tls
    <2>13. QED
      BY <1>4, <2>1, <2>2, <2>3, <2>4, <2>5, <2>6, <2>7, <2>8, <2>9, <2>10, <2>11, <2>12 DEF Dispatch
  <1>5. CASE UserTypes
    BY <1>5 DEF UserTypes, sync, socket, tls
  <1>6. CASE SpuriousWakeup
    BY <1>6 DEF SpuriousWakeup, terminal, socket, tls
  <1>7. CASE UNCHANGED vars
    BY <1>7 DEF vars, sync, terminal, socket, tls
  <1>8. QED
    BY <1>2, <1>3, <1>4, <1>5, <1>6, <1>7 DEF Next, Terminated

\* If every recv returns a whole message and no wakeup is spurious, and the sleeps and
\* the user are slow, whoever is about to be signalled waits already.
THEOREM ArrivalHolds ==
  ASSUME {"sleep", "typing"} \subseteq Timely, Pieces \subseteq {1}, Spurious = {}
  PROVE  Spec => []ArrivalInv
<1>1. Init => ArrivalInv
  BY DEF Init, ArrivalInv, AllDead, Thread, Cond
<1>2. TypeOK /\ CounterInv /\ OrderInv /\ ArrivalInv /\ [Next]_vars => ArrivalInv'
  BY ArrivalStep DEF CounterInv
<1>3. QED
  BY <1>1, <1>2, TypeAndCounter, OrderHolds, PTL DEF Spec

\* If every recv returns a whole message and no wakeup is spurious, and the sleeps
\* and the user's typing are slow compared with the steps of a thread, every signal
\* finds the thread it is for waiting: main's and dispatch_f's to the client
\* (main.c:139, 236), and the client's to main (main.c:97).
THEOREM SignalsArriveHolds ==
  ASSUME {"sleep", "typing"} \subseteq Timely, Pieces \subseteq {1}, Spurious = {}
  PROVE  Spec => SignalsArrive
<1> DEFINE Arrives ==
      \A t \in Thread :
        /\ pc[t] \in {"s_signal", "signal"} /\ pc'[t] # pc[t]
             => "client" \in waiters["s_to_c_cond"]
        /\ pc[t] = "q_signal" /\ pc'[t] # pc[t] => "main" \in waiters["g_cond"]
<1>1. TypeOK /\ ArrivalInv /\ [Next]_vars => [Arrives]_vars
  BY DEF TypeOK, ArrivalInv, Thread, MainLabel, ClientLabel, DispatchLabel, ExitLabels
<1>2. QED
  BY <1>1, TypeAndCounter, ArrivalHolds, PTL DEF Spec, SignalsArrive

-----------------------------------------------------------------------------
(* The turn is always with somebody. *)

\* Every step hands the turn on.
LEMMA HeldStep ==
  ASSUME {"sleep", "typing"} \subseteq Timely, Pieces \subseteq {1}, Spurious = {},
         "send" \notin Failures, "hang" \notin OnceOutcomes, Lines \subseteq Seq(Char \ {"push"}),
         TypeOK, BirthInv, OrderInv, ArrivalInv, HeldInv, [Next]_vars
  PROVE  HeldInv'
  <1> USE DEF TypeOK, MainLabel, ClientLabel, DispatchLabel, Thread, Mutex, Cond, NoThread, ExitLabels,
              AllDead, Step, OrderInv, TurnInv, QuitInv, MutexInv, OneTurn, MainTurn, ClientTurn,
              ServerTurn, DispatchBusy, BirthInv, ArrivalInv, HeldInv
  <1>1. ASSUME NEW t \in Thread, Ending(t) PROVE HeldInv'
    <2>1. CASE ThreadExit(t)
      BY <2>1 DEF ThreadExit, sync, terminal, socket
    <2>2. CASE DestructorLock(t)
      BY <2>2 DEF DestructorLock, Lock, terminal, socket, tls
    <2>3. CASE DestructorLoad(t)
      BY <2>3 DEF DestructorLoad, sync, terminal, socket
    <2>4. CASE DestructorStore(t)
      BY <2>4 DEF DestructorStore, sync, terminal, socket
    <2>5. CASE DestructorTest(t)
      BY <2>5 DEF DestructorTest, sync, terminal, socket
    <2>6. CASE DestructorUnlock(t)
      BY <2>6 DEF DestructorUnlock, Unlock, terminal, socket, tls
    <2>7. QED
      BY <1>1, <2>1, <2>2, <2>3, <2>4, <2>5, <2>6 DEF Ending
  <1>2. CASE Main
    <2>1. CASE MainStart
      BY <2>1 DEF MainStart, sync, terminal, socket
    <2>2. CASE MainOnceHangs
      BY <2>2 DEF MainOnceHangs, sync, terminal, socket, tls
    <2>3. CASE MainFails
      BY <2>3 DEF MainFails, ProcessEnds, sync, terminal, socket, tls
    <2>4. CASE MainSleep
      BY <2>4 DEF MainSleep, sync, terminal, socket, tls
    <2>5. CASE MainAccept
      BY <2>5 DEF MainAccept, sync, terminal, socket, tls
    <2>6. CASE MainAcceptAgain
      BY <2>6 DEF MainAcceptAgain, vars, sync, terminal, socket, tls
    <2>7. CASE MainLockS
      BY <2>7 DEF MainLockS, Lock, terminal, socket, tls
    <2>8. CASE MainSignal
      BY <2>8 DEF MainSignal, Signal, terminal, socket, tls
    <2>9. CASE MainUnlockS
      BY <2>9 DEF MainUnlockS, Unlock, terminal, socket, tls
    <2>10. CASE MainLockG
      BY <2>10 DEF MainLockG, Lock, terminal, socket, tls
    <2>11. CASE MainWait
      BY <2>11 DEF MainWait, Wait, terminal, socket, tls
    <2>12. CASE MainWake
      BY <2>12 DEF MainWake, Wake, Lock, terminal, socket, tls
    <2>13. CASE MainClose
      BY <2>13 DEF MainClose, Unlock, terminal, socket, tls
    <2>14. CASE MainCancel
      BY <2>14, ThreadsAssumption DEF MainCancel, sync, terminal, socket, tls
    <2>15. CASE MainDestroy
      BY <2>15 DEF MainDestroy, DestroyCond, DestroyMutex, sync, terminal, socket, tls
    <2>16. CASE Ending("main")
      BY <2>16, <1>1 DEF Thread
    <2>17. QED
      BY <1>2, <2>1, <2>2, <2>3, <2>4, <2>5, <2>6, <2>7, <2>8, <2>9, <2>10, <2>11, <2>12, <2>13, <2>14, <2>15, <2>16 DEF Main
  <1>3. CASE Client
    <2>1. CASE ClientStart
      BY <2>1 DEF ClientStart, sync, terminal, socket
    <2>2. CASE ClientConnect
      BY <2>2 DEF ClientConnect, SetSpecific, sync, terminal
    <2>3. CASE ClientConnectFails
      BY <2>3 DEF ClientConnectFails, sync, terminal, socket, tls
    <2>4. CASE ClientLock
      BY <2>4 DEF ClientLock, Lock, terminal, socket, tls
    <2>5. CASE ClientWait
      BY <2>5 DEF ClientWait, Wait, terminal, socket, tls
    <2>6. CASE ClientDoesNotWait
      BY <2>6 DEF ClientDoesNotWait, sync, terminal, socket, tls
    <2>7. CASE ClientWake
      BY <2>7 DEF ClientWake, Wake, Lock, terminal, socket, tls
    <2>8. CASE ClientPrompt
      BY <2>8 DEF ClientPrompt, Unlock, terminal, socket, tls
    <2>9. CASE ClientReadsOption
      BY <2>9 DEF ClientReadsOption, GetChar, sync, socket, tls
    <2>10. CASE ClientQuits
      BY <2>10 DEF ClientQuits, GetChar, sync, tls
    <2>11. CASE ClientRejects
      BY <2>11 DEF ClientRejects, GetChar, sync, socket, tls
    <2>12. CASE ClientChooses
      BY <2>12 DEF ClientChooses, GetChar, sync, socket, tls
    <2>13. CASE ClientReadsSpecies
      BY <2>13 DEF ClientReadsSpecies, GetChar, sync, socket, tls
    <2>14. CASE ClientSends
      BY <2>14, ThreadsAssumption DEF ClientSends, NothingSent, Unset, sync, terminal, tls
    <2>15. CASE ClientCrashes
      BY <2>15 DEF ClientCrashes, ProcessEnds, sync, terminal, socket, tls
    <2>16. CASE ClientSignals
      BY <2>16 DEF ClientSignals, Lock, Signal, Unlock, terminal, socket, tls
    <2>17. CASE Ending("client")
      BY <2>17, <1>1 DEF Thread
    <2>18. QED
      BY <1>3, <2>1, <2>2, <2>3, <2>4, <2>5, <2>6, <2>7, <2>8, <2>9, <2>10, <2>11, <2>12, <2>13, <2>14, <2>15, <2>16, <2>17 DEF Client
  <1>4. CASE Dispatch
    <2>1. CASE DispatchStart
      BY <2>1 DEF DispatchStart, SetSpecific, sync, terminal, socket
    <2>2. CASE DispatchReceives
      BY <2>2 DEF DispatchReceives, sync, terminal, tls
    <2>3. CASE DispatchSpins
      BY <2>3 DEF DispatchSpins, vars, sync, terminal, socket, tls
    <2>4. CASE DispatchSleeps
      BY <2>4 DEF DispatchSleeps, sync, terminal, socket, tls
    <2>5. CASE DispatchLock
      BY <2>5 DEF DispatchLock, Lock, terminal, socket, tls
    <2>6. CASE DispatchParses
      BY <2>6 DEF DispatchParses, sync, terminal, socket, tls
    <2>7. CASE DispatchReadsEnter
      BY <2>7 DEF DispatchReadsEnter, GetChar, sync, socket, tls
    <2>8. CASE DispatchSignal
      BY <2>8 DEF DispatchSignal, Signal, terminal, socket, tls
    <2>9. CASE DispatchUnlock
      BY <2>9 DEF DispatchUnlock, Unlock, terminal, socket, tls
    <2>10. CASE DispatchCancelled
      BY <2>10 DEF DispatchCancelled, sync, terminal, socket, tls
    <2>11. CASE Ending("dispatch")
      BY <2>11, <1>1 DEF Thread
    <2>12. CASE DispatchCrashes
      BY <2>12 DEF DispatchCrashes, ProcessEnds, sync, terminal, socket, tls
    <2>13. QED
      BY <1>4, <2>1, <2>2, <2>3, <2>4, <2>5, <2>6, <2>7, <2>8, <2>9, <2>10, <2>11, <2>12 DEF Dispatch
  <1>5. CASE UserTypes
    BY <1>5 DEF UserTypes, sync, socket, tls
  <1>6. CASE SpuriousWakeup
    BY <1>6 DEF SpuriousWakeup, terminal, socket, tls
  <1>7. CASE UNCHANGED vars
    BY <1>7 DEF vars, sync, terminal, socket, tls
  <1>8. QED
    BY <1>2, <1>3, <1>4, <1>5, <1>6, <1>7 DEF Next, Terminated

\* If besides no send fails, nobody asks for PUSH and pthread_once returns, somebody
\* has the turn at any time.
THEOREM HeldHolds ==
  ASSUME {"sleep", "typing"} \subseteq Timely, Pieces \subseteq {1}, Spurious = {},
         "send" \notin Failures, "hang" \notin OnceOutcomes, Lines \subseteq Seq(Char \ {"push"})
  PROVE  Spec => []HeldInv
<1>1. Init => HeldInv
  BY DEF Init, HeldInv, MainTurn, Thread, Char
<1>2. TypeOK /\ CounterInv /\ OrderInv /\ ArrivalInv /\ HeldInv /\ [Next]_vars => HeldInv'
  BY HeldStep DEF CounterInv
<1>3. QED
  BY <1>1, <1>2, TypeAndCounter, OrderHolds, ArrivalHolds, PTL DEF Spec

\* If besides no send fails, no answer leaves the message unset and pthread_once
\* returns, the threads keep the safety part of Console's promise: the conversation
\* never stalls, every message sent leads back to the menu and never elsewhere
\* (main.c:77-141, 211-251).
THEOREM PromiseSafe ==
  ASSUME {"sleep", "typing"} \subseteq Timely, Pieces \subseteq {1}, Spurious = {},
         "send" \notin Failures, "hang" \notin OnceOutcomes, Lines \subseteq Seq(Char \ {"push"})
  PROVE  Spec => NeverStalls
<1>1. Init => Timely_Console!Init
  BY DEF Init, Timely_Console!Init, phase, AllDead, MainTurn, ClientTurn, ServerTurn, DispatchBusy,
         Thread
<1>2. TypeOK /\ CounterInv /\ OrderInv /\ OrderInv' /\ HeldInv' /\ [Next]_vars
        => [Timely_Console!Next]_phase
  <2>1. SUFFICES ASSUME TypeOK, CounterInv, OrderInv, OrderInv', HeldInv', [Next]_vars
                 PROVE  [Timely_Console!Next]_phase
    OBVIOUS
  <2>2. [Console_!Next]_phase
    BY <2>1, TurnStep, PhaseStep DEF CounterInv, OrderInv, TurnInv
  <2>3. phase' # "stalled"
    BY <2>1 DEF HeldInv, phase, ClientTurn
  <2>4. QED
    BY <2>2, <2>3 DEF Console_!Next, Console_!Menu, Console_!Send, Console_!Stall, Console_!Quit,
                      Console_!End, Console_!Abort,
                      Timely_Console!Next, Timely_Console!Menu, Timely_Console!Send,
                      Timely_Console!Stall, Timely_Console!Quit, Timely_Console!End,
                      Timely_Console!Abort
<1>3. QED
  BY <1>1, <1>2, TypeAndCounter, OrderHolds, HeldHolds, PTL
     DEF Spec, NeverStalls, Timely_Console!SafeSpec

=============================================================================
