---------------------------- MODULE ConsoleProofs ----------------------------
(* The threads implement Console: every step of Threads is a step of it or a    *)
(* stutter, for every value of the constants that TurnsHold allows.             *)
EXTENDS ThreadsProofs

\* What one step may do to the turns: main's turn and the open connection never
\* come back, the user quits at the menu only, and a conversation in which no side
\* has the turn stays so.
Passes ==
  /\ closed => closed'
  /\ AllDead => AllDead'
  /\ ~AllDead' /\ MainTurn' => MainTurn
  /\ ~AllDead' /\ closed' => ClientTurn
  /\ ~AllDead' /\ ~closed' /\ ClientTurn' => MainTurn \/ ClientTurn \/ ServerTurn
  /\ ~AllDead' /\ ~closed' /\ ServerTurn' => ClientTurn \/ ServerTurn

\* Every step passes the turn so.
LEMMA TurnStep ==
  ASSUME Pieces \subseteq {1}, Spurious = {}, TypeOK, BirthInv, OrderInv, [Next]_vars
  PROVE  Passes
  <1> USE DEF TypeOK, MainLabel, ClientLabel, DispatchLabel, Thread, Mutex, Cond, NoThread, ExitLabels,
              AllDead, Step, OrderInv, TurnInv, QuitInv, MutexInv, Holds, MainTurn, ClientTurn,
              ServerTurn, DispatchBusy, BirthInv, Passes
  <1>1. ASSUME NEW t \in Thread, Ending(t) PROVE Passes
    <2>1. CASE ThreadExit(t)
      BY <2>1 DEF ThreadExit, sync, terminal, socket
    <2>2. CASE DestructorLock(t)
      BY <2>2 DEF DestructorLock, Lock, terminal, socket, tls
    <2>3. CASE DestructorLoad(t)
      BY <2>3 DEF DestructorLoad, sync, terminal, socket
    <2>4. CASE DestructorStore(t)
      BY <2>4 DEF DestructorStore, sync, terminal, socket
    <2>5. CASE DestructorTest(t)
      BY <2>5 DEF DestructorTest, sync, terminal, socket
    <2>6. CASE DestructorUnlock(t)
      BY <2>6 DEF DestructorUnlock, Unlock, terminal, socket, tls
    <2>7. QED
      BY <1>1, <2>1, <2>2, <2>3, <2>4, <2>5, <2>6 DEF Ending
  <1>2. CASE Main
    <2>1. CASE MainStart
      BY <2>1 DEF MainStart, sync, terminal, socket
    <2>2. CASE MainOnceHangs
      BY <2>2 DEF MainOnceHangs, sync, terminal, socket, tls
    <2>3. CASE MainFails
      BY <2>3 DEF MainFails, ProcessEnds, sync, terminal, socket, tls
    <2>4. CASE MainSleep
      BY <2>4 DEF MainSleep, sync, terminal, socket, tls
    <2>5. CASE MainAccept
      BY <2>5 DEF MainAccept, sync, terminal, socket, tls
    <2>6. CASE MainAcceptAgain
      BY <2>6 DEF MainAcceptAgain, vars, sync, terminal, socket, tls
    <2>7. CASE MainLockS
      BY <2>7 DEF MainLockS, Lock, terminal, socket, tls
    <2>8. CASE MainSignal
      BY <2>8 DEF MainSignal, Signal, terminal, socket, tls
    <2>9. CASE MainUnlockS
      BY <2>9 DEF MainUnlockS, Unlock, terminal, socket, tls
    <2>10. CASE MainLockG
      BY <2>10 DEF MainLockG, Lock, terminal, socket, tls
    <2>11. CASE MainWait
      BY <2>11 DEF MainWait, Wait, terminal, socket, tls
    <2>12. CASE MainWake
      BY <2>12 DEF MainWake, Wake, Lock, terminal, socket, tls
    <2>13. CASE MainClose
      BY <2>13 DEF MainClose, Unlock, terminal, socket, tls
    <2>14. CASE MainCancel
      BY <2>14 DEF MainCancel, sync, terminal, socket, tls
    <2>15. CASE MainDestroy
      BY <2>15 DEF MainDestroy, DestroyCond, DestroyMutex, sync, terminal, socket, tls
    <2>16. CASE Ending("main")
      BY <2>16, <1>1 DEF Thread
    <2>17. QED
      BY <1>2, <2>1, <2>2, <2>3, <2>4, <2>5, <2>6, <2>7, <2>8, <2>9, <2>10, <2>11, <2>12, <2>13, <2>14, <2>15, <2>16 DEF Main
  <1>3. CASE Client
    <2>1. CASE ClientStart
      BY <2>1 DEF ClientStart, sync, terminal, socket
    <2>2. CASE ClientConnect
      BY <2>2 DEF ClientConnect, SetSpecific, sync, terminal
    <2>3. CASE ClientConnectFails
      BY <2>3 DEF ClientConnectFails, sync, terminal, socket, tls
    <2>4. CASE ClientLock
      BY <2>4 DEF ClientLock, Lock, terminal, socket, tls
    <2>5. CASE ClientWait
      BY <2>5 DEF ClientWait, Wait, terminal, socket, tls
    <2>6. CASE ClientDoesNotWait
      BY <2>6 DEF ClientDoesNotWait, sync, terminal, socket, tls
    <2>7. CASE ClientWake
      BY <2>7 DEF ClientWake, Wake, Lock, terminal, socket, tls
    <2>8. CASE ClientPrompt
      BY <2>8 DEF ClientPrompt, Unlock, terminal, socket, tls
    <2>9. CASE ClientReadsOption
      BY <2>9 DEF ClientReadsOption, GetChar, sync, socket, tls
    <2>10. CASE ClientQuits
      BY <2>10 DEF ClientQuits, GetChar, sync, tls
    <2>11. CASE ClientRejects
      BY <2>11 DEF ClientRejects, GetChar, sync, socket, tls
    <2>12. CASE ClientChooses
      BY <2>12 DEF ClientChooses, GetChar, sync, socket, tls
    <2>13. CASE ClientReadsSpecies
      BY <2>13 DEF ClientReadsSpecies, GetChar, sync, socket, tls
    <2>14. CASE ClientSends
      BY <2>14 DEF ClientSends, sync, terminal, tls
    <2>15. CASE ClientCrashes
      BY <2>15 DEF ClientCrashes, ProcessEnds, sync, terminal, socket, tls
    <2>16. CASE ClientSignals
      BY <2>16 DEF ClientSignals, Lock, Signal, Unlock, terminal, socket, tls
    <2>17. CASE Ending("client")
      BY <2>17, <1>1 DEF Thread
    <2>18. QED
      BY <1>3, <2>1, <2>2, <2>3, <2>4, <2>5, <2>6, <2>7, <2>8, <2>9, <2>10, <2>11, <2>12, <2>13, <2>14, <2>15, <2>16, <2>17 DEF Client
  <1>4. CASE Dispatch
    <2>1. CASE DispatchStart
      BY <2>1 DEF DispatchStart, SetSpecific, sync, terminal, socket
    <2>2. CASE DispatchReceives
      BY <2>2 DEF DispatchReceives, sync, terminal, tls
    <2>3. CASE DispatchSpins
      BY <2>3 DEF DispatchSpins, vars, sync, terminal, socket, tls
    <2>4. CASE DispatchSleeps
      BY <2>4 DEF DispatchSleeps, sync, terminal, socket, tls
    <2>5. CASE DispatchLock
      BY <2>5 DEF DispatchLock, Lock, terminal, socket, tls
    <2>6. CASE DispatchParses
      BY <2>6 DEF DispatchParses, sync, terminal, socket, tls
    <2>7. CASE DispatchReadsEnter
      BY <2>7 DEF DispatchReadsEnter, GetChar, sync, socket, tls
    <2>8. CASE DispatchSignal
      BY <2>8 DEF DispatchSignal, Signal, terminal, socket, tls
    <2>9. CASE DispatchUnlock
      BY <2>9 DEF DispatchUnlock, Unlock, terminal, socket, tls
    <2>10. CASE DispatchCancelled
      BY <2>10 DEF DispatchCancelled, sync, terminal, socket, tls
    <2>11. CASE Ending("dispatch")
      BY <2>11, <1>1 DEF Thread
    <2>12. CASE DispatchCrashes
      BY <2>12 DEF DispatchCrashes, ProcessEnds, sync, terminal, socket, tls
    <2>13. QED
      BY <1>4, <2>1, <2>2, <2>3, <2>4, <2>5, <2>6, <2>7, <2>8, <2>9, <2>10, <2>11, <2>12 DEF Dispatch
  <1>5. CASE UserTypes
    BY <1>5 DEF UserTypes, sync, socket, tls
  <1>6. CASE SpuriousWakeup
    BY <1>6 DEF SpuriousWakeup, terminal, socket, tls
  <1>7. CASE UNCHANGED vars
    BY <1>7 DEF vars, sync, terminal, socket, tls
  <1>8. QED
    BY <1>2, <1>3, <1>4, <1>5, <1>6, <1>7 DEF Next, Terminated

\* What the turns may do is what the phases of Console may do, as long as two
\* sides never have the turn.
LEMMA PhaseStep ==
  ASSUME OneTurn, OneTurn', Passes
  PROVE  [Console_!Next]_phase
  <1> USE DEF Passes, OneTurn, phase, Console_!Next, Console_!Menu, Console_!Send, Console_!Stall,
              Console_!Quit, Console_!End, Console_!Abort
  <1>1. CASE AllDead'
    <2>1. phase' = "ended" /\ phase \in {"starting", "client", "server", "stalled", "closing", "ended"}
      BY <1>1
    <2>2. QED
      BY <2>1
  <1>2. CASE ~AllDead' /\ closed'
    BY <1>2
  <1>3. CASE ~AllDead' /\ ~closed'
    BY <1>3
  <1>4. QED
    BY <1>1, <1>2, <1>3

\* If every recv returns a whole message and no wakeup is spurious, the threads
\* implement Console, whatever their relative speed, the user and the failures: the
\* conversation may stall, but never goes wrong in another way (main.c:93-141,
\* 211-251).
THEOREM ConsoleImplemented ==
  ASSUME Pieces \subseteq {1}, Spurious = {}
  PROVE  Spec => KeepsOrder
  <1>1. Init => Console_!Init
    BY DEF Init, Console_!Init, phase, AllDead, MainTurn, ClientTurn, ServerTurn, DispatchBusy, Thread
  <1>2. TypeOK /\ CounterInv /\ OrderInv /\ OrderInv' /\ [Next]_vars => [Console_!Next]_phase
    BY TurnStep, PhaseStep DEF CounterInv, OrderInv, TurnInv
  <1>3. QED
    BY <1>1, <1>2, TypeAndCounter, OrderHolds, PTL DEF Spec, KeepsOrder, Console_!SafeSpec

=============================================================================
