--------------------------- MODULE ThreadsProofs ---------------------------
(* Proofs about Threads, for every value of its constants. *)
EXTENDS Threads, TLAPS

\* The initial state has its types.
LEMMA TypeInit == Init => TypeOK
  <1> SUFFICES ASSUME Init PROVE TypeOK
    OBVIOUS
  <1> USE DEF Init
  <1>1. /\ pc \in [Thread -> Label]
        /\ pc["main"] \in MainLabel /\ pc["client"] \in ClientLabel
        /\ pc["dispatch"] \in DispatchLabel
        /\ owner \in [Mutex -> Thread \cup {NoThread}]
    BY DEF Thread, Label, MainLabel, ClientLabel, DispatchLabel, ExitLabels
  <1>2. waiters \in [Cond -> SUBSET Thread] /\ destroyed \subseteq Mutex
    OBVIOUS
  <1>3. tty \in Seq(Char) /\ option \in Char /\ species \in Char
    BY DEF Char
  <1>4. /\ client_wait \in BOOLEAN /\ connected \in BOOLEAN /\ closed \in BOOLEAN
        /\ cancelled \in BOOLEAN /\ key_live \in BOOLEAN
    OBVIOUS
  <1>5. /\ stream \in Nat /\ tsd \subseteq Thread
        /\ tsd_destructor_counter \in 0..3 /\ loaded \in [Thread -> 0..3]
    OBVIOUS
  <1>6. QED
    BY <1>1, <1>2, <1>3, <1>4, <1>5 DEF TypeOK

\* Every step keeps the types; that the destructor counter stays above 0 needs
\* CounterInv.
LEMMA TypeStep == ThreadsAssumption /\ TypeOK /\ CounterInv /\ [Next]_vars => TypeOK'
  <1> SUFFICES ASSUME ThreadsAssumption, TypeOK, CounterInv, [Next]_vars PROVE TypeOK'
    OBVIOUS
  <1> USE DEF TypeOK, Thread, Label, MainLabel, ClientLabel, DispatchLabel, Mutex, Cond,
              NoThread, ExitLabels, Step
  <1>1. ASSUME NEW t \in Thread, Ending(t) PROVE TypeOK'
    <2>1. CASE ThreadExit(t)
      BY <2>1 DEF ThreadExit, sync, terminal, socket
    <2>2. CASE DestructorLock(t)
      BY <2>2 DEF DestructorLock, Lock, terminal, socket, tls
    <2>3. CASE DestructorLoad(t)
      BY <2>3 DEF DestructorLoad, sync, terminal, socket
    <2>4. CASE DestructorStore(t)
      BY <2>4 DEF DestructorStore, sync, terminal, socket, CounterInv, Debt, Owes
    <2>5. CASE DestructorTest(t)
      BY <2>5 DEF DestructorTest, sync, terminal, socket
    <2>6. CASE DestructorUnlock(t)
      BY <2>6 DEF DestructorUnlock, Unlock, terminal, socket, tls
    <2>7. QED
      BY <1>1, <2>1, <2>2, <2>3, <2>4, <2>5, <2>6 DEF Ending
  <1>2. CASE Main
    <2>1. CASE MainStart
      BY <2>1 DEF MainStart, sync, terminal, socket
    <2>2. CASE MainOnceHangs
      BY <2>2 DEF MainOnceHangs, sync, terminal, socket, tls
    <2>3. CASE MainFails
      BY <2>3 DEF MainFails, ProcessEnds, sync, terminal, socket, tls
    <2>4. CASE MainSleep
      BY <2>4 DEF MainSleep, sync, terminal, socket, tls
    <2>5. CASE MainAccept
      BY <2>5 DEF MainAccept, sync, terminal, socket, tls
    <2>6. CASE MainAcceptAgain
      BY <2>6 DEF MainAcceptAgain, vars, sync, terminal, socket, tls
    <2>7. CASE MainLockS
      BY <2>7 DEF MainLockS, Lock, terminal, socket, tls
    <2>8. CASE MainSignal
      BY <2>8 DEF MainSignal, Signal, terminal, socket, tls
    <2>9. CASE MainUnlockS
      BY <2>9 DEF MainUnlockS, Unlock, terminal, socket, tls
    <2>10. CASE MainLockG
      BY <2>10 DEF MainLockG, Lock, terminal, socket, tls
    <2>11. CASE MainWait
      BY <2>11 DEF MainWait, Wait, terminal, socket, tls
    <2>12. CASE MainWake
      BY <2>12 DEF MainWake, Wake, Lock, terminal, socket, tls
    <2>13. CASE MainClose
      BY <2>13 DEF MainClose, Unlock, terminal, socket, tls
    <2>14. CASE MainCancel
      BY <2>14 DEF MainCancel, sync, terminal, socket, tls
    <2>15. CASE MainDestroy
      <3>1. destroyed' \subseteq Mutex /\ owner' = owner /\ waiters' = waiters
        BY <2>15 DEF MainDestroy, DestroyCond, DestroyMutex, sync
      <3>2. /\ pc' \in [Thread -> Label]
            /\ pc'["main"] \in MainLabel /\ pc'["client"] \in ClientLabel
            /\ pc'["dispatch"] \in DispatchLabel
        BY <2>15 DEF MainDestroy
      <3>3. UNCHANGED <<client_wait, terminal, socket, cancelled, tls>>
        BY <2>15 DEF MainDestroy
      <3>4. QED
        BY <3>1, <3>2, <3>3 DEF terminal, socket, tls
    <2>16. CASE Ending("main")
      BY <2>16, <1>1 DEF Thread
    <2>17. QED
      BY <1>2, <2>1, <2>2, <2>3, <2>4, <2>5, <2>6, <2>7, <2>8, <2>9, <2>10, <2>11, <2>12, <2>13, <2>14, <2>15, <2>16 DEF Main
  <1>3. CASE Client
    <2>1. CASE ClientStart
      BY <2>1 DEF ClientStart, sync, terminal, socket
    <2>2. CASE ClientConnect
      BY <2>2 DEF ClientConnect, SetSpecific, sync, terminal
    <2>3. CASE ClientConnectFails
      BY <2>3 DEF ClientConnectFails, sync, terminal, socket, tls
    <2>4. CASE ClientLock
      BY <2>4 DEF ClientLock, Lock, terminal, socket, tls
    <2>5. CASE ClientWait
      BY <2>5 DEF ClientWait, Wait, terminal, socket, tls
    <2>6. CASE ClientDoesNotWait
      BY <2>6 DEF ClientDoesNotWait, sync, terminal, socket, tls
    <2>7. CASE ClientWake
      BY <2>7 DEF ClientWake, Wake, Lock, terminal, socket, tls
    <2>8. CASE ClientPrompt
      BY <2>8 DEF ClientPrompt, Unlock, terminal, socket, tls
    <2>9. CASE ClientReadsOption
      BY <2>9 DEF ClientReadsOption, GetChar, sync, socket, tls
    <2>10. CASE ClientQuits
      BY <2>10 DEF ClientQuits, GetChar, sync, tls
    <2>11. CASE ClientRejects
      <3>1. /\ pc' \in [Thread -> Label]
            /\ pc'["main"] \in MainLabel /\ pc'["client"] \in ClientLabel
            /\ pc'["dispatch"] \in DispatchLabel
        BY <2>11 DEF ClientRejects
      <3>2. tty' \in Seq(Char)
        BY <2>11 DEF ClientRejects, GetChar
      <3>3. client_wait' \in BOOLEAN
        BY <2>11 DEF ClientRejects
      <3>4. UNCHANGED <<sync, option, species, socket, cancelled, tls>>
        BY <2>11 DEF ClientRejects
      <3>5. QED
        BY <3>1, <3>2, <3>3, <3>4 DEF sync, socket, tls
    <2>12. CASE ClientChooses
      BY <2>12 DEF ClientChooses, GetChar, sync, socket, tls
    <2>13. CASE ClientReadsSpecies
      BY <2>13 DEF ClientReadsSpecies, GetChar, sync, socket, tls
    <2>14. CASE ClientSends
      BY <2>14 DEF ClientSends, sync, terminal, tls, ThreadsAssumption
    <2>15. CASE ClientCrashes
      BY <2>15 DEF ClientCrashes, ProcessEnds, sync, terminal, socket, tls
    <2>16. CASE ClientSignals
      <3>1. /\ waiters' \in [Cond -> SUBSET Thread]
            /\ owner' \in [Mutex -> Thread \cup {NoThread}]
            /\ destroyed' = destroyed
        BY <2>16 DEF ClientSignals, Lock, Signal, Unlock
      <3>2. /\ pc' \in [Thread -> Label]
            /\ pc'["main"] \in MainLabel /\ pc'["client"] \in ClientLabel
            /\ pc'["dispatch"] \in DispatchLabel
        BY <2>16 DEF ClientSignals
      <3>3. UNCHANGED <<client_wait, terminal, socket, cancelled, tls>>
        BY <2>16 DEF ClientSignals
      <3>4. QED
        BY <3>1, <3>2, <3>3 DEF terminal, socket, tls
    <2>17. CASE Ending("client")
      BY <2>17, <1>1 DEF Thread
    <2>18. QED
      BY <1>3, <2>1, <2>2, <2>3, <2>4, <2>5, <2>6, <2>7, <2>8, <2>9, <2>10, <2>11, <2>12, <2>13, <2>14, <2>15, <2>16, <2>17 DEF Client
  <1>4. CASE Dispatch
    <2>1. CASE DispatchStart
      BY <2>1 DEF DispatchStart, SetSpecific, sync, terminal, socket
    <2>2. CASE DispatchReceives
      BY <2>2 DEF DispatchReceives, sync, terminal, tls
    <2>3. CASE DispatchSpins
      BY <2>3 DEF DispatchSpins, vars, sync, terminal, socket, tls
    <2>4. CASE DispatchSleeps
      BY <2>4 DEF DispatchSleeps, sync, terminal, socket, tls
    <2>5. CASE DispatchLock
      BY <2>5 DEF DispatchLock, Lock, terminal, socket, tls
    <2>6. CASE DispatchParses
      BY <2>6 DEF DispatchParses, sync, terminal, socket, tls
    <2>7. CASE DispatchReadsEnter
      BY <2>7 DEF DispatchReadsEnter, GetChar, sync, socket, tls
    <2>8. CASE DispatchSignal
      <3>1. /\ waiters' \in [Cond -> SUBSET Thread]
            /\ owner' = owner /\ destroyed' = destroyed
        BY <2>8 DEF DispatchSignal, Signal
      <3>2. /\ pc' \in [Thread -> Label]
            /\ pc'["main"] \in MainLabel /\ pc'["client"] \in ClientLabel
            /\ pc'["dispatch"] \in DispatchLabel
        BY <2>8 DEF DispatchSignal
      <3>3. UNCHANGED <<client_wait, terminal, socket, cancelled, tls>>
        BY <2>8 DEF DispatchSignal
      <3>4. QED
        BY <3>1, <3>2, <3>3 DEF terminal, socket, tls
    <2>9. CASE DispatchUnlock
      BY <2>9 DEF DispatchUnlock, Unlock, terminal, socket, tls
    <2>10. CASE DispatchCancelled
      BY <2>10 DEF DispatchCancelled, sync, terminal, socket, tls
    <2>11. CASE Ending("dispatch")
      BY <2>11, <1>1 DEF Thread
    <2>12. CASE DispatchCrashes
      BY <2>12 DEF DispatchCrashes, ProcessEnds, sync, terminal, socket, tls
    <2>13. QED
      BY <1>4, <2>1, <2>2, <2>3, <2>4, <2>5, <2>6, <2>7, <2>8, <2>9, <2>10, <2>11, <2>12 DEF Dispatch
  <1>5. CASE UserTypes
    BY <1>5 DEF UserTypes, ThreadsAssumption, sync, socket, tls
  <1>6. CASE SpuriousWakeup
    BY <1>6 DEF SpuriousWakeup, ThreadsAssumption, terminal, socket, tls
  <1>7. CASE UNCHANGED vars
    BY <1>7 DEF vars, sync, terminal, socket, tls
  <1>8. QED
    BY <1>2, <1>3, <1>4, <1>5, <1>6, <1>7 DEF Next, Terminated

\* At the start every thread still owes its decrement.
LEMMA CounterInit == Init => CounterInv
  BY DEF Init, CounterInv, BirthInv, Thread, ExitLabels

\* Every step keeps the counter, and the copies of it that are about to be stored,
\* above the number of decrements still owed.
LEMMA CounterStep == TypeOK /\ CounterInv /\ [Next]_vars => CounterInv'
  <1> SUFFICES ASSUME TypeOK, CounterInv, [Next]_vars PROVE CounterInv'
    OBVIOUS
  <1> USE DEF TypeOK, Thread, ExitLabels, CounterInv, BirthInv, Debt, Owes, AllDead, Step
  <1>1. ASSUME NEW t \in Thread, Ending(t) PROVE CounterInv'
    <2>1. CASE ThreadExit(t)
      BY <2>1 DEF ThreadExit, sync, terminal, socket
    <2>2. CASE DestructorLock(t)
      BY <2>2 DEF DestructorLock, Lock, terminal, socket, tls
    <2>3. CASE DestructorLoad(t)
      BY <2>3 DEF DestructorLoad, sync, terminal, socket
    <2>4. CASE DestructorStore(t)
      BY <2>4 DEF DestructorStore, sync, terminal, socket
    <2>5. CASE DestructorTest(t)
      BY <2>5 DEF DestructorTest, sync, terminal, socket
    <2>6. CASE DestructorUnlock(t)
      BY <2>6 DEF DestructorUnlock, Unlock, terminal, socket, tls
    <2>7. QED
      BY <1>1, <2>1, <2>2, <2>3, <2>4, <2>5, <2>6 DEF Ending
  <1>2. CASE Main
    <2>1. CASE MainStart
      BY <2>1 DEF MainStart, sync, terminal, socket
    <2>2. CASE MainOnceHangs
      BY <2>2 DEF MainOnceHangs, sync, terminal, socket, tls
    <2>3. CASE MainFails
      BY <2>3 DEF MainFails, ProcessEnds, sync, terminal, socket, tls
    <2>4. CASE MainSleep
      BY <2>4 DEF MainSleep, sync, terminal, socket, tls
    <2>5. CASE MainAccept
      BY <2>5 DEF MainAccept, sync, terminal, socket, tls
    <2>6. CASE MainAcceptAgain
      BY <2>6 DEF MainAcceptAgain, vars, sync, terminal, socket, tls
    <2>7. CASE MainLockS
      BY <2>7 DEF MainLockS, Lock, terminal, socket, tls
    <2>8. CASE MainSignal
      BY <2>8 DEF MainSignal, Signal, terminal, socket, tls
    <2>9. CASE MainUnlockS
      BY <2>9 DEF MainUnlockS, Unlock, terminal, socket, tls
    <2>10. CASE MainLockG
      BY <2>10 DEF MainLockG, Lock, terminal, socket, tls
    <2>11. CASE MainWait
      BY <2>11 DEF MainWait, Wait, terminal, socket, tls
    <2>12. CASE MainWake
      BY <2>12 DEF MainWake, Wake, Lock, terminal, socket, tls
    <2>13. CASE MainClose
      BY <2>13 DEF MainClose, Unlock, terminal, socket, tls
    <2>14. CASE MainCancel
      BY <2>14 DEF MainCancel, sync, terminal, socket, tls
    <2>15. CASE MainDestroy
      BY <2>15 DEF MainDestroy, DestroyCond, DestroyMutex, sync, terminal, socket, tls
    <2>16. CASE Ending("main")
      BY <2>16, <1>1 DEF Thread
    <2>17. QED
      BY <1>2, <2>1, <2>2, <2>3, <2>4, <2>5, <2>6, <2>7, <2>8, <2>9, <2>10, <2>11, <2>12, <2>13, <2>14, <2>15, <2>16 DEF Main
  <1>3. CASE Client
    <2>1. CASE ClientStart
      BY <2>1 DEF ClientStart, sync, terminal, socket
    <2>2. CASE ClientConnect
      BY <2>2 DEF ClientConnect, SetSpecific, sync, terminal
    <2>3. CASE ClientConnectFails
      BY <2>3 DEF ClientConnectFails, sync, terminal, socket, tls
    <2>4. CASE ClientLock
      BY <2>4 DEF ClientLock, Lock, terminal, socket, tls
    <2>5. CASE ClientWait
      BY <2>5 DEF ClientWait, Wait, terminal, socket, tls
    <2>6. CASE ClientDoesNotWait
      BY <2>6 DEF ClientDoesNotWait, sync, terminal, socket, tls
    <2>7. CASE ClientWake
      BY <2>7 DEF ClientWake, Wake, Lock, terminal, socket, tls
    <2>8. CASE ClientPrompt
      BY <2>8 DEF ClientPrompt, Unlock, terminal, socket, tls
    <2>9. CASE ClientReadsOption
      BY <2>9 DEF ClientReadsOption, GetChar, sync, socket, tls
    <2>10. CASE ClientQuits
      BY <2>10 DEF ClientQuits, GetChar, sync, tls
    <2>11. CASE ClientRejects
      BY <2>11 DEF ClientRejects, GetChar, sync, socket, tls
    <2>12. CASE ClientChooses
      BY <2>12 DEF ClientChooses, GetChar, sync, socket, tls
    <2>13. CASE ClientReadsSpecies
      BY <2>13, SMTT(30) DEF ClientReadsSpecies, GetChar, sync, socket, tls
    <2>14. CASE ClientSends
      BY <2>14 DEF ClientSends, sync, terminal, tls
    <2>15. CASE ClientCrashes
      BY <2>15 DEF ClientCrashes, ProcessEnds, sync, terminal, socket, tls
    <2>16. CASE ClientSignals
      BY <2>16 DEF ClientSignals, Lock, Signal, Unlock, terminal, socket, tls
    <2>17. CASE Ending("client")
      BY <2>17, <1>1 DEF Thread
    <2>18. QED
      BY <1>3, <2>1, <2>2, <2>3, <2>4, <2>5, <2>6, <2>7, <2>8, <2>9, <2>10, <2>11, <2>12, <2>13, <2>14, <2>15, <2>16, <2>17 DEF Client
  <1>4. CASE Dispatch
    <2>1. CASE DispatchStart
      BY <2>1 DEF DispatchStart, SetSpecific, sync, terminal, socket
    <2>2. CASE DispatchReceives
      BY <2>2 DEF DispatchReceives, sync, terminal, tls
    <2>3. CASE DispatchSpins
      BY <2>3 DEF DispatchSpins, vars, sync, terminal, socket, tls
    <2>4. CASE DispatchSleeps
      BY <2>4 DEF DispatchSleeps, sync, terminal, socket, tls
    <2>5. CASE DispatchLock
      BY <2>5 DEF DispatchLock, Lock, terminal, socket, tls
    <2>6. CASE DispatchParses
      BY <2>6 DEF DispatchParses, sync, terminal, socket, tls
    <2>7. CASE DispatchReadsEnter
      BY <2>7 DEF DispatchReadsEnter, GetChar, sync, socket, tls
    <2>8. CASE DispatchSignal
      BY <2>8 DEF DispatchSignal, Signal, terminal, socket, tls
    <2>9. CASE DispatchUnlock
      BY <2>9 DEF DispatchUnlock, Unlock, terminal, socket, tls
    <2>10. CASE DispatchCancelled
      BY <2>10 DEF DispatchCancelled, sync, terminal, socket, tls
    <2>11. CASE Ending("dispatch")
      BY <2>11, <1>1 DEF Thread
    <2>12. CASE DispatchCrashes
      BY <2>12 DEF DispatchCrashes, ProcessEnds, sync, terminal, socket, tls
    <2>13. QED
      BY <1>4, <2>1, <2>2, <2>3, <2>4, <2>5, <2>6, <2>7, <2>8, <2>9, <2>10, <2>11, <2>12 DEF Dispatch
  <1>5. CASE UserTypes
    BY <1>5 DEF UserTypes, sync, socket, tls
  <1>6. CASE SpuriousWakeup
    BY <1>6 DEF SpuriousWakeup, terminal, socket, tls
  <1>7. CASE UNCHANGED vars
    BY <1>7 DEF vars, sync, terminal, socket, tls
  <1>8. QED
    BY <1>2, <1>3, <1>4, <1>5, <1>6, <1>7 DEF Next, Terminated

\* Every step keeps the turns, the way out and the ownership of s_to_c_mutex, if
\* recv returns whole messages and no wakeup is spurious.
LEMMA OrderStep ==
  ASSUME Pieces \subseteq {1}, Spurious = {}, TypeOK, BirthInv, OrderInv, [Next]_vars
  PROVE  OrderInv'
  <1> USE DEF TypeOK, MainLabel, ClientLabel, DispatchLabel, Thread, Mutex, Cond, NoThread, ExitLabels, AllDead, Step,
              OrderInv, TurnInv, QuitInv, MutexInv, Holds, OneTurn, MainTurn, ClientTurn, ServerTurn,
              DispatchBusy, BirthInv, ShutdownOnlyAfterQuit, ShuttingDown
  <1>1. ASSUME NEW t \in Thread, Ending(t) PROVE OrderInv'
    <2>1. CASE ThreadExit(t)
      BY <2>1 DEF ThreadExit, sync, terminal, socket
    <2>2. CASE DestructorLock(t)
      BY <2>2 DEF DestructorLock, Lock, terminal, socket, tls
    <2>3. CASE DestructorLoad(t)
      BY <2>3 DEF DestructorLoad, sync, terminal, socket
    <2>4. CASE DestructorStore(t)
      BY <2>4 DEF DestructorStore, sync, terminal, socket
    <2>5. CASE DestructorTest(t)
      BY <2>5 DEF DestructorTest, sync, terminal, socket
    <2>6. CASE DestructorUnlock(t)
      BY <2>6 DEF DestructorUnlock, Unlock, terminal, socket, tls
    <2>7. QED
      BY <1>1, <2>1, <2>2, <2>3, <2>4, <2>5, <2>6 DEF Ending
  <1>2. CASE Main
    <2>1. CASE MainStart
      BY <2>1 DEF MainStart, sync, terminal, socket
    <2>2. CASE MainOnceHangs
      BY <2>2 DEF MainOnceHangs, sync, terminal, socket, tls
    <2>3. CASE MainFails
      BY <2>3 DEF MainFails, ProcessEnds, sync, terminal, socket, tls
    <2>4. CASE MainSleep
      BY <2>4 DEF MainSleep, sync, terminal, socket, tls
    <2>5. CASE MainAccept
      BY <2>5 DEF MainAccept, sync, terminal, socket, tls
    <2>6. CASE MainAcceptAgain
      BY <2>6 DEF MainAcceptAgain, vars, sync, terminal, socket, tls
    <2>7. CASE MainLockS
      BY <2>7 DEF MainLockS, Lock, terminal, socket, tls
    <2>8. CASE MainSignal
      BY <2>8 DEF MainSignal, Signal, terminal, socket, tls
    <2>9. CASE MainUnlockS
      BY <2>9 DEF MainUnlockS, Unlock, terminal, socket, tls
    <2>10. CASE MainLockG
      BY <2>10 DEF MainLockG, Lock, terminal, socket, tls
    <2>11. CASE MainWait
      BY <2>11 DEF MainWait, Wait, terminal, socket, tls
    <2>12. CASE MainWake
      BY <2>12 DEF MainWake, Wake, Lock, terminal, socket, tls
    <2>13. CASE MainClose
      BY <2>13 DEF MainClose, Unlock, terminal, socket, tls
    <2>14. CASE MainCancel
      BY <2>14 DEF MainCancel, sync, terminal, socket, tls
    <2>15. CASE MainDestroy
      BY <2>15 DEF MainDestroy, DestroyCond, DestroyMutex, sync, terminal, socket, tls
    <2>16. CASE Ending("main")
      BY <2>16, <1>1 DEF Thread
    <2>17. QED
      BY <1>2, <2>1, <2>2, <2>3, <2>4, <2>5, <2>6, <2>7, <2>8, <2>9, <2>10, <2>11, <2>12, <2>13, <2>14, <2>15, <2>16 DEF Main
  <1>3. CASE Client
    <2>1. CASE ClientStart
      BY <2>1 DEF ClientStart, sync, terminal, socket
    <2>2. CASE ClientConnect
      BY <2>2 DEF ClientConnect, SetSpecific, sync, terminal
    <2>3. CASE ClientConnectFails
      BY <2>3 DEF ClientConnectFails, sync, terminal, socket, tls
    <2>4. CASE ClientLock
      BY <2>4 DEF ClientLock, Lock, terminal, socket, tls
    <2>5. CASE ClientWait
      BY <2>5 DEF ClientWait, Wait, terminal, socket, tls
    <2>6. CASE ClientDoesNotWait
      BY <2>6 DEF ClientDoesNotWait, sync, terminal, socket, tls
    <2>7. CASE ClientWake
      BY <2>7 DEF ClientWake, Wake, Lock, terminal, socket, tls
    <2>8. CASE ClientPrompt
      BY <2>8 DEF ClientPrompt, Unlock, terminal, socket, tls
    <2>9. CASE ClientReadsOption
      BY <2>9 DEF ClientReadsOption, GetChar, sync, socket, tls
    <2>10. CASE ClientQuits
      BY <2>10 DEF ClientQuits, GetChar, sync, tls
    <2>11. CASE ClientRejects
      BY <2>11 DEF ClientRejects, GetChar, sync, socket, tls
    <2>12. CASE ClientChooses
      BY <2>12 DEF ClientChooses, GetChar, sync, socket, tls
    <2>13. CASE ClientReadsSpecies
      BY <2>13 DEF ClientReadsSpecies, GetChar, sync, socket, tls
    <2>14. CASE ClientSends
      BY <2>14 DEF ClientSends, sync, terminal, tls
    <2>15. CASE ClientCrashes
      BY <2>15 DEF ClientCrashes, ProcessEnds, sync, terminal, socket, tls
    <2>16. CASE ClientSignals
      BY <2>16 DEF ClientSignals, Lock, Signal, Unlock, terminal, socket, tls
    <2>17. CASE Ending("client")
      BY <2>17, <1>1 DEF Thread
    <2>18. QED
      BY <1>3, <2>1, <2>2, <2>3, <2>4, <2>5, <2>6, <2>7, <2>8, <2>9, <2>10, <2>11, <2>12, <2>13, <2>14, <2>15, <2>16, <2>17 DEF Client
  <1>4. CASE Dispatch
    <2>1. CASE DispatchStart
      BY <2>1 DEF DispatchStart, SetSpecific, sync, terminal, socket
    <2>2. CASE DispatchReceives
      BY <2>2 DEF DispatchReceives, sync, terminal, tls
    <2>3. CASE DispatchSpins
      BY <2>3 DEF DispatchSpins, vars, sync, terminal, socket, tls
    <2>4. CASE DispatchSleeps
      BY <2>4 DEF DispatchSleeps, sync, terminal, socket, tls
    <2>5. CASE DispatchLock
      BY <2>5 DEF DispatchLock, Lock, terminal, socket, tls
    <2>6. CASE DispatchParses
      BY <2>6 DEF DispatchParses, sync, terminal, socket, tls
    <2>7. CASE DispatchReadsEnter
      BY <2>7 DEF DispatchReadsEnter, GetChar, sync, socket, tls
    <2>8. CASE DispatchSignal
      <3>1. /\ pc["dispatch"] = "signal" /\ pc' = [pc EXCEPT !["dispatch"] = "unlock"]
            /\ UNCHANGED <<client_wait, owner, destroyed, connected, closed, stream, cancelled>>
            /\ waiters'["s_to_c_cond"] \subseteq waiters["s_to_c_cond"]
            /\ waiters'["g_cond"] = waiters["g_cond"]
        BY <2>8 DEF DispatchSignal, Signal, socket
      <3>2. /\ ~MainTurn /\ ~closed /\ ~cancelled /\ connected /\ stream = 0
            /\ pc["client"] \in {"lock", "waiting"}
        <4>1. ~MainTurn /\ ~ClientTurn /\ ~closed /\ ~cancelled /\ stream = 0
          BY <3>1
        <4>2. connected /\ pc["client"] \notin {"unborn", "start", "connect"} \cup ExitLabels
          BY <3>1, <4>1
        <4>3. Holds("dispatch") /\ owner["s_to_c_mutex"] = "dispatch"
          BY <3>1
        <4>4. pc["client"] # "check"
          BY <3>1, <4>3
        <4>5. pc["client"] \notin {"q_lock", "q_signal", "q_unlock"}
          BY <4>1
        <4>6. QED
          BY <4>1, <4>2, <4>4, <4>5
      <3>3. TurnInv'
        BY <3>1, <3>2
      <3>4. QuitInv'
        BY <3>1, <3>2
      <3>5. MutexInv'
        BY <3>1, <3>2
      <3>6. QED
        BY <3>3, <3>4, <3>5
    <2>9. CASE DispatchUnlock
      BY <2>9 DEF DispatchUnlock, Unlock, terminal, socket, tls
    <2>10. CASE DispatchCancelled
      BY <2>10 DEF DispatchCancelled, sync, terminal, socket, tls
    <2>11. CASE Ending("dispatch")
      BY <2>11, <1>1 DEF Thread
    <2>12. CASE DispatchCrashes
      BY <2>12 DEF DispatchCrashes, ProcessEnds, sync, terminal, socket, tls
    <2>13. QED
      BY <1>4, <2>1, <2>2, <2>3, <2>4, <2>5, <2>6, <2>7, <2>8, <2>9, <2>10, <2>11, <2>12 DEF Dispatch
  <1>5. CASE UserTypes
    BY <1>5 DEF UserTypes, sync, socket, tls
  <1>6. CASE SpuriousWakeup
    BY <1>6 DEF SpuriousWakeup, terminal, socket, tls
  <1>7. CASE UNCHANGED vars
    BY <1>7 DEF vars, sync, terminal, socket, tls
  <1>8. QED
    BY <1>2, <1>3, <1>4, <1>5, <1>6, <1>7 DEF Next, Terminated

\* QuitInv alone needs less: that the wait on g_cond never ends by itself.
LEMMA QuitStep ==
  ASSUME "g_cond" \notin Spurious, TypeOK, QuitInv, [Next]_vars
  PROVE  QuitInv'
  <1> USE DEF TypeOK, MainLabel, ClientLabel, DispatchLabel, Thread, Mutex, Cond, NoThread,
              ExitLabels, Step, QuitInv, ShutdownOnlyAfterQuit, ShuttingDown
  <1>1. ASSUME NEW t \in Thread, Ending(t) PROVE QuitInv'
    <2>1. CASE ThreadExit(t)
      BY <2>1 DEF ThreadExit, sync, terminal, socket
    <2>2. CASE DestructorLock(t)
      BY <2>2 DEF DestructorLock, Lock, terminal, socket, tls
    <2>3. CASE DestructorLoad(t)
      BY <2>3 DEF DestructorLoad, sync, terminal, socket
    <2>4. CASE DestructorStore(t)
      BY <2>4 DEF DestructorStore, sync, terminal, socket
    <2>5. CASE DestructorTest(t)
      BY <2>5 DEF DestructorTest, sync, terminal, socket
    <2>6. CASE DestructorUnlock(t)
      BY <2>6 DEF DestructorUnlock, Unlock, terminal, socket, tls
    <2>7. QED
      BY <1>1, <2>1, <2>2, <2>3, <2>4, <2>5, <2>6 DEF Ending
  <1>2. CASE Main
    <2>1. CASE MainStart
      BY <2>1 DEF MainStart, sync, terminal, socket
    <2>2. CASE MainOnceHangs
      BY <2>2 DEF MainOnceHangs, sync, terminal, socket, tls
    <2>3. CASE MainFails
      BY <2>3 DEF MainFails, ProcessEnds, sync, terminal, socket, tls
    <2>4. CASE MainSleep
      BY <2>4 DEF MainSleep, sync, terminal, socket, tls
    <2>5. CASE MainAccept
      BY <2>5 DEF MainAccept, sync, terminal, socket, tls
    <2>6. CASE MainAcceptAgain
      BY <2>6 DEF MainAcceptAgain, vars, sync, terminal, socket, tls
    <2>7. CASE MainLockS
      BY <2>7 DEF MainLockS, Lock, terminal, socket, tls
    <2>8. CASE MainSignal
      BY <2>8 DEF MainSignal, Signal, terminal, socket, tls
    <2>9. CASE MainUnlockS
      BY <2>9 DEF MainUnlockS, Unlock, terminal, socket, tls
    <2>10. CASE MainLockG
      BY <2>10 DEF MainLockG, Lock, terminal, socket, tls
    <2>11. CASE MainWait
      BY <2>11 DEF MainWait, Wait, terminal, socket, tls
    <2>12. CASE MainWake
      BY <2>12 DEF MainWake, Wake, Lock, terminal, socket, tls
    <2>13. CASE MainClose
      BY <2>13 DEF MainClose, Unlock, terminal, socket, tls
    <2>14. CASE MainCancel
      BY <2>14 DEF MainCancel, sync, terminal, socket, tls
    <2>15. CASE MainDestroy
      BY <2>15 DEF MainDestroy, DestroyCond, DestroyMutex, sync, terminal, socket, tls
    <2>16. CASE Ending("main")
      BY <2>16, <1>1 DEF Thread
    <2>17. QED
      BY <1>2, <2>1, <2>2, <2>3, <2>4, <2>5, <2>6, <2>7, <2>8, <2>9, <2>10, <2>11, <2>12, <2>13, <2>14, <2>15, <2>16 DEF Main
  <1>3. CASE Client
    <2>1. CASE ClientStart
      BY <2>1 DEF ClientStart, sync, terminal, socket
    <2>2. CASE ClientConnect
      BY <2>2 DEF ClientConnect, SetSpecific, sync, terminal
    <2>3. CASE ClientConnectFails
      BY <2>3 DEF ClientConnectFails, sync, terminal, socket, tls
    <2>4. CASE ClientLock
      BY <2>4 DEF ClientLock, Lock, terminal, socket, tls
    <2>5. CASE ClientWait
      BY <2>5 DEF ClientWait, Wait, terminal, socket, tls
    <2>6. CASE ClientDoesNotWait
      BY <2>6 DEF ClientDoesNotWait, sync, terminal, socket, tls
    <2>7. CASE ClientWake
      BY <2>7 DEF ClientWake, Wake, Lock, terminal, socket, tls
    <2>8. CASE ClientPrompt
      BY <2>8 DEF ClientPrompt, Unlock, terminal, socket, tls
    <2>9. CASE ClientReadsOption
      BY <2>9 DEF ClientReadsOption, GetChar, sync, socket, tls
    <2>10. CASE ClientQuits
      BY <2>10 DEF ClientQuits, GetChar, sync, tls
    <2>11. CASE ClientRejects
      BY <2>11 DEF ClientRejects, GetChar, sync, socket, tls
    <2>12. CASE ClientChooses
      BY <2>12 DEF ClientChooses, GetChar, sync, socket, tls
    <2>13. CASE ClientReadsSpecies
      BY <2>13 DEF ClientReadsSpecies, GetChar, sync, socket, tls
    <2>14. CASE ClientSends
      BY <2>14 DEF ClientSends, sync, terminal, tls
    <2>15. CASE ClientCrashes
      BY <2>15 DEF ClientCrashes, ProcessEnds, sync, terminal, socket, tls
    <2>16. CASE ClientSignals
      BY <2>16 DEF ClientSignals, Lock, Signal, Unlock, terminal, socket, tls
    <2>17. CASE Ending("client")
      BY <2>17, <1>1 DEF Thread
    <2>18. QED
      BY <1>3, <2>1, <2>2, <2>3, <2>4, <2>5, <2>6, <2>7, <2>8, <2>9, <2>10, <2>11, <2>12, <2>13, <2>14, <2>15, <2>16, <2>17 DEF Client
  <1>4. CASE Dispatch
    <2>1. CASE DispatchStart
      BY <2>1 DEF DispatchStart, SetSpecific, sync, terminal, socket
    <2>2. CASE DispatchReceives
      BY <2>2 DEF DispatchReceives, sync, terminal, tls
    <2>3. CASE DispatchSpins
      BY <2>3 DEF DispatchSpins, vars, sync, terminal, socket, tls
    <2>4. CASE DispatchSleeps
      BY <2>4 DEF DispatchSleeps, sync, terminal, socket, tls
    <2>5. CASE DispatchLock
      BY <2>5 DEF DispatchLock, Lock, terminal, socket, tls
    <2>6. CASE DispatchParses
      BY <2>6 DEF DispatchParses, sync, terminal, socket, tls
    <2>7. CASE DispatchReadsEnter
      BY <2>7 DEF DispatchReadsEnter, GetChar, sync, socket, tls
    <2>8. CASE DispatchSignal
      BY <2>8 DEF DispatchSignal, Signal, terminal, socket, tls
    <2>9. CASE DispatchUnlock
      BY <2>9 DEF DispatchUnlock, Unlock, terminal, socket, tls
    <2>10. CASE DispatchCancelled
      BY <2>10 DEF DispatchCancelled, sync, terminal, socket, tls
    <2>11. CASE Ending("dispatch")
      BY <2>11, <1>1 DEF Thread
    <2>12. CASE DispatchCrashes
      BY <2>12 DEF DispatchCrashes, ProcessEnds, sync, terminal, socket, tls
    <2>13. QED
      BY <1>4, <2>1, <2>2, <2>3, <2>4, <2>5, <2>6, <2>7, <2>8, <2>9, <2>10, <2>11, <2>12 DEF Dispatch
  <1>5. CASE UserTypes
    BY <1>5 DEF UserTypes, sync, socket, tls
  <1>6. CASE SpuriousWakeup
    BY <1>6 DEF SpuriousWakeup, terminal, socket, tls
  <1>7. CASE UNCHANGED vars
    BY <1>7 DEF vars, sync, terminal, socket, tls
  <1>8. QED
    BY <1>2, <1>3, <1>4, <1>5, <1>6, <1>7 DEF Next, Terminated

-----------------------------------------------------------------------------
\* The two invariants hold together: each is needed for the step of the other.
LEMMA TypeAndCounter == Spec => [](TypeOK /\ CounterInv)
  <1>1. Init => TypeOK /\ CounterInv
    BY TypeInit, CounterInit
  <1>2. TypeOK /\ CounterInv /\ [Next]_vars => (TypeOK /\ CounterInv)'
    BY TypeStep, CounterStep, ThreadsAssumption
  <1>3. QED
    BY <1>1, <1>2, PTL DEF Spec

\* In every execution, with any user, any failures and any spurious wakeups, the
\* variables have their types: in particular tsd_destructor_counter stays in 0..3.
THEOREM TypeCorrect == Spec => []TypeOK
  BY TypeAndCounter, PTL

\* Just as generally, the destructor counter of main.c never says less than what
\* the threads may still subtract from it, although they race (main.c:147-159).
THEOREM CounterHolds == Spec => []CounterInv
  BY TypeAndCounter, PTL

\* The step that deletes the key finds no value left under it.
LEMMA KeyStep == TypeOK /\ CounterInv /\ [Next]_vars => (key_live /\ ~key_live' => tsd = {})
  <1> SUFFICES ASSUME TypeOK, CounterInv, [Next]_vars, key_live, ~key_live' PROVE tsd = {}
    OBVIOUS
  <1> USE DEF TypeOK, Thread, ExitLabels, CounterInv, BirthInv, Debt, Owes, AllDead, Step
  <1>1. ASSUME NEW t \in Thread, Ending(t) PROVE tsd = {}
    <2>1. CASE ThreadExit(t)
      BY <2>1 DEF ThreadExit, sync, terminal, socket
    <2>2. CASE DestructorLock(t)
      BY <2>2 DEF DestructorLock, Lock, terminal, socket, tls
    <2>3. CASE DestructorLoad(t)
      BY <2>3 DEF DestructorLoad, sync, terminal, socket
    <2>4. CASE DestructorStore(t)
      BY <2>4 DEF DestructorStore, sync, terminal, socket
    <2>5. CASE DestructorTest(t)
      <3>1. pc[t] = "d_test" /\ tsd_destructor_counter <= 0
        <4>1. pc[t] = "d_test" /\ ~(tsd_destructor_counter > 0)
          BY <2>5, Zenon DEF DestructorTest
        <4>2. QED
          BY <4>1
      <3>2. pc["client"] \notin {"unborn", "start"}
        BY <3>1
      <3>3. Owes("main") = 0 /\ Owes("client") = 0 /\ Owes("dispatch") = 0
        BY <3>1, <3>2
      <3>4. pc["main"] = "hung" => tsd = {}
        OBVIOUS
      <3>5. \A u \in Thread : pc[u] \in {"d_test", "d_unlock", "dead", "hung"}
        BY <3>3
      <3>6. pc["client"] # "hung" /\ pc["dispatch"] # "hung"
        BY DEF ClientLabel, DispatchLabel
      <3>7. QED
        BY <3>1, <3>4, <3>5, <3>6
    <2>6. CASE DestructorUnlock(t)
      BY <2>6 DEF DestructorUnlock, Unlock, terminal, socket, tls
    <2>7. QED
      BY <1>1, <2>1, <2>2, <2>3, <2>4, <2>5, <2>6 DEF Ending
  <1>2. CASE Main
    <2>1. CASE MainStart
      BY <2>1 DEF MainStart, sync, terminal, socket
    <2>2. CASE MainOnceHangs
      BY <2>2 DEF MainOnceHangs, sync, terminal, socket, tls
    <2>3. CASE MainFails
      BY <2>3 DEF MainFails, ProcessEnds, sync, terminal, socket, tls
    <2>4. CASE MainSleep
      BY <2>4 DEF MainSleep, sync, terminal, socket, tls
    <2>5. CASE MainAccept
      BY <2>5 DEF MainAccept, sync, terminal, socket, tls
    <2>6. CASE MainAcceptAgain
      BY <2>6 DEF MainAcceptAgain, vars, sync, terminal, socket, tls
    <2>7. CASE MainLockS
      BY <2>7 DEF MainLockS, Lock, terminal, socket, tls
    <2>8. CASE MainSignal
      BY <2>8 DEF MainSignal, Signal, terminal, socket, tls
    <2>9. CASE MainUnlockS
      BY <2>9 DEF MainUnlockS, Unlock, terminal, socket, tls
    <2>10. CASE MainLockG
      BY <2>10 DEF MainLockG, Lock, terminal, socket, tls
    <2>11. CASE MainWait
      BY <2>11 DEF MainWait, Wait, terminal, socket, tls
    <2>12. CASE MainWake
      BY <2>12 DEF MainWake, Wake, Lock, terminal, socket, tls
    <2>13. CASE MainClose
      BY <2>13 DEF MainClose, Unlock, terminal, socket, tls
    <2>14. CASE MainCancel
      BY <2>14 DEF MainCancel, sync, terminal, socket, tls
    <2>15. CASE MainDestroy
      BY <2>15 DEF MainDestroy, DestroyCond, DestroyMutex, sync, terminal, socket, tls
    <2>16. CASE Ending("main")
      BY <2>16, <1>1 DEF Thread
    <2>17. QED
      BY <1>2, <2>1, <2>2, <2>3, <2>4, <2>5, <2>6, <2>7, <2>8, <2>9, <2>10, <2>11, <2>12, <2>13, <2>14, <2>15, <2>16 DEF Main
  <1>3. CASE Client
    <2>1. CASE ClientStart
      BY <2>1 DEF ClientStart, sync, terminal, socket
    <2>2. CASE ClientConnect
      BY <2>2 DEF ClientConnect, SetSpecific, sync, terminal
    <2>3. CASE ClientConnectFails
      BY <2>3 DEF ClientConnectFails, sync, terminal, socket, tls
    <2>4. CASE ClientLock
      BY <2>4 DEF ClientLock, Lock, terminal, socket, tls
    <2>5. CASE ClientWait
      BY <2>5 DEF ClientWait, Wait, terminal, socket, tls
    <2>6. CASE ClientDoesNotWait
      BY <2>6 DEF ClientDoesNotWait, sync, terminal, socket, tls
    <2>7. CASE ClientWake
      BY <2>7 DEF ClientWake, Wake, Lock, terminal, socket, tls
    <2>8. CASE ClientPrompt
      BY <2>8 DEF ClientPrompt, Unlock, terminal, socket, tls
    <2>9. CASE ClientReadsOption
      BY <2>9 DEF ClientReadsOption, GetChar, sync, socket, tls
    <2>10. CASE ClientQuits
      BY <2>10 DEF ClientQuits, GetChar, sync, tls
    <2>11. CASE ClientRejects
      BY <2>11 DEF ClientRejects, GetChar, sync, socket, tls
    <2>12. CASE ClientChooses
      BY <2>12 DEF ClientChooses, GetChar, sync, socket, tls
    <2>13. CASE ClientReadsSpecies
      BY <2>13 DEF ClientReadsSpecies, GetChar, sync, socket, tls
    <2>14. CASE ClientSends
      BY <2>14 DEF ClientSends, sync, terminal, tls
    <2>15. CASE ClientCrashes
      BY <2>15 DEF ClientCrashes, ProcessEnds, sync, terminal, socket, tls
    <2>16. CASE ClientSignals
      BY <2>16 DEF ClientSignals, Lock, Signal, Unlock, terminal, socket, tls
    <2>17. CASE Ending("client")
      BY <2>17, <1>1 DEF Thread
    <2>18. QED
      BY <1>3, <2>1, <2>2, <2>3, <2>4, <2>5, <2>6, <2>7, <2>8, <2>9, <2>10, <2>11, <2>12, <2>13, <2>14, <2>15, <2>16, <2>17 DEF Client
  <1>4. CASE Dispatch
    <2>1. CASE DispatchStart
      BY <2>1 DEF DispatchStart, SetSpecific, sync, terminal, socket
    <2>2. CASE DispatchReceives
      BY <2>2 DEF DispatchReceives, sync, terminal, tls
    <2>3. CASE DispatchSpins
      BY <2>3 DEF DispatchSpins, vars, sync, terminal, socket, tls
    <2>4. CASE DispatchSleeps
      BY <2>4 DEF DispatchSleeps, sync, terminal, socket, tls
    <2>5. CASE DispatchLock
      BY <2>5 DEF DispatchLock, Lock, terminal, socket, tls
    <2>6. CASE DispatchParses
      BY <2>6 DEF DispatchParses, sync, terminal, socket, tls
    <2>7. CASE DispatchReadsEnter
      BY <2>7 DEF DispatchReadsEnter, GetChar, sync, socket, tls
    <2>8. CASE DispatchSignal
      BY <2>8 DEF DispatchSignal, Signal, terminal, socket, tls
    <2>9. CASE DispatchUnlock
      BY <2>9 DEF DispatchUnlock, Unlock, terminal, socket, tls
    <2>10. CASE DispatchCancelled
      BY <2>10 DEF DispatchCancelled, sync, terminal, socket, tls
    <2>11. CASE Ending("dispatch")
      BY <2>11, <1>1 DEF Thread
    <2>12. CASE DispatchCrashes
      BY <2>12 DEF DispatchCrashes, ProcessEnds, sync, terminal, socket, tls
    <2>13. QED
      BY <1>4, <2>1, <2>2, <2>3, <2>4, <2>5, <2>6, <2>7, <2>8, <2>9, <2>10, <2>11, <2>12 DEF Dispatch
  <1>5. CASE UserTypes \/ SpuriousWakeup \/ UNCHANGED vars
    BY <1>5 DEF UserTypes, SpuriousWakeup, vars, tls
  <1>6. QED
    BY <1>2, <1>3, <1>4, <1>5 DEF Next, Terminated

\* However the three threads end, and even if two destructors decrement the
\* counter at the same time, g_key is not deleted while some thread still has a
\* value under it (main.c:147-159).
THEOREM KeyDeletedLastHolds == Spec => KeyDeletedLast
  <1>1. TypeOK /\ CounterInv /\ [Next]_vars => [key_live /\ ~key_live' => tsd = {}]_vars
    BY KeyStep
  <1>2. QED
    BY <1>1, TypeAndCounter, PTL DEF Spec, KeyDeletedLast

\* Without spurious wakeups of g_cond, main starts to shut down only when the
\* client has closed its connection (main.c:94-100, 239-249): however TCP cuts
\* the messages, whoever takes whose Enter, and whatever fails.
THEOREM ShutdownHolds ==
  ASSUME "g_cond" \notin Spurious
  PROVE  Spec => []ShutdownOnlyAfterQuit
  <1>1. Init => QuitInv
    BY DEF Init, QuitInv, ShutdownOnlyAfterQuit, ShuttingDown, Thread, ExitLabels
  <1>2. TypeOK /\ QuitInv /\ [Next]_vars => QuitInv'
    BY QuitStep
  <1>3. QuitInv => ShutdownOnlyAfterQuit
    BY DEF QuitInv
  <1>4. QED
    BY <1>1, <1>2, <1>3, TypeCorrect, PTL DEF Spec

\* If every recv returns a whole message and no wakeup is spurious, the hand-over
\* with client_wait and s_to_c_cond works: the turn is never with two sides.
THEOREM OrderHolds ==
  ASSUME Pieces \subseteq {1}, Spurious = {}
  PROVE  Spec => []OrderInv
  <1>1. Init => OrderInv
    BY DEF Init, OrderInv, TurnInv, QuitInv, MutexInv, OneTurn, MainTurn, ClientTurn, ServerTurn,
           DispatchBusy, ShutdownOnlyAfterQuit, ShuttingDown, Holds, AllDead, Thread, Mutex,
           NoThread, ExitLabels
  <1>2. TypeOK /\ CounterInv /\ OrderInv /\ [Next]_vars => OrderInv'
    BY OrderStep DEF CounterInv
  <1>3. QED
    BY <1>1, <1>2, TypeAndCounter, PTL DEF Spec

\* Under the same assumptions the turn is never with two sides.
THEOREM OneTurnHolds ==
  ASSUME Pieces \subseteq {1}, Spurious = {}
  PROVE  Spec => []OneTurn
  <1>1. OrderInv => OneTurn
    BY DEF OrderInv, TurnInv
  <1>2. QED
    BY <1>1, OrderHolds, PTL

\* Under the same assumptions main destroys s_to_c_mutex and s_to_c_cond when
\* nobody uses them or is about to (main.c:245-249).
THEOREM TeardownHolds ==
  ASSUME Pieces \subseteq {1}, Spurious = {}
  PROVE  Spec => []IdleWhenDestroyed
  <1>1. TypeOK /\ OrderInv => IdleWhenDestroyed
    <2> SUFFICES ASSUME TypeOK, OrderInv, ShuttingDown PROVE IdleWhenDestroyed
      BY DEF IdleWhenDestroyed
    <2>1. closed /\ ~AllDead /\ ~ServerTurn
      BY DEF OrderInv, TurnInv, QuitInv, OneTurn, ClientTurn, ShutdownOnlyAfterQuit, ShuttingDown,
             AllDead, Thread
    <2>2. pc["client"] \notin {"lock", "check", "waiting", "prompt"}
      BY <2>1 DEF OrderInv, TurnInv, ExitLabels
    <2>3. pc["dispatch"] \notin {"lock", "parse", "enter", "signal", "unlock"}
      BY <2>1, <2>2 DEF OrderInv, MutexInv, ServerTurn, DispatchBusy
    <2>4. owner["s_to_c_mutex"] = NoThread
      BY <2>1, <2>2, <2>3 DEF OrderInv, MutexInv, Holds, ShuttingDown, TypeOK, Mutex, Thread
    <2>5. QED
      BY <2>2, <2>3, <2>4 DEF IdleWhenDestroyed
  <1>2. QED
    BY <1>1, TypeCorrect, OrderHolds, PTL

=============================================================================
