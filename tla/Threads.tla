------------------------------ MODULE Threads ------------------------------
(***************************************************************************)
(* The three threads of main.c: the main (server) thread, the client       *)
(* thread client_f and the receiver thread dispatch_f, with the two        *)
(* mutexes, the two condition variables, the thread-specific-data key, the *)
(* TCP connection and the terminal they share.                             *)
(*                                                                         *)
(* A label of pc names the call a thread is about to make.  The content of *)
(* messages is left out: the connection carries a number of pieces, each   *)
(* what one recv may return.                                               *)
(***************************************************************************)
EXTENDS Integers, Sequences

CONSTANTS
  Lines,         \* the lines the user may type: sequences of characters
  Pieces,        \* into how many pieces TCP may cut one message
  MaxStream,     \* bound: pieces on the connection at one time
  Spurious,      \* the condition variables that may wake a waiter unsignalled
  Failures,      \* the system calls that may fail
  OnceOutcomes,  \* what pthread_once may do with its uninitialised control word
  Timely         \* which delays are long compared with a thread's steps

Thread   == {"main", "client", "dispatch"}
NoThread == "none"
Mutex    == {"s_to_c_mutex", "g_mutex"}
Cond     == {"s_to_c_cond", "g_cond"}

(***************************************************************************)
(* Characters of the menu: "one" is an option without a submenu that is    *)
(* also a species of PUSH (1, 2), "nine" one that is not (8, 9), "push" is *)
(* 4, "menu" any other option with a submenu (3, 5, 6, 7), "q" quits,      *)
(* "nl" is Enter and "junk" is everything else.                            *)
(***************************************************************************)
Option == {"one", "nine", "push", "menu"}
Char   == Option \cup {"q", "nl", "junk"}

ASSUME ThreadsAssumption ==
  /\ Lines \subseteq Seq(Char)
  /\ Pieces \subseteq Nat \ {0}
  /\ MaxStream \in Nat
  /\ Spurious \subseteq Cond
  /\ Failures \subseteq {"bind", "connect", "accept", "send"}
  /\ OnceOutcomes \subseteq {"run", "skip", "hang"}
  /\ Timely \subseteq {"sleep", "typing"}

VARIABLES
  pc,                      \* the next call of each thread
  owner,                   \* the thread that holds each mutex
  waiters,                 \* the threads blocked on each condition variable
  destroyed,               \* the mutexes main has destroyed
  client_wait,             \* the flag that says whether client_f must wait
  tty,                     \* the characters typed and not read yet
  option,                  \* the option client_f has read
  species,                 \* the answer client_f has read in a submenu
  connected,               \* a connection is in the listener's queue or beyond
  closed,                  \* client_f has closed its end of the connection
  stream,                  \* the pieces sent and not received yet
  cancelled,               \* main has cancelled the dispatch thread
  key_live,                \* g_key exists
  tsd,                     \* the threads whose g_key value is not NULL
  tsd_destructor_counter,
  loaded                   \* what each destructor read of the counter

sync     == <<owner, waiters, destroyed>>
terminal == <<tty, option, species>>
socket   == <<connected, closed, stream>>
tls      == <<key_live, tsd, tsd_destructor_counter, loaded>>
vars     == <<pc, sync, client_wait, terminal, socket, cancelled, tls>>

Init ==
  /\ pc = [t \in Thread |-> IF t = "main" THEN "start" ELSE "unborn"]
  /\ owner = [m \in Mutex |-> NoThread]
  /\ waiters = [c \in Cond |-> {}]
  /\ destroyed = {}
  /\ client_wait = TRUE
  /\ tty = <<>>
  /\ option = "nl"
  /\ species = "nl"
  /\ connected = FALSE
  /\ closed = FALSE
  /\ stream = 0
  /\ cancelled = FALSE
  /\ key_live = FALSE
  /\ tsd = {}
  /\ tsd_destructor_counter = 0
  /\ loaded = [t \in Thread |-> 0]

-----------------------------------------------------------------------------
(* The pthread library, as glibc implements it. *)

Step(t, from, to) == pc[t] = from /\ pc' = [pc EXCEPT ![t] = to]

\* exit(0), or a crash: every thread ends at once.
ProcessEnds == pc' = [t \in Thread |-> "dead"]

\* Locking a destroyed mutex fails with EINVAL and no caller looks at it.
Lock(t, m) ==
  /\ \/ m \notin destroyed /\ owner[m] = NoThread /\ owner' = [owner EXCEPT ![m] = t]
     \/ m \in destroyed /\ owner' = owner
  /\ UNCHANGED <<waiters, destroyed>>

Unlock(m) ==
  /\ owner' = IF m \in destroyed THEN owner ELSE [owner EXCEPT ![m] = NoThread]
  /\ UNCHANGED <<waiters, destroyed>>

Wait(t, c, m) ==
  /\ waiters' = [waiters EXCEPT ![c] = @ \cup {t}]
  /\ owner' = IF m \in destroyed THEN owner ELSE [owner EXCEPT ![m] = NoThread]
  /\ UNCHANGED destroyed

\* A signal that finds nobody waiting is lost.
Signal(c) ==
  /\ \/ waiters[c] = {} /\ waiters' = waiters
     \/ \E t \in waiters[c] : waiters' = [waiters EXCEPT ![c] = @ \ {t}]
  /\ UNCHANGED <<owner, destroyed>>

\* A woken waiter leaves pthread_cond_wait when it has the mutex again.
Wake(t, c, m) == t \notin waiters[c] /\ Lock(t, m)

\* pthread_mutex_destroy refuses (EBUSY) a mutex that is held.
DestroyMutex(m) ==
  /\ destroyed' = IF owner[m] = NoThread THEN destroyed \cup {m} ELSE destroyed
  /\ UNCHANGED <<owner, waiters>>

\* pthread_cond_destroy blocks while a thread waits on the variable.
DestroyCond(c) == waiters[c] = {} /\ UNCHANGED sync

\* pthread_setspecific(g_key, p): without a key it fails, unnoticed.
SetSpecific(t) == tsd' = IF key_live THEN tsd \cup {t} ELSE tsd

SpuriousWakeup ==
  /\ \E c \in Spurious : \E t \in waiters[c] :
       waiters' = [waiters EXCEPT ![c] = @ \ {t}]
  /\ UNCHANGED <<pc, owner, destroyed, client_wait, terminal, socket, cancelled, tls>>

-----------------------------------------------------------------------------
(* The user and the terminal.  Every fgetc or getchar takes one character. *)

ClientReads   == pc["client"] \in {"option", "option_nl", "species", "species_nl"}
DispatchReads == pc["dispatch"] = "enter"

\* The user types a line, at a prompt or ahead of it.  "typing" \in Timely: only
\* at a prompt, and more slowly than main steps from one pthread call to the next.
UserTypes ==
  /\ tty = <<>>
  /\ "typing" \in Timely =>
       /\ ClientReads \/ DispatchReads
       /\ pc["main"] \notin {"s_lock", "s_signal", "s_unlock", "g_lock", "g_wait"}
  /\ \E l \in Lines : tty' = l
  /\ UNCHANGED <<pc, sync, client_wait, option, species, socket, cancelled, tls>>

GetChar == tty # <<>> /\ tty' = Tail(tty)

\* "sleep" \in Timely: after one second the client thread waits for a signal,
\* for the user, or has ended.
Slept == "sleep" \in Timely =>
  \/ "client" \in waiters["s_to_c_cond"]
  \/ ClientReads /\ tty = <<>>
  \/ pc["client"] = "dead"

-----------------------------------------------------------------------------
(* The end of a thread: pthread_exit, return or cancellation, and the      *)
(* destructor of g_key.                                                    *)

ExitLabels == {"exit", "d_lock", "d_dec", "d_store", "d_test", "d_unlock", "dead"}

\* glibc runs the destructor for a value that is not NULL while the key exists.
ThreadExit(t) ==
  /\ Step(t, "exit", IF key_live /\ t \in tsd THEN "d_lock" ELSE "dead")
  /\ tsd' = tsd \ {t}
  /\ UNCHANGED <<sync, client_wait, terminal, socket, cancelled,
                 key_live, tsd_destructor_counter, loaded>>

DestructorLock(t) ==
  /\ Step(t, "d_lock", "d_dec")
  /\ Lock(t, "g_mutex")
  /\ UNCHANGED <<client_wait, terminal, socket, cancelled, tls>>

\* tsd_destructor_counter-- of a volatile int: a load and a store.
DestructorLoad(t) ==
  /\ Step(t, "d_dec", "d_store")
  /\ loaded' = [loaded EXCEPT ![t] = tsd_destructor_counter]
  /\ UNCHANGED <<sync, client_wait, terminal, socket, cancelled,
                 key_live, tsd, tsd_destructor_counter>>

DestructorStore(t) ==
  /\ Step(t, "d_store", "d_test")
  /\ tsd_destructor_counter' = loaded[t] - 1
  /\ UNCHANGED <<sync, client_wait, terminal, socket, cancelled, key_live, tsd, loaded>>

DestructorTest(t) ==
  /\ Step(t, "d_test", "d_unlock")
  /\ key_live' = (key_live /\ tsd_destructor_counter > 0)
  /\ UNCHANGED <<sync, client_wait, terminal, socket, cancelled,
                 tsd, tsd_destructor_counter, loaded>>

DestructorUnlock(t) ==
  /\ Step(t, "d_unlock", "dead")
  /\ Unlock("g_mutex")
  /\ UNCHANGED <<client_wait, terminal, socket, cancelled, tls>>

Ending(t) ==
  \/ ThreadExit(t) \/ DestructorLock(t) \/ DestructorLoad(t)
  \/ DestructorStore(t) \/ DestructorTest(t) \/ DestructorUnlock(t)

-----------------------------------------------------------------------------
(* main *)

\* pthread_once, socket, bind, listen, the creation of the client thread.  The
\* control word of pthread_once is uninitialised: it may say that pthread_once_f
\* has run already, and then there is no key.
MainStart ==
  /\ pc["main"] = "start"
  /\ pc' = [pc EXCEPT !["main"] = "sleep", !["client"] = "start"]
  /\ \/ "run" \in OnceOutcomes /\ key_live' = TRUE /\ tsd' = {"main"}
     \/ "skip" \in OnceOutcomes /\ key_live' = FALSE /\ tsd' = {}
  /\ UNCHANGED <<sync, client_wait, terminal, socket, cancelled,
                 tsd_destructor_counter, loaded>>

\* ... or that another thread is running it, which it never finishes.
MainOnceHangs ==
  /\ "hang" \in OnceOutcomes
  /\ Step("main", "start", "hung")
  /\ UNCHANGED <<sync, client_wait, terminal, socket, cancelled, tls>>

\* bind or listen fails, or accept fails with an error other than EAGAIN.
MainFails ==
  /\ \/ pc["main"] = "start" /\ "bind" \in Failures
     \/ pc["main"] = "accept" /\ "accept" \in Failures
  /\ ProcessEnds
  /\ UNCHANGED <<sync, client_wait, terminal, socket, cancelled, tls>>

\* Mutant: main does not sleep.
MainSleep_Not ==
  /\ Step("main", "sleep", "accept")
  /\ UNCHANGED <<sync, client_wait, terminal, socket, cancelled, tls>>

MainSleep ==
  /\ Step("main", "sleep", "accept")
  /\ Slept
  /\ UNCHANGED <<sync, client_wait, terminal, socket, cancelled, tls>>

MainAccept ==
  /\ connected
  /\ pc["main"] = "accept"
  /\ pc' = [pc EXCEPT !["main"] = "s_lock", !["dispatch"] = "start"]
  /\ UNCHANGED <<sync, client_wait, terminal, socket, cancelled, tls>>

\* The listening socket does not block: EAGAIN, and again.
MainAcceptAgain == pc["main"] = "accept" /\ ~connected /\ UNCHANGED vars

MainLockS ==
  /\ Step("main", "s_lock", "s_signal")
  /\ Lock("main", "s_to_c_mutex")
  /\ UNCHANGED <<client_wait, terminal, socket, cancelled, tls>>

MainSignal ==
  /\ Step("main", "s_signal", "s_unlock")
  /\ Signal("s_to_c_cond")
  /\ UNCHANGED <<client_wait, terminal, socket, cancelled, tls>>

MainUnlockS ==
  /\ Step("main", "s_unlock", "g_lock")
  /\ Unlock("s_to_c_mutex")
  /\ UNCHANGED <<client_wait, terminal, socket, cancelled, tls>>

MainLockG ==
  /\ Step("main", "g_lock", "g_wait")
  /\ Lock("main", "g_mutex")
  /\ UNCHANGED <<client_wait, terminal, socket, cancelled, tls>>

MainWait ==
  /\ Step("main", "g_wait", "g_waiting")
  /\ Wait("main", "g_cond", "g_mutex")
  /\ UNCHANGED <<client_wait, terminal, socket, cancelled, tls>>

MainWake ==
  /\ Step("main", "g_waiting", "close")
  /\ Wake("main", "g_cond", "g_mutex")
  /\ UNCHANGED <<client_wait, terminal, socket, cancelled, tls>>

MainClose ==
  /\ Step("main", "close", "cancel")
  /\ Unlock("g_mutex")
  /\ UNCHANGED <<client_wait, terminal, socket, cancelled, tls>>

\* Mutant: the dispatch thread is not cancelled.
MainCancel_Forgets ==
  /\ Step("main", "cancel", "destroy_1")
  /\ UNCHANGED <<sync, client_wait, terminal, socket, cancelled, tls>>

MainCancel ==
  /\ Step("main", "cancel", "destroy_1")
  /\ cancelled' = TRUE
  /\ UNCHANGED <<sync, client_wait, terminal, socket, tls>>

MainDestroy ==
  /\ \/ Step("main", "destroy_1", "destroy_2") /\ DestroyCond("g_cond")
     \/ Step("main", "destroy_2", "destroy_3") /\ DestroyCond("s_to_c_cond")
     \/ Step("main", "destroy_3", "destroy_4") /\ DestroyMutex("g_mutex")
     \/ Step("main", "destroy_4", "exit") /\ DestroyMutex("s_to_c_mutex")
  /\ UNCHANGED <<client_wait, terminal, socket, cancelled, tls>>

Main ==
  \/ MainStart \/ MainOnceHangs \/ MainFails \/ MainSleep \/ MainAccept
  \/ MainAcceptAgain \/ MainLockS \/ MainSignal \/ MainUnlockS \/ MainLockG
  \/ MainWait \/ MainWake \/ MainClose \/ MainCancel \/ MainDestroy
  \/ Ending("main")

-----------------------------------------------------------------------------
(* client_f *)

\* Mutant: the main thread is not counted.
ClientStart_TwoThreads ==
  /\ Step("client", "start", "connect")
  /\ tsd_destructor_counter' = 2
  /\ UNCHANGED <<sync, client_wait, terminal, socket, cancelled, key_live, tsd, loaded>>

ClientStart ==
  /\ Step("client", "start", "connect")
  /\ tsd_destructor_counter' = 3
  /\ UNCHANGED <<sync, client_wait, terminal, socket, cancelled, key_live, tsd, loaded>>

ClientConnect ==
  /\ Step("client", "connect", "lock")
  /\ connected' = TRUE
  /\ SetSpecific("client")
  /\ UNCHANGED <<sync, client_wait, terminal, closed, stream, cancelled,
                 key_live, tsd_destructor_counter, loaded>>

ClientConnectFails ==
  /\ "connect" \in Failures
  /\ Step("client", "connect", "exit")
  /\ UNCHANGED <<sync, client_wait, terminal, socket, cancelled, tls>>

ClientLock ==
  /\ Step("client", "lock", "check")
  /\ Lock("client", "s_to_c_mutex")
  /\ UNCHANGED <<client_wait, terminal, socket, cancelled, tls>>

\* if (client_wait) pthread_cond_wait(...): not a loop.
ClientWait ==
  /\ client_wait
  /\ Step("client", "check", "waiting")
  /\ Wait("client", "s_to_c_cond", "s_to_c_mutex")
  /\ UNCHANGED <<client_wait, terminal, socket, cancelled, tls>>

ClientDoesNotWait ==
  /\ ~client_wait
  /\ Step("client", "check", "prompt")
  /\ UNCHANGED <<sync, client_wait, terminal, socket, cancelled, tls>>

ClientWake ==
  /\ Step("client", "waiting", "prompt")
  /\ Wake("client", "s_to_c_cond", "s_to_c_mutex")
  /\ UNCHANGED <<client_wait, terminal, socket, cancelled, tls>>

ClientPrompt ==
  /\ Step("client", "prompt", "option")
  /\ Unlock("s_to_c_mutex")
  /\ UNCHANGED <<client_wait, terminal, socket, cancelled, tls>>

ClientReadsOption ==
  /\ Step("client", "option", "option_nl")
  /\ GetChar
  /\ option' = Head(tty)
  /\ UNCHANGED <<sync, client_wait, species, socket, cancelled, tls>>

\* The second character is thrown away; then the option is looked at.
ClientQuits ==
  /\ option = "q"
  /\ Step("client", "option_nl", "q_lock")
  /\ GetChar
  /\ closed' = TRUE
  /\ UNCHANGED <<sync, client_wait, option, species, connected, stream, cancelled, tls>>

ClientRejects ==
  /\ option \notin Option \cup {"q"}
  /\ Step("client", "option_nl", "lock")
  /\ GetChar
  /\ client_wait' = FALSE
  /\ UNCHANGED <<sync, option, species, socket, cancelled, tls>>

\* Mutant: CLIENT_CALL_SEND_FUNC does not set client_wait.
ClientChooses_NoWait ==
  /\ option \in Option
  /\ Step("client", "option_nl", IF option \in {"push", "menu"} THEN "species" ELSE "send")
  /\ GetChar
  /\ UNCHANGED <<sync, client_wait, option, species, socket, cancelled, tls>>

ClientChooses ==
  /\ option \in Option
  /\ Step("client", "option_nl", IF option \in {"push", "menu"} THEN "species" ELSE "send")
  /\ GetChar
  /\ client_wait' = TRUE
  /\ UNCHANGED <<sync, option, species, socket, cancelled, tls>>

ClientReadsSpecies ==
  /\ GetChar
  /\ \/ Step("client", "species", "species_nl") /\ species' = Head(tty)
     \/ Step("client", "species_nl", "send") /\ species' = species
  /\ UNCHANGED <<sync, client_wait, option, socket, cancelled, tls>>

\* A species of PUSH other than 1 and 2 leaves the message pointer unset.
Unset == option = "push" /\ species # "one"

\* Nothing leaves if send fails, which nobody looks at, or perhaps if the pointer
\* is unset; through an unset pointer anything may leave.
NothingSent == Unset \/ "send" \in Failures

ClientSends ==
  /\ Step("client", "send", "lock")
  /\ \E n \in Pieces \cup (IF NothingSent THEN {0} ELSE {}) :
       stream + n <= MaxStream /\ stream' = stream + n
  /\ UNCHANGED <<sync, client_wait, terminal, connected, closed, cancelled, tls>>

ClientCrashes ==
  /\ pc["client"] = "send" /\ Unset
  /\ ProcessEnds
  /\ UNCHANGED <<sync, client_wait, terminal, socket, cancelled, tls>>

ClientSignals ==
  /\ \/ Step("client", "q_lock", "q_signal") /\ Lock("client", "g_mutex")
     \/ Step("client", "q_signal", "q_unlock") /\ Signal("g_cond")
     \/ Step("client", "q_unlock", "exit") /\ Unlock("g_mutex")
  /\ UNCHANGED <<client_wait, terminal, socket, cancelled, tls>>

Client ==
  \/ ClientStart \/ ClientConnect \/ ClientConnectFails \/ ClientLock
  \/ ClientWait \/ ClientDoesNotWait \/ ClientWake \/ ClientPrompt
  \/ ClientReadsOption \/ ClientQuits \/ ClientRejects \/ ClientChooses
  \/ ClientReadsSpecies \/ ClientSends \/ ClientCrashes \/ ClientSignals
  \/ Ending("client")

-----------------------------------------------------------------------------
(* dispatch_f *)

DispatchStart ==
  /\ Step("dispatch", "start", "recv")
  /\ SetSpecific("dispatch")
  /\ UNCHANGED <<sync, client_wait, terminal, socket, cancelled,
                 key_live, tsd_destructor_counter, loaded>>

DispatchReceives ==
  /\ Step("dispatch", "recv", "sleep")
  /\ \E n \in 1..stream : stream' = stream - n
  /\ UNCHANGED <<sync, client_wait, terminal, connected, closed, cancelled, tls>>

\* The peer has closed: recv returns 0 for ever and the loop spins.
DispatchSpins == pc["dispatch"] = "recv" /\ closed /\ stream = 0 /\ UNCHANGED vars

DispatchSleeps ==
  /\ Step("dispatch", "sleep", "lock")
  /\ Slept
  /\ UNCHANGED <<sync, client_wait, terminal, socket, cancelled, tls>>

DispatchLock ==
  /\ Step("dispatch", "lock", "parse")
  /\ Lock("dispatch", "s_to_c_mutex")
  /\ UNCHANGED <<client_wait, terminal, socket, cancelled, tls>>

DispatchParses ==
  /\ Step("dispatch", "parse", "enter")
  /\ UNCHANGED <<sync, client_wait, terminal, socket, cancelled, tls>>

\* What a parser does with bytes that are no message of the menu is not modelled
\* here: it may use an unset pointer or a length that leads out of the buffer.
DispatchCrashes ==
  /\ pc["dispatch"] = "parse"
  /\ ProcessEnds
  /\ UNCHANGED <<sync, client_wait, terminal, socket, cancelled, tls>>

DispatchReadsEnter ==
  /\ Step("dispatch", "enter", "signal")
  /\ GetChar
  /\ UNCHANGED <<sync, client_wait, option, species, socket, cancelled, tls>>

\* Mutant: the signal goes to the wrong condition variable.
DispatchSignal_GCond ==
  /\ Step("dispatch", "signal", "unlock")
  /\ Signal("g_cond")
  /\ UNCHANGED <<client_wait, terminal, socket, cancelled, tls>>

DispatchSignal ==
  /\ Step("dispatch", "signal", "unlock")
  /\ Signal("s_to_c_cond")
  /\ UNCHANGED <<client_wait, terminal, socket, cancelled, tls>>

DispatchUnlock ==
  /\ Step("dispatch", "unlock", "recv")
  /\ Unlock("s_to_c_mutex")
  /\ UNCHANGED <<client_wait, terminal, socket, cancelled, tls>>

\* Deferred cancellation: recv, sleep, and the writes and reads of stdio.
DispatchCancelled ==
  /\ cancelled
  /\ \E l \in {"recv", "sleep", "parse", "enter"} : Step("dispatch", l, "exit")
  /\ UNCHANGED <<sync, client_wait, terminal, socket, cancelled, tls>>

Dispatch ==
  \/ DispatchStart \/ DispatchReceives \/ DispatchSpins \/ DispatchSleeps
  \/ DispatchLock \/ DispatchParses \/ DispatchCrashes \/ DispatchReadsEnter
  \/ DispatchSignal \/ DispatchUnlock \/ DispatchCancelled \/ Ending("dispatch")

-----------------------------------------------------------------------------
AllDead    == \A t \in Thread : pc[t] = "dead"
Terminated == (AllDead \/ pc["main"] = "hung") /\ UNCHANGED vars

Next == Main \/ Client \/ Dispatch \/ UserTypes \/ SpuriousWakeup \/ Terminated

Spec == Init /\ [][Next]_vars

\* The scheduler runs every thread that can run, and the user answers prompts.
FairSpec ==
  /\ Spec
  /\ WF_vars(Main) /\ WF_vars(Client) /\ WF_vars(Dispatch)
  /\ WF_vars(UserTypes)

-----------------------------------------------------------------------------
(* Whose turn it is. *)

\* main still owes the client the first wakeup.
MainTurn == pc["main"] \in {"start", "sleep", "accept", "s_lock", "s_signal"}

\* The client is at its menu, or will be without another wakeup, or has quit.
ClientTurn ==
  \/ pc["client"] \in {"prompt", "option", "option_nl", "species", "species_nl", "send"}
  \/ pc["client"] \in {"lock", "check"} /\ ~client_wait
  \/ pc["client"] = "waiting" /\ "client" \notin waiters["s_to_c_cond"]
  \/ closed

\* A message is on its way to the dispatch thread or being reported by it.
DispatchBusy == pc["dispatch"] \in {"sleep", "lock", "parse", "enter", "signal"}
ServerTurn   == stream > 0 \/ DispatchBusy

-----------------------------------------------------------------------------
(* Properties. *)

MainLabel == {"start", "hung", "sleep", "accept", "s_lock", "s_signal", "s_unlock",
  "g_lock", "g_wait", "g_waiting", "close", "cancel",
  "destroy_1", "destroy_2", "destroy_3", "destroy_4"} \cup ExitLabels
ClientLabel == {"unborn", "start", "connect", "lock", "check", "waiting", "prompt",
  "option", "option_nl", "species", "species_nl", "send",
  "q_lock", "q_signal", "q_unlock"} \cup ExitLabels
DispatchLabel == {"unborn", "start", "recv", "sleep", "lock", "parse", "enter",
  "signal", "unlock"} \cup ExitLabels
Label == MainLabel \cup ClientLabel \cup DispatchLabel

\* Every variable has its type; the destructor counter never leaves 0..3.
TypeOK ==
  /\ pc \in [Thread -> Label]
  /\ pc["main"] \in MainLabel /\ pc["client"] \in ClientLabel
  /\ pc["dispatch"] \in DispatchLabel
  /\ owner \in [Mutex -> Thread \cup {NoThread}]
  /\ waiters \in [Cond -> SUBSET Thread]
  /\ destroyed \subseteq Mutex
  /\ tty \in Seq(Char) /\ option \in Char /\ species \in Char
  /\ client_wait \in BOOLEAN /\ connected \in BOOLEAN /\ closed \in BOOLEAN
  /\ cancelled \in BOOLEAN /\ key_live \in BOOLEAN
  /\ stream \in Nat
  /\ tsd \subseteq Thread
  /\ tsd_destructor_counter \in 0..3
  /\ loaded \in [Thread -> 0..3]

\* The turn is never with two sides: no message is on its way or being reported
\* while the menu is open, and nothing happens before main's first wakeup
\* (client_wait, s_to_c_cond).  In particular client_f and dispatch_f never wait for
\* the terminal at the same time (main.c:93, 138).  Which of them gets which
\* character is another matter: what a line typed at the prompt of one has left is
\* read by the other.
OneTurn ==
  /\ ~(MainTurn /\ ClientTurn)
  /\ ~(MainTurn /\ ServerTurn)
  /\ ~(ClientTurn /\ ServerTurn)

\* The main thread shuts down only when the client has left, as it announces
\* (main.c:241).
ShuttingDown == pc["main"] \in
  {"close", "cancel", "destroy_1", "destroy_2", "destroy_3", "destroy_4"}
ShutdownOnlyAfterQuit == ShuttingDown => closed

\* While main destroys s_to_c_mutex and s_to_c_cond, no other thread holds the
\* mutex, waits on the condition or is on its way to do so; in particular the
\* dispatch thread is never cancelled with the mutex in hand.
IdleWhenDestroyed == ShuttingDown =>
  /\ owner["s_to_c_mutex"] = NoThread
  /\ pc["client"] \notin {"lock", "check", "waiting", "prompt"}
  /\ pc["dispatch"] \notin {"lock", "parse", "enter", "signal", "unlock"}

\* g_key is deleted only when no thread has a value left under it: the
\* destructor of every thread has run, whatever the order in which the three
\* threads end and even when their decrements race (main.c:147-159).
KeyDeletedLast == [][key_live /\ ~key_live' => tsd = {}]_vars

\* Under the timing the sleeps are there for, no signal is lost: each finds the
\* thread it is for waiting.
SignalsArrive == [][\A t \in Thread :
  /\ pc[t] \in {"s_signal", "signal"} /\ pc'[t] # pc[t] => "client" \in waiters["s_to_c_cond"]
  /\ pc[t] = "q_signal" /\ pc'[t] # pc[t] => "main" \in waiters["g_cond"]]_vars

\* Once the client has quit, every thread ends (main.c:94-100, 239-251).
QuitEnds == closed ~> AllDead

\* The threads keep the promise of Console, which knows no confusion: never is the
\* turn with two sides.
phase ==
  CASE AllDead    -> "ended"
    [] ~AllDead /\ closed -> "closing"
    [] ~AllDead /\ ~closed /\ MainTurn /\ ~ClientTurn /\ ~ServerTurn -> "starting"
    [] ~AllDead /\ ~closed /\ ~MainTurn /\ ClientTurn /\ ~ServerTurn -> "client"
    [] ~AllDead /\ ~closed /\ ~MainTurn /\ ~ClientTurn /\ ServerTurn -> "server"
    [] ~AllDead /\ ~closed /\ ~MainTurn /\ ~ClientTurn /\ ~ServerTurn -> "stalled"
    [] OTHER -> "confused"

Timely_Console == INSTANCE Console WITH MayStall <- FALSE
KeepsPromise == Timely_Console!Spec
NeverStalls  == Timely_Console!SafeSpec   \* ... its safety part

\* Whatever the timing, the conversation may stall (a signal came before its
\* waiter, and was lost) but never goes wrong in another way: no report without a
\* message, no menu without a wakeup, no way out but the menu's.
Console_ == INSTANCE Console WITH MayStall <- TRUE
KeepsOrder == Console_!SafeSpec

-----------------------------------------------------------------------------
(* The inductive invariants behind the properties. *)

\* OneTurn is kept because the flag and the connection agree with the labels.
TurnInv ==
  /\ OneTurn
  /\ stream <= 1 /\ (stream > 0 => ~DispatchBusy)
  /\ pc["client"] \in {"unborn", "start", "connect", "species", "species_nl", "send"}
       => client_wait
  /\ closed => pc["client"] \in {"q_lock", "q_signal", "q_unlock"} \cup ExitLabels

\* main leaves its wait only after the client's signal, the client signals only
\* after it has closed the connection.
QuitInv ==
  /\ pc["client"] \in {"q_lock", "q_signal", "q_unlock"} => closed
  /\ pc["main"] = "g_waiting" /\ "main" \notin waiters["g_cond"] => closed
  /\ pc["main"] \in {"exit", "d_lock", "d_dec", "d_store", "d_test", "d_unlock"} => closed
  /\ cancelled => closed
  /\ "s_to_c_mutex" \in destroyed => closed /\ pc["main"] \in ExitLabels
  /\ ShutdownOnlyAfterQuit

\* s_to_c_mutex is held exactly where the code holds it, and the client has not
\* come back from its wait while the dispatch thread still holds the mutex.
Holds(t) ==
  \/ t = "main" /\ pc[t] \in {"s_signal", "s_unlock"}
  \/ t = "client" /\ pc[t] \in {"check", "prompt"}
  \/ t = "dispatch" /\ pc[t] \in {"parse", "enter", "signal", "unlock"}
MutexInv ==
  /\ ~AllDead => \A t \in Thread : owner["s_to_c_mutex"] = t <=> Holds(t)
  /\ pc["dispatch"] = "unlock" => pc["client"] \in {"lock", "waiting"}
  /\ pc["dispatch"] # "unborn" => connected \/ AllDead
  /\ connected => pc["client"] \notin {"unborn", "start", "connect"}
  /\ pc["client"] \in ExitLabels /\ connected => closed \/ AllDead

\* The three together are inductive.
OrderInv == TurnInv /\ QuitInv /\ MutexInv

\* Under the timing of Timely a thread that is about to be signalled waits already:
\* the client when main has slept or dispatch_f has, and main when the user quits,
\* because nothing has been typed before main waits.
ArrivalInv ==
  /\ waiters["s_to_c_cond"] \subseteq {"client"}
  /\ "client" \in waiters["s_to_c_cond"] => pc["client"] = "waiting" \/ AllDead
  /\ pc["main"] = "accept" => "client" \in waiters["s_to_c_cond"] \/ pc["client"] = "dead"
  /\ pc["main"] \in {"s_lock", "s_signal"}
       \/ pc["dispatch"] \in {"lock", "parse", "enter", "signal"}
       => "client" \in waiters["s_to_c_cond"]
  /\ MainTurn \/ pc["main"] \in {"s_unlock", "g_lock", "g_wait"} => tty = <<>>
  /\ pc["client"] \in {"q_lock", "q_signal"} =>
       pc["main"] = "g_waiting" /\ "main" \in waiters["g_cond"]
  /\ pc["main"] = "dead" => closed \/ AllDead

\* ... and somebody has the turn, if no send fails and no pointer is left unset.
HeldInv ==
  /\ AllDead \/ MainTurn \/ ClientTurn \/ ServerTurn
  /\ option # "push" /\ tty \in Seq(Char \ {"push"})

\* The threads come to life in order: main, the client, the dispatch thread.
BirthInv ==
  /\ pc["main"] \in {"start", "hung"} => pc["client"] = "unborn" /\ tsd = {}
  /\ pc["client"] \in {"unborn", "start"} =>
       ~connected /\ pc["main"] \in {"start", "sleep", "accept", "hung"}
  /\ pc["main"] \in {"start", "sleep", "accept", "hung"} => pc["dispatch"] = "unborn"

\* The destructor counter, and every copy of it that a thread is about to store,
\* is at least the number of threads that may still decrement it, and only a
\* thread whose end has not begun has a value under g_key.
Owes(t) == IF pc[t] \in {"d_test", "d_unlock", "dead", "hung"} THEN 0 ELSE 1
Debt    == Owes("main") + Owes("client") + Owes("dispatch")
CounterInv ==
  /\ BirthInv
  /\ pc["client"] \notin {"unborn", "start"} => tsd_destructor_counter >= Debt
  /\ \A t \in Thread : pc[t] = "d_store" => loaded[t] >= Debt
  /\ \A t \in tsd : pc[t] \notin (ExitLabels \ {"exit"}) \/ AllDead

=============================================================================
