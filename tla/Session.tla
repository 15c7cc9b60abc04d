------------------------------ MODULE Session ------------------------------
(***************************************************************************)
(* The threads of main.c with the messages of hippie.c: which message the  *)
(* menu chooses, the bytes that are on the connection and in the buffer of *)
(* dispatch_f, and what is printed of them, while the threads go their way *)
(* as in Threads.                                                          *)
(*                                                                         *)
(* TCP does not cut a message here, and the uninitialised first byte of a  *)
(* message happens to be 0: what becomes of parts and of garbage is in     *)
(* Wire.                                                                   *)
(***************************************************************************)
EXTENDS Threads, Messages

ASSUME SessionAssumption == Pieces = {1} /\ MaxStream = 1

VARIABLES
  chosen,    \* the message that was sent and is not reported yet, or "none"
  wire,      \* the bytes on the connection
  buffer,    \* the receive buffer of dispatch_f
  printed    \* what it has printed since

content == <<chosen, wire, buffer, printed>>
svars   == <<vars, content>>

SessionInit == Init /\ chosen = "none" /\ wire = <<>> /\ buffer = <<>> /\ printed = {}

\* The digits that Threads takes for one character.
CharOf == <<"one", "one", "menu", "push", "menu", "menu", "menu", "nine", "nine">>
Options == {o \in 1..9 : CharOf[o] = option}
Answers == LET digits == {a \in 1..9 : CharOf[a] = species}
           IN IF digits = {} THEN {0} ELSE digits

MessagesFor(o) ==
  IF o \in DOMAIN Submenu THEN {Selected(o, a) : a \in Answers} ELSE {Simple[o]}

\* What send may be given of the message s: all of it, and what happens to lie
\* behind it up to the next '\0'.
Sendable == [s \in Species |->
  {LET msg == Bytes(s, 0) \o rest IN SubSeq(msg, 1, strlen(msg)) : rest \in Behind(s, Bytes(s, 0))}]

\* The message is built and sent.  Through an unset pointer whatever lies there is
\* sent.  Nothing is if send fails.
SendsMessage ==
  /\ ClientSends
  /\ \E o \in Options : chosen' \in MessagesFor(o)
  /\ \/ stream' = stream /\ wire' = wire
     \/ stream' > stream /\ chosen' = "unset" /\ wire' = wire \o Junk(7)
     \/ /\ stream' > stream /\ chosen' \in Species
        /\ \E bytes \in Sendable[chosen'] : wire' = wire \o bytes
  /\ UNCHANGED <<buffer, printed>>

ReceivesMessage ==
  /\ DispatchReceives
  /\ LET n == Min({Len(wire), BUFFER_SIZE}) IN
     /\ buffer' = Filled(buffer, SubSeq(wire, 1, n))
     /\ wire' = SubSeq(wire, n + 1, Len(wire))
  /\ UNCHANGED <<chosen, printed>>

ReportsMessage ==
  /\ DispatchParses
  /\ \E n \in Tails : printed' = Parse(buffer, n)
  /\ UNCHANGED <<chosen, wire, buffer>>

\* ... unless an unset pointer, or a length that leads out of the buffer, is used.
ReportCrashes ==
  /\ DispatchCrashes
  /\ \E n \in Tails : UNDEFINED \in Parse(buffer, n)
  /\ UNCHANGED content

\* Mutant: the buffer is not cleared.
ForgetsMessage_NoMemset ==
  /\ DispatchUnlock
  /\ chosen' = "none" /\ printed' = {}
  /\ UNCHANGED <<wire, buffer>>

\* The loop begins again, and the buffer is cleared.
ForgetsMessage ==
  /\ DispatchUnlock
  /\ chosen' = "none" /\ buffer' = <<>> /\ printed' = {}
  /\ UNCHANGED wire

\* Every other step of the threads.
Moves(t, from, to) == pc[t] = from /\ pc'[t] = to
Silent ==
  /\ Next
  /\ ~Moves("client", "send", "lock") /\ ~Moves("dispatch", "recv", "sleep")
  /\ ~Moves("dispatch", "parse", "enter") /\ ~Moves("dispatch", "unlock", "recv")
  /\ ~Moves("dispatch", "parse", "dead")
  /\ UNCHANGED content

SessionNext ==
  \/ SendsMessage \/ ReceivesMessage \/ ReportsMessage \/ ReportCrashes
  \/ ForgetsMessage \/ Silent

SessionSpec == SessionInit /\ [][SessionNext]_svars

-----------------------------------------------------------------------------
(* Properties. *)

\* What is said and heard, while a message is on its way or being reported.
topic == IF phase = "server" THEN chosen ELSE "none"
heard == IF phase = "server" /\ pc["dispatch"] \in {"enter", "signal"} THEN printed ELSE {}

\* Whatever the relative speed of the threads, every message the menu sends is
\* reported rightly, once, and before the next menu or the end of the conversation;
\* all of that but after an unknown answer to the submenu of PUSH.
Dialogue_ == INSTANCE Dialogue WITH Topics <- Species \cup {"unset"},
  NoTopic <- "none", Slip <- "unset"
KeepsDialogue == Dialogue_!Spec

\* The client has chosen a message, and waits for the wakeup after its report.
AwaitsReport ==
  /\ ~MainTurn
  /\ pc["client"] \in {"lock", "check", "waiting"}
  /\ pc["client"] \in {"lock", "check"} => client_wait
  /\ pc["client"] = "waiting" /\ "client" \notin waiters["s_to_c_cond"]
       => pc["dispatch"] = "unlock"

Reporting == DispatchBusy \/ pc["dispatch"] = "unlock"
Said      == IF chosen \in Species THEN Sendable[chosen] ELSE {Junk(7)}

\* The bytes are where the threads think they are: those of the message that was
\* chosen last, whole and with nothing before them, on the connection exactly when
\* a piece is, in the buffer exactly while it is being reported; and nothing is
\* printed but its report.  Only an unset pointer is sent through that Threads says
\* is unset.
BytesWithThreads == ~AllDead =>
  /\ chosen \in Species \cup {"none", "unset"}
  /\ chosen # "none" => AwaitsReport
  /\ chosen = "unset" => Unset
  /\ stream > 0 \/ Reporting => chosen # "none"
  /\ Reporting => stream = 0
  /\ wire   \in IF stream > 0 THEN Said ELSE {<<>>}
  /\ buffer \in IF Reporting THEN Said ELSE {<<>>}
  /\ pc["dispatch"] \in {"enter", "signal"} =>
       printed # {} /\ (chosen \in Species => Faithful(chosen, printed))

\* What the proofs take from Messages: what send may be given of a message is a
\* sequence of bytes that fits the receive buffer and is reported rightly when
\* nothing else is in it; and so does what lies behind an unset pointer fit.
Legible ==
  /\ BUFFER_SIZE >= 7
  /\ \A s \in Species : \A bytes \in Sendable[s] :
       /\ bytes \in Seq(Range(bytes))
       /\ Len(bytes) \in 1..BUFFER_SIZE
       /\ \A n \in Tails : Faithful(s, Parse(bytes, n))

\* Every block of memory a message is built in fits into the receive buffer,
\* whatever lies behind the message.
MemoryFits == \A s \in Species : \A rest \in Behind(s, Bytes(s, 0)) :
  Len(Bytes(s, 0)) + Len(rest) <= BUFFER_SIZE

=============================================================================
