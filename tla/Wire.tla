-------------------------------- MODULE Wire --------------------------------
(***************************************************************************)
(* One message after another from the menu of message.c over the           *)
(* connection to the parsers of hippie.c: the memory a message is built    *)
(* in, the bytes strlen finds and send takes, the bytes recv returns, what *)
(* is printed of them.                                                     *)
(*                                                                         *)
(* A message is chosen and sent while nothing is unread, or, if it is one  *)
(* of Ahead, while one other is; Threads says when that happens.  The two  *)
(* sides share nothing but the connection, so that the steps of one are    *)
(* not interleaved with those of the other.                                *)
(***************************************************************************)
EXTENDS Messages

CONSTANTS
  Uninit,    \* what the uninitialised fixed_byte may hold
  Accepted,  \* how many bytes a send may take that does not take all
  Cuts,      \* how many bytes a recv may return that does not return all
  Ahead      \* bound: the messages sent while another is unread

ASSUME WireAssumption ==
  /\ Uninit \subseteq 0..255
  /\ Accepted \subseteq Nat \ {0} /\ Cuts \subseteq Nat \ {0}
  /\ Ahead \subseteq Species

VARIABLES
  stage,     \* "menu", "species", "build", "send", "unread", "parse", "done",
             \* "unset" (no message was built) or "undefined"
  option,    \* the option of the menu, 1 to 9
  answer,    \* the character typed in the submenu, 0 for none or any other
  species,   \* the message that was chosen, named for its builder
  msg,       \* the block of memory it is built in
  stream,    \* the bytes on the connection
  buffer,    \* the receive buffer, up to its last byte that is not 0
  bytes_read,
  printed    \* what is printed of them

sender   == <<option, answer, species, msg>>
receiver == <<buffer, bytes_read, printed>>
vars     == <<stage, sender, stream, receiver>>

Init ==
  /\ stage = "menu"
  /\ option = 0 /\ answer = 0
  /\ species = "none"
  /\ msg = <<>> /\ stream = <<>>
  /\ buffer = <<>> /\ bytes_read = 0 /\ printed = {}

-----------------------------------------------------------------------------
(* The sender. *)

\* The bound on what is sent ahead.
MaySend(s) == stream = <<>> \/ s \in Ahead

ChooseOption == \E o \in 1..9 :
  /\ stage = "menu"
  /\ option' = o
  /\ \/ /\ o \in DOMAIN Submenu
        /\ \E a \in 0..4 : MaySend(Selected(o, a))
        /\ stage' = "species" /\ species' = species
     \/ /\ o \notin DOMAIN Submenu
        /\ MaySend(Simple[o])
        /\ stage' = "build" /\ species' = Simple[o]
  /\ UNCHANGED <<answer, msg, stream, receiver>>

ChooseSpecies == \E a \in 0..4 :
  /\ stage = "species"
  /\ MaySend(Selected(option, a))
  /\ answer' = a
  /\ species' = Selected(option, a)
  /\ stage' = IF Selected(option, a) = "unset" THEN "unset" ELSE "build"
  /\ UNCHANGED <<option, msg, stream, receiver>>

Build == \E g \in Uninit :
  /\ stage = "build"
  /\ \E rest \in Behind(species, Bytes(species, g)) : msg' = Bytes(species, g) \o rest
  /\ stage' = "send"
  /\ UNCHANGED <<option, answer, species, stream, receiver>>

\* send is given strlen(send_msg) bytes and called once; what it does not take is
\* lost.
Send ==
  /\ stage = "send"
  /\ \E n \in {strlen(msg)} \cup {k \in Accepted : k < strlen(msg)} :
       stream' = stream \o SubSeq(msg, 1, n)
  /\ stage' = "unread"
  /\ option' = 0 /\ answer' = 0 /\ species' = "none" /\ msg' = <<>>
  /\ UNCHANGED receiver

\* The menu is back before everything is received: a wakeup came too early, or for
\* a part of a message.
FirstOf(c) == c.f \in Species
Unread == Cardinality({p \in DOMAIN stream : p = 1 \/ FirstOf(stream[p])})
GoAhead ==
  /\ stage = "unread"
  /\ Unread = 1 /\ Ahead # {}
  /\ stage' = "menu"
  /\ UNCHANGED <<sender, stream, receiver>>

-----------------------------------------------------------------------------
(* The receiver. *)

Receive ==
  /\ stage = "unread"
  /\ LET all == Min({Len(stream), BUFFER_SIZE}) IN
     \E n \in {all} \cup {k \in Cuts : k < all} :
       /\ bytes_read' = n
       /\ buffer' = Filled(buffer, SubSeq(stream, 1, n))
       /\ stream' = SubSeq(stream, n + 1, Len(stream))
  /\ stage' = "parse"
  /\ UNCHANGED <<sender, printed>>

Report ==
  /\ stage = "parse"
  /\ \E n \in Tails : printed' = Parse(buffer, n)
  /\ stage' = IF UNDEFINED \in printed' THEN "undefined" ELSE "done"
  /\ UNCHANGED <<sender, stream, buffer, bytes_read>>

\* Mutant: the buffer is not cleared.
Cleared_Not(old) == old

\* memset at the head of the loop of dispatch_f.
Cleared(old) == <<>>

Again ==
  /\ stage = "done"
  /\ buffer' = Cleared(buffer)
  /\ bytes_read' = 0 /\ printed' = {}
  /\ stage' = IF stream = <<>> THEN "menu" ELSE "unread"
  /\ UNCHANGED <<sender, stream>>

\* An unset pointer was used, or memory out of bounds: nothing is claimed then.
Stopped == stage \in {"unset", "undefined"} /\ UNCHANGED vars

Next ==
  \/ ChooseOption \/ ChooseSpecies \/ Build \/ Send \/ GoAhead
  \/ Receive \/ Report \/ Again \/ Stopped

Spec == Init /\ [][Next]_vars

-----------------------------------------------------------------------------
(* What is in the buffer. *)

Reported == stage \in {"done", "undefined"}

\* The buffer begins with the first n bytes of s, the message its first byte is
\* of, and the uninitialised bits have changed neither the type of the message nor
\* a flag the parsers look at.
Leading == Species \cap {buffer[1].f}
Begins(s, n) ==
  /\ n <= bytes_read
  /\ SubSeq(buffer, 1, n) = SubSeq(Bytes(s, buffer[1].v), 1, n)
  /\ buffer[1].v \div 16 = Msgs[s].fixed \div 16
  /\ \A mask \in {ACK_TYPE, HAS_PAYLOAD} : Has(buffer[1].v, mask) = Has(Msgs[s].fixed, mask)

OwnLen(s) == Len(OwnBytes(s, 0))
Whole(s)  == Begins(s, OwnLen(s))
\* ... and nothing else.
Alone(s)  == Whole(s) /\ bytes_read = OwnLen(s)

\* Every message leaves room for the '\0' that ends its last text.
RoomForEnd == \A s \in Species : OwnLen(s) < BUFFER_SIZE

\* How many bytes of s there are up to the end of a field.
Until(s, f) == Max(Places(s, f))

-----------------------------------------------------------------------------
(* Properties. *)

\* strlen finds the end of the message and not a '\0' inside it: no byte that was
\* built is kept back (message.c:7), whatever lies behind the message.
SentWhole == stage = "send" => strlen(msg) >= OwnLen(species)

\* A number is printed under its own name and as it was built as soon as it has
\* arrived, whatever has become of the rest of its message, whatever follows it,
\* and whatever was in the memory and in the buffer before.
NumbersRead == Reported => \A s \in Leading : \A f \in Printed(s) :
  Begins(s, Until(s, f)) => Shown(f, Cells(s, f)) \in printed

\* Of a message that has arrived whole no number is printed but its own, each under
\* its own name and as it was built, whatever follows it.
NoNumberInvented == Reported => \A s \in Leading : Whole(s) => NoOtherFigure(s, printed)

\* Every string of a message that has arrived whole and alone is printed once and
\* with no byte missing, although its '\0' is not sent (hippie.c:45), and nothing is
\* printed before or behind it; but nothing is claimed of what is before the body
\* of a PUSH, nor of what is behind one of the bodies packed in a SYNC-ACK.
TextRead == Reported => \A s \in Leading : Alone(s) => TextsPrinted(s, printed)

\* A message that has arrived whole is described as the menu offered it, with the
\* flags it was given, and no bit of its first byte is lost (hippie.c:691-839).
NamesRead == Reported => \A s \in Leading : Whole(s) =>
  /\ s # "sync_ack" \/ Alone(s) => Words(printed) = Meaning(s)
  /\ \A x \in printed : x[1] = "header" =>
       Masks(Msgs[s].fixed, {NEED_ACK, ACK_TYPE, SYNC_TYPE, HAS_PAYLOAD}) \subseteq x[3][1]

\* The parsers use no unset pointer and stay in the buffer for every message that
\* has arrived whole, even with another behind it; except that a SYNC-ACK takes
\* what is behind it for one more packed message, and that a text needs room for
\* the '\0' behind it.
WholeIsDefined == stage = "undefined" => \A s \in Leading : Whole(s) =>
  bytes_read = BUFFER_SIZE \/ (s = "sync_ack" /\ ~Alone(s))

\* The declared length of the payload is the number of its bytes without the
\* final '\0', in every message but the one that deletes a single message, which
\* leaves out the eight bytes of the message id (hippie.c:512).
Declared(s) == OwnLen(s) = IF s = "reconnect" THEN 1 ELSE 6 + Msgs[s].length
LengthsDeclared == stage = "send" => (Declared(species) <=> species # "delete_message")

\* What NumbersRead and TextRead leave out, and the code announces: a receive
\* receipt has its message id printed, as a read receipt has (hippie.c:95); a body
\* is printed as it was sent, no byte of another field before it (131) and nothing
\* behind it, those packed in a SYNC-ACK included (212).
ReportedExactly == stage = "done" => \A s \in Leading : Alone(s) =>
  /\ \A f \in Numbers(s) : Shown(f, Cells(s, f)) \in printed
  /\ \A x \in Texts(printed) : x[3] = Text(x[1])

=============================================================================
