---------------------------- MODULE WireProofs ----------------------------
(* Theorems about Wire, for texts and buffers of any length, any contents of  *)
(* the memory and any losses on the connection.                               *)
EXTENDS Wire, MessageProofs

-----------------------------------------------------------------------------
(* The inductive invariant. *)

\* Something is in the buffer; it is as recv has left it, and as the parsers see it.
Filling == stage \in {"parse", "done", "undefined"}

\* A message is known before it is built, and its block of memory ends with '\0'.
SenderInv ==
  /\ stage = "species" => option \in DOMAIN Submenu
  /\ stage \in {"build", "send"} => species \in Species
  /\ stage = "send" => \E g \in Uninit : \E rest \in Row :
       /\ msg = Bytes(species, g) \o rest
       /\ Len(rest) \in Nat \ {0} /\ rest[Len(rest)] = Nul

\* The connection and the buffer hold cells; the buffer is cleared between two
\* messages, and its contents are what is printed.
ReceiverInv ==
  /\ stream \in Row /\ buffer \in Row
  /\ Filling => bytes_read = Len(buffer) /\ bytes_read <= BUFFER_SIZE
  /\ ~Filling => buffer = <<>>
  /\ Reported => \E n \in Tails : printed = Parse(buffer, n)
  /\ stage = "undefined" => UNDEFINED \in printed

WireInv == SenderInv /\ ReceiverInv

-----------------------------------------------------------------------------
(* It is an invariant. *)

\* The menus offer messages.
LEMMA MenuSpecies ==
  /\ \A o \in (1..9) \ DOMAIN Submenu : Simple[o] \in Species
  /\ \A o \in DOMAIN Submenu, a \in 0..4 : Selected(o, a) \in Species \cup {"unset"}
<1>1. DOMAIN Submenu = 3..7
  BY DEF Submenu
<1>2. ASSUME NEW o \in (1..9) \ DOMAIN Submenu PROVE Simple[o] \in Species
  <2>1. o \in {1, 2, 8, 9}
    BY <1>1
  <2>2. QED
    BY <2>1, SpeciesAre DEF Simple
<1>3. ASSUME NEW o \in DOMAIN Submenu, NEW a \in 0..4
      PROVE  Selected(o, a) \in Species \cup {"unset"}
  <2>1. CASE o = 3
    BY <2>1, SpeciesAre DEF Selected, Default, Submenu
  <2>2. CASE o = 4
    BY <2>2, SpeciesAre DEF Selected, Default, Submenu
  <2>3. CASE o = 5
    BY <2>3, SpeciesAre DEF Selected, Default, Submenu
  <2>4. CASE o = 6
    BY <2>4, SpeciesAre DEF Selected, Default, Submenu
  <2>5. CASE o = 7
    BY <2>5, SpeciesAre DEF Selected, Default, Submenu
  <2>6. QED
    BY <1>1, <2>1, <2>2, <2>3, <2>4, <2>5
<1>4. QED
  BY <1>2, <1>3

LEMMA WireInvInit == Init => WireInv
<1>1. <<>> \in Row
  BY DEF Row
<1>2. QED
  BY <1>1 DEF Init, WireInv, SenderInv, ReceiverInv, Filling, Reported

LEMMA WireInvNext == WireInv /\ [Next]_vars => WireInv'
<1> SUFFICES ASSUME WireInv, [Next]_vars PROVE WireInv'
  OBVIOUS
<1>1. CASE ChooseOption
  <2>1. PICK o \in 1..9 :
          \/ o \in DOMAIN Submenu /\ stage' = "species" /\ option' = o
          \/ o \notin DOMAIN Submenu /\ stage' = "build" /\ species' = Simple[o]
    BY <1>1 DEF ChooseOption
  <2>2. SenderInv'
    BY <2>1, MenuSpecies DEF SenderInv
  <2>3. ReceiverInv'
    BY <1>1, <2>1 DEF ChooseOption, WireInv, ReceiverInv, Filling, Reported, receiver
  <2>4. QED
    BY <2>2, <2>3 DEF WireInv
<1>2. CASE ChooseSpecies
  <2>1. PICK a \in 0..4 : species' = Selected(option, a)
          /\ stage' = IF Selected(option, a) = "unset" THEN "unset" ELSE "build"
    BY <1>2 DEF ChooseSpecies
  <2>2. option \in DOMAIN Submenu
    BY <1>2 DEF ChooseSpecies, WireInv, SenderInv
  <2>3. SenderInv'
    BY <2>1, <2>2, MenuSpecies DEF SenderInv
  <2>4. ReceiverInv'
    BY <1>2, <2>1 DEF ChooseSpecies, WireInv, ReceiverInv, Filling, Reported, receiver
  <2>5. QED
    BY <2>3, <2>4 DEF WireInv
<1>3. CASE Build
  <2>1. PICK g \in Uninit : \E rest \in Behind(species, Bytes(species, g)) :
                               msg' = Bytes(species, g) \o rest
    BY <1>3 DEF Build
  <2>2. PICK rest \in Behind(species, Bytes(species, g)) : msg' = Bytes(species, g) \o rest
    BY <2>1
  <2>3. species \in Species /\ species' = species /\ stage' = "send" /\ stage = "build"
    BY <1>3 DEF Build, WireInv, SenderInv
  <2>4. rest \in Row /\ Len(rest) \in Nat \ {0} /\ rest[Len(rest)] = Nul
    BY <2>3, BehindRow
  <2>5. SenderInv'
    BY <2>2, <2>3, <2>4 DEF SenderInv
  <2>6. ReceiverInv'
    BY <1>3, <2>3 DEF Build, WireInv, ReceiverInv, Filling, Reported, receiver
  <2>7. QED
    BY <2>5, <2>6 DEF WireInv
<1>4. CASE Send
  <2>1. stage = "send" /\ stage' = "unread" /\ UNCHANGED receiver
    BY <1>4 DEF Send
  <2>2. PICK n \in {strlen(msg)} \cup {k \in Accepted : k < strlen(msg)} :
          stream' = stream \o SubSeq(msg, 1, n)
    BY <1>4 DEF Send
  <2>3. PICK g \in Uninit, rest \in Row :
          /\ species \in Species /\ msg = Bytes(species, g) \o rest
          /\ Len(rest) \in Nat \ {0} /\ rest[Len(rest)] = Nul
    BY <2>1 DEF WireInv, SenderInv
  <2>4. /\ msg \in Row /\ strlen(msg) \in 0..(Len(msg) - 1)
    BY <2>3, MemoryRow DEF Stack2
  <2>5. n \in Nat /\ n <= Len(msg) /\ Len(msg) \in Nat
    <3>1. PICK len \in Nat : len = Len(msg)
      BY <2>4, RowCells
    <3>2. PICK e \in Nat : e = strlen(msg) /\ e <= len
      BY <2>4, <3>1
    <3>3. n = e \/ (n \in Accepted /\ n < e)
      BY <2>2, <3>2
    <3>4. Accepted \subseteq Nat
      BY WireAssumption
    <3>5. QED
      BY <3>1, <3>2, <3>3, <3>4
  <2>6. SubSeq(msg, 1, n) \in Row
    BY <2>4, <2>5, SubRow
  <2>7. stream' \in Row
    BY <2>2, <2>6, Rows2 DEF Stack2, WireInv, ReceiverInv
  <2>8. QED
    BY <2>1, <2>7 DEF WireInv, SenderInv, ReceiverInv, Filling, Reported, receiver
<1>5. CASE GoAhead
  BY <1>5 DEF GoAhead, WireInv, SenderInv, ReceiverInv, Filling, Reported, receiver
<1>6. CASE Receive
  <2> DEFINE all == Min({Len(stream), BUFFER_SIZE})
  <2>1. stage = "unread" /\ stage' = "parse"
    BY <1>6 DEF Receive
  <2>2. stream \in Row /\ Len(stream) \in Nat /\ buffer = <<>>
    BY <2>1, RowCells DEF WireInv, ReceiverInv, Filling
  <2>3. all \in Nat /\ all <= Len(stream) /\ all <= BUFFER_SIZE
    <3>1. BUFFER_SIZE \in Nat
      BY MessagesAssumption
    <3>2. \E w \in {Len(stream), BUFFER_SIZE} : \A y \in {Len(stream), BUFFER_SIZE} : w <= y
      <4>1. Len(stream) <= BUFFER_SIZE \/ BUFFER_SIZE <= Len(stream)
        BY <2>2, <3>1
      <4>2. QED
        BY <2>2, <3>1, <4>1
    <3>3. QED
      BY <2>2, <3>1, <3>2 DEF Min
  <2> HIDE DEF all
  <2>4. PICK n \in {all} \cup {k \in Cuts : k < all} :
          /\ bytes_read' = n /\ buffer' = Filled(buffer, SubSeq(stream, 1, n))
          /\ stream' = SubSeq(stream, n + 1, Len(stream))
    BY <1>6 DEF Receive, all
  <2>5. n \in Nat /\ n <= Len(stream) /\ n <= BUFFER_SIZE
    <3>1. n = all \/ (n \in Cuts /\ n < all)
      BY <2>4
    <3>2. Cuts \subseteq Nat /\ BUFFER_SIZE \in Nat
      BY MessagesAssumption, WireAssumption
    <3>3. QED
      BY <2>2, <2>3, <3>1, <3>2
  <2>6. SubSeq(stream, 1, n) \in Row /\ Len(SubSeq(stream, 1, n)) = n
    BY <2>2, <2>5, SubRow
  <2>7. stream' \in Row
    BY <2>2, <2>4, <2>5, SubRow
  <2>8. buffer' = SubSeq(stream, 1, n)
    <3> DEFINE new == SubSeq(stream, 1, n)
               empty == SubSeq(<<>>, Len(new) + 1, Len(<<>>))
    <3>1. empty = <<>>
      BY <2>5, <2>6
    <3>2. new \o <<>> = new
      BY <2>6, ConcatEmptySeq DEF Row
    <3>3. buffer' = new \o empty
      BY <2>2, <2>4 DEF Filled
    <3>4. QED
      BY <3>1, <3>2, <3>3
  <2>9. QED
    BY <2>1, <2>4, <2>5, <2>6, <2>7, <2>8 DEF WireInv, SenderInv, ReceiverInv, Filling, Reported
<1>7. CASE Report
  <2>1. stage = "parse" /\ stage' \in {"done", "undefined"}
        /\ UNCHANGED <<stream, buffer, bytes_read>>
    BY <1>7 DEF Report
  <2>2. \E n \in Tails : printed' = Parse(buffer, n)
    BY <1>7 DEF Report
  <2>3. stage' = "undefined" => UNDEFINED \in printed'
    BY <1>7 DEF Report
  <2>4. QED
    BY <2>1, <2>2, <2>3 DEF WireInv, SenderInv, ReceiverInv, Filling, Reported
<1>8. CASE Again
  <2>1. stage = "done" /\ stage' \in {"menu", "unread"} /\ buffer' = <<>> /\ UNCHANGED stream
    BY <1>8 DEF Again, Cleared
  <2>2. <<>> \in Row
    BY DEF Row
  <2>3. QED
    BY <2>1, <2>2 DEF WireInv, SenderInv, ReceiverInv, Filling, Reported
<1>9. CASE UNCHANGED vars
  BY <1>9 DEF vars, sender, receiver, WireInv, SenderInv, ReceiverInv, Filling, Reported
<1>10. QED
  BY <1>1, <1>2, <1>3, <1>4, <1>5, <1>6, <1>7, <1>8, <1>9 DEF Next, Stopped

\* The inductive invariant holds.
THEOREM WireInvHolds == Spec => []WireInv
<1>1. Init => WireInv
  BY WireInvInit
<1>2. WireInv /\ [Next]_vars => WireInv'
  BY WireInvNext
<1>3. QED
  BY <1>1, <1>2, PTL DEF Spec

-----------------------------------------------------------------------------
(* The sender. *)

\* The declared length of a payload is the number of its bytes without the final
\* '\0', in every message but the one that deletes a single message
\* (_build_* of hippie.c), for every length of its texts.
THEOREM LengthsDeclaredHold == Spec => []LengthsDeclared
<1>1. ASSUME NEW s \in Species PROVE Declared(s) <=> s # "delete_message"
  <2>1. OwnLen(s) = Own(s)
    BY OwnRow DEF OwnLen
  <2>2. CASE s = "reconnect"
    BY <2>1, <2>2 DEF Own, Declared
  <2>3. CASE s \in Loaded
    <3>1. Sized(s)
      BY <2>3, PayloadSized
    <3>2. Own(s) = 6 + Len(Msgs[s].payload) - (IF s \in Textual THEN 1 ELSE 0)
      BY <2>3 DEF Own, Loaded
    <3>3. Own(s) = 6 + Msgs[s].length + (IF s = "delete_message" THEN 8 ELSE 0)
      BY <3>1, <3>2 DEF Sized
    <3>4. s # "reconnect" /\ Msgs[s].length \in Nat
      BY <2>3, <3>1 DEF Sized, Loaded
    <3>5. QED
      BY <2>1, <3>3, <3>4 DEF Declared
  <2>4. QED
    BY <2>2, <2>3 DEF Loaded
<1>2. WireInv => LengthsDeclared
  BY <1>1 DEF WireInv, SenderInv, LengthsDeclared
<1>3. QED
  BY <1>2, WireInvHolds, PTL

\* strlen finds the end of the message that was built and not a '\0' inside it
\* (_send of message.c), whatever lies behind the message and whatever its first
\* byte held before, as long as no byte of a declared length is 255.
THEOREM SentWholeHolds == LengthsFit => (Spec => []SentWhole)
<1> SUFFICES ASSUME LengthsFit PROVE Spec => []SentWhole
  OBVIOUS
<1>1. ASSUME WireInv, stage = "send" PROVE strlen(msg) >= OwnLen(species)
  <2>1. PICK g \in Uninit, rest \in Row :
          /\ species \in Species /\ msg = Bytes(species, g) \o rest
          /\ Len(rest) \in Nat \ {0} /\ rest[Len(rest)] = Nul
    BY <1>1 DEF WireInv, SenderInv
  <2>2. msg \in Row /\ strlen(msg) \in 0..(Len(msg) - 1) /\ Own(species) <= strlen(msg)
    BY <2>1, SentOwn
  <2>3. OwnLen(species) = Own(species) /\ Own(species) \in Nat
    BY <2>1, OwnRow DEF OwnLen
  <2>4. strlen(msg) \in Nat
    BY <2>2, RowCells
  <2>5. QED
    BY <2>2, <2>3, <2>4
<1>2. WireInv => SentWhole
  BY <1>1 DEF SentWhole
<1>3. QED
  BY <1>2, WireInvHolds, PTL

-----------------------------------------------------------------------------
(* The receiver. *)

\* What has arrived of s lies in the buffer, and the parsers see the first byte and
\* the version as they were built.
LEMMA ArrivedAs ==
  ASSUME WireInv, Reported, NEW s \in Leading, NEW k \in Nat \ {0}, k <= Own(s), Begins(s, k)
  PROVE  /\ s \in Species /\ buffer \in Row /\ bytes_read = Len(buffer) /\ k <= Len(buffer)
         /\ Len(buffer) <= BUFFER_SIZE
         /\ \A p \in 1..k : buffer[p] = Bytes(s, buffer[1].v)[p]
         /\ buffer[1].v \in 0..255
         /\ k >= 2 /\ s \in Loaded => HeadOf(buffer, s)
<1> DEFINE g == buffer[1].v
           b == Bytes(s, g)
<1>1. /\ s \in Species /\ buffer \in Row /\ bytes_read = Len(buffer) /\ bytes_read <= BUFFER_SIZE
  BY DEF Leading, WireInv, ReceiverInv, Reported, Filling
<1>2. k <= Len(buffer) /\ SubSeq(buffer, 1, k) = SubSeq(b, 1, k)
  BY <1>1 DEF Begins
<1>3. b \in Row /\ Len(b) \in Nat /\ k <= Len(b) /\ Len(buffer) \in Nat
  BY <1>1, BytesRow, OwnRow, RowCells
<1>4. g \in 0..255
  <2>1. 1 \in 1..Len(buffer)
    BY <1>2, <1>3
  <2>2. QED
    BY <1>1, <2>1, RowCells
<1> HIDE DEF b
<1>5. ASSUME NEW p \in 1..k PROVE buffer[p] = b[p]
  <2>1. SubSeq(buffer, 1, k)[p] = buffer[1 + p - 1] /\ SubSeq(b, 1, k)[p] = b[1 + p - 1]
    BY <1>1, <1>2, <1>3, SubRow
  <2>2. 1 + p - 1 = p
    OBVIOUS
  <2>3. QED
    BY <1>2, <2>1, <2>2
<1>6. ASSUME k >= 2, s \in Loaded PROVE HeadOf(buffer, s)
  <2>1. At(buffer, 1) = buffer[1] /\ At(buffer, 2) = buffer[2]
    BY <1>1, <1>2, <1>3, <1>6, AtCell
  <2>2. buffer[2] = b[2]
    BY <1>5, <1>6
  <2>3. b[2].v = 3
    <3>1. Framed(b, s, g)
      BY <1>6, BytesFramed DEF b
    <3>2. QED
      BY <3>1 DEF Framed
  <2>4. /\ buffer[1].v \div 16 = Msgs[s].fixed \div 16
        /\ \A mask \in {ACK_TYPE, HAS_PAYLOAD} : Has(buffer[1].v, mask) = Has(Msgs[s].fixed, mask)
    BY DEF Begins
  <2>5. QED
    BY <2>1, <2>2, <2>3, <2>4 DEF HeadOf
<1>7. QED
  BY <1>1, <1>2, <1>4, <1>5, <1>6 DEF b

\* With one byte of the payload, its first byte is seen.
LEMMA FirstSeen ==
  ASSUME WireInv, Reported, NEW s \in Leading, s \in Loaded, NEW k \in Nat, 7 <= k, k <= Own(s),
         Begins(s, k)
  PROVE  Value(buffer, 0) = Msgs[s].payload[1].v
<1>1. PICK b : b = Bytes(s, buffer[1].v) /\ buffer \in Row /\ k <= Len(buffer)
                 /\ \A p \in 1..k : buffer[p] = b[p]
  BY ArrivedAs
<1>2. Framed(b, s, buffer[1].v) /\ Len(Msgs[s].payload) \in Nat /\ Len(Msgs[s].payload) >= 1
  BY <1>1, BytesFramed, PayloadSized, RowCells DEF Sized
<1>3. b[7] = Msgs[s].payload[7 - 6] /\ 7 - 6 = 1
  BY <1>2 DEF Framed
<1>4. buffer[7] = b[7]
  BY <1>1
<1>5. At(buffer, 7) = buffer[7]
  <2>1. Len(buffer) \in Nat
    BY <1>1, RowCells
  <2>2. QED
    BY <1>1, <2>1, AtCell
<1>6. Value(buffer, 0) = At(buffer, 7).v
  BY DEF Value
<1>7. QED
  BY <1>3, <1>4, <1>5, <1>6

\* What is printed is what the parsers make of the buffer.
LEMMA PrintedIs ==
  ASSUME WireInv, Reported
  PROVE  \E n \in Tails : printed = Parse(buffer, n)
  BY DEF WireInv, ReceiverInv

\* A number is printed under its own name and as it was built as soon as it has
\* arrived (parse_* of hippie.c), whatever has become of the rest of its message,
\* whatever follows it and whatever was in the memory and in the buffer before.
THEOREM NumbersReadHold == Spec => []NumbersRead
<1>1. ASSUME WireInv, Reported, NEW s \in Leading, NEW f \in Printed(s), Begins(s, Until(s, f))
      PROVE  Shown(f, Cells(s, f)) \in printed
  <2>1. s \in Loaded
    BY NoneOfReconnect DEF Leading, Loaded
  <2>2. PICK x \in Shows(s) : f = x[1]
    BY <2>1, PrintedAre
  <2>3. PICK o \in Int, w \in Nat \ {0} :
          /\ o = x[2] /\ w = x[3] /\ o >= -4 /\ 6 + o + w <= Own(s) /\ Until(s, f) = 6 + o + w
          /\ f # "length" => o >= 0
    BY <2>1, <2>2, PlacesAre DEF Until
  <2>4. PICK k \in Nat \ {0} : k = 6 + o + w /\ k >= 2 /\ k <= Own(s) /\ Begins(s, k)
    BY <1>1, <2>3
  <2>5. /\ buffer \in Row /\ k <= Len(buffer) /\ HeadOf(buffer, s)
        /\ \A p \in 1..k : buffer[p] = Bytes(s, buffer[1].v)[p]
    BY <1>1, <2>1, <2>4, ArrivedAs
  <2>6. Number(buffer, x[2], x[3]) = Cells(s, f)
    BY <2>1, <2>2, <2>3, <2>4, <2>5, NumberAs
  <2>7. PICK n \in Tails : printed = Parse(buffer, n)
    BY <1>1, PrintedIs
  <2>8. CASE x = <<"length", -4, 4>>
    <3>1. x[1] = "length" /\ x[2] = -4 /\ x[3] = 4
      BY <2>8
    <3>2. Shown("length", Number(buffer, -4, 4)) \in Parse(buffer, n)
      BY <2>1, <2>5, ParseLoaded
    <3>3. QED
      BY <2>2, <2>6, <2>7, <3>1, <3>2
  <2>9. CASE x \in Where[s]
    <3>1. f # "length"
      BY <2>1, <2>2, <2>9, WhereAre, NamesApart
    <3>2. k >= 7
      BY <2>3, <2>4, <3>1
    <3>3. Value(buffer, 0) = Msgs[s].payload[1].v
      BY <1>1, <2>1, <2>4, <3>2, FirstSeen
    <3>4. Read(s, buffer) \subseteq Parse(buffer, n)
      BY <2>1, <2>5, <3>3, ParseAs
    <3>5. Shown(x[1], Number(buffer, x[2], x[3])) \in Read(s, buffer)
      BY <2>9 DEF Read
    <3>6. QED
      BY <2>2, <2>6, <2>7, <3>4, <3>5
  <2>10. QED
    BY <2>8, <2>9 DEF Shows
<1>2. WireInv => NumbersRead
  BY <1>1 DEF NumbersRead
<1>3. QED
  BY <1>2, WireInvHolds, PTL

\* The length of a message is that of what was proved about it.
LEMMA OwnLenIs ==
  ASSUME NEW s \in Species
  PROVE  OwnLen(s) = Own(s) /\ Own(s) \in Nat \ {0}
  BY OwnRow DEF OwnLen

\* A message that has arrived whole.
LEMMA WholeArrived ==
  ASSUME WireInv, Reported, NEW s \in Leading, s \in Loaded, Whole(s)
  PROVE  /\ Arrived(buffer, s, buffer[1].v) /\ buffer[1].v = Or(buffer[1].v, Msgs[s].fixed)
         /\ s = "sync_ack" => BUFFER_SIZE >= 10
         /\ bytes_read = Len(buffer) /\ Len(buffer) \in Nat /\ Len(buffer) <= BUFFER_SIZE
<1> DEFINE g == buffer[1].v
           b == Bytes(s, g)
<1>1. Own(s) \in Nat \ {0} /\ Own(s) >= 7 /\ Begins(s, Own(s)) /\ (s = "sync_ack" => Own(s) >= 10)
  <2>1. s \in Species
    BY DEF Leading
  <2>2. QED
    BY <2>1, OwnLong, OwnLenIs DEF Whole
<1>2. /\ buffer \in Row /\ bytes_read = Len(buffer) /\ Own(s) <= Len(buffer)
      /\ Len(buffer) <= BUFFER_SIZE /\ HeadOf(buffer, s)
      /\ \A p \in 1..Own(s) : buffer[p] = b[p]
  BY <1>1, ArrivedAs
<1>3. g = Or(g, Msgs[s].fixed)
  <2>1. b[1].v = Or(g, Msgs[s].fixed)
    BY BytesFramed DEF Framed
  <2>2. 1 \in 1..Own(s)
    BY <1>1
  <2> HIDE DEF b
  <2>3. buffer[1] = b[1]
    BY <1>2, <2>2
  <2>4. QED
    BY <2>1, <2>3
<1>4. Len(buffer) \in Nat /\ BUFFER_SIZE \in Nat
  BY <1>2, RowCells, MessagesAssumption
<1>5. s = "sync_ack" => BUFFER_SIZE >= 10
  BY <1>1, <1>2, <1>4
<1>6. QED
  BY <1>2, <1>3, <1>4, <1>5 DEF Arrived

\* A RECONNECT is its first byte, which says that there is no payload.
LEMMA BareArrived ==
  ASSUME WireInv, Reported, "reconnect" \in Leading, Whole("reconnect")
  PROVE  /\ ~Has(At(buffer, 1).v, 8)
         /\ At(buffer, 1).v \div 16 = Msgs["reconnect"].fixed \div 16
         /\ At(buffer, 1).v = Or(buffer[1].v, Msgs["reconnect"].fixed)
<1>1. OwnLen("reconnect") = 1 /\ Own("reconnect") = 1 /\ "reconnect" \in Species
  BY OwnLenIs, SpeciesAre DEF Own
<1>2. /\ buffer \in Row /\ 1 <= Len(buffer) /\ Len(buffer) \in Nat
      /\ buffer[1] = Bytes("reconnect", buffer[1].v)[1]
  BY <1>1, ArrivedAs, RowCells DEF Whole
<1>3. At(buffer, 1) = buffer[1]
  BY <1>2, AtCell
<1>4. ~Has(buffer[1].v, 8)
  <2>1. Msgs["reconnect"].fixed = 208 /\ ~Has(208, 8)
    BY reconnect_Row DEF Has
  <2>2. Has(buffer[1].v, 8) = Has(Msgs["reconnect"].fixed, 8)
    BY DEF Whole, Begins, HAS_PAYLOAD
  <2>3. QED
    BY <2>1, <2>2
<1>5. buffer[1].v \div 16 = Msgs["reconnect"].fixed \div 16
  BY DEF Whole, Begins
<1>6. buffer[1].v = Or(buffer[1].v, Msgs["reconnect"].fixed)
  BY <1>2, BytesReconnect
<1>7. QED
  BY <1>3, <1>4, <1>5, <1>6

\* Of a message that has arrived whole no number is printed but its own, as it was
\* built.
THEOREM NoNumberInventedHolds == Spec => []NoNumberInvented
<1>1. ASSUME WireInv, Reported, NEW s \in Leading, Whole(s) PROVE NoOtherFigure(s, printed)
  <2>1. PICK n \in Tails : printed = Parse(buffer, n)
    BY <1>1, PrintedIs
  <2>2. CASE s = "reconnect"
    BY <1>1, <2>1, <2>2, BareArrived, BareReport DEF Faithful
  <2>3. CASE s \in Loaded
    BY <1>1, <2>1, <2>3, WholeArrived, FiguresArrived
  <2>4. QED
    BY <2>2, <2>3 DEF Leading, Loaded
<1>2. WireInv => NoNumberInvented
  BY <1>1 DEF NoNumberInvented
<1>3. QED
  BY <1>2, WireInvHolds, PTL

\* A message that has arrived whole is described as the menu offered it, with its
\* flags, and no bit of its first byte is lost (parse_* and _get_* of hippie.c),
\* whatever that byte held before.  A SYNC-ACK need not be alone for that.
THEOREM NamesReadHold == Spec => []NamesRead
<1> DEFINE bits == {NEED_ACK, ACK_TYPE, SYNC_TYPE, HAS_PAYLOAD}
<1>1. ASSUME NEW s \in Species, NEW v, v = Or(buffer[1].v, Msgs[s].fixed)
      PROVE  Masks(Msgs[s].fixed, bits) \subseteq Masks(v, bits)
  <2>1. \A mask \in bits : mask \in {1, 2, 4, 8, 16, 32, 64, 128}
    BY DEF NEED_ACK, ACK_TYPE, SYNC_TYPE, HAS_PAYLOAD
  <2>2. \A mask \in bits : Has(Msgs[s].fixed, mask) => Has(v, mask)
    BY <1>1, <2>1, OrHas
  <2>3. QED
    BY <2>2 DEF Masks
<1>2. ASSUME NEW v PROVE Told("header", Masks(v, bits))[3][1] = Masks(v, bits)
  BY DEF Told
<1>3. ASSUME WireInv, Reported, NEW s \in Leading, Whole(s)
      PROVE  /\ Words(printed) = Meaning(s)
             /\ \A x \in printed : x[1] = "header" => Masks(Msgs[s].fixed, bits) \subseteq x[3][1]
  <2>1. PICK n \in Tails : printed = Parse(buffer, n)
    BY <1>3, PrintedIs
  <2>2. s \in Species
    BY DEF Leading
  <2>3. Words(printed) = Meaning(s) /\ At(buffer, 1).v = Or(buffer[1].v, Msgs[s].fixed)
        /\ \A x \in printed : x[1] = "header" => x = Told("header", Masks(At(buffer, 1).v, bits))
    <3>1. CASE s = "reconnect"
      <4>1. Words(printed) = Meaning(s) /\ At(buffer, 1).v = Or(buffer[1].v, Msgs[s].fixed)
        BY <1>3, <2>1, <3>1, BareArrived, BareReport DEF Faithful
      <4>2. \A x \in printed : x[1] = "header" => x = Told("header", Masks(At(buffer, 1).v, bits))
        <5>1. ~Has(At(buffer, 1).v, 8)
          BY <1>3, <3>1, BareArrived
        <5>2. \A y \in printed :
                \/ y = Wording("type", type_string, At(buffer, 1).v \div 16)
                \/ y = Told("header", Masks(At(buffer, 1).v, bits))
                \/ y[1] = "version"
          BY <2>1, <5>1, BareHeading
        <5>3. Wording("type", type_string, At(buffer, 1).v \div 16)[1] # "header"
          BY TagOf
        <5>4. QED
          BY <5>2, <5>3
      <4>3. QED
        BY <4>1, <4>2
    <3>2. CASE s \in Loaded
      <4>1. Arrived(buffer, s, buffer[1].v) /\ (s = "sync_ack" => BUFFER_SIZE >= 10)
            /\ buffer[1].v = Or(buffer[1].v, Msgs[s].fixed)
        BY <1>3, <3>2, WholeArrived
      <4>2. Words(printed) = Meaning(s)
        BY <2>1, <3>2, <4>1, WordsAs
      <4>3. At(buffer, 1) = buffer[1]
        <5>1. buffer \in Row /\ Len(buffer) \in Nat /\ Own(s) \in Nat \ {0} /\ Own(s) <= Len(buffer)
          BY <2>2, <4>1, OwnLenIs, RowCells DEF Arrived
        <5>2. QED
          BY <5>1, AtCell
      <4>4. \A x \in printed : x[1] = "header" => x = Told("header", Masks(At(buffer, 1).v, bits))
        BY <2>1, <3>2, <4>1, HeaderAs
      <4>5. QED
        BY <4>1, <4>2, <4>3, <4>4
    <3>3. QED
      BY <2>2, <3>1, <3>2 DEF Loaded
  <2> HIDE DEF bits
  <2>4. QED
    BY <1>1, <1>2, <2>2, <2>3
<1>4. WireInv => NamesRead
  BY <1>3 DEF NamesRead
<1>5. QED
  BY <1>4, WireInvHolds, PTL

\* The parsers use no unset pointer and stay in the buffer for every message that
\* has arrived whole, even with another behind it, except behind a SYNC-ACK and in
\* a full buffer (parse_* and _get_* of hippie.c).
THEOREM WholeIsDefinedHolds == LengthsFit => (Spec => []WholeIsDefined)
<1> SUFFICES ASSUME LengthsFit PROVE Spec => []WholeIsDefined
  OBVIOUS
<1>1. ASSUME WireInv, stage = "undefined", NEW s \in Leading, Whole(s),
             bytes_read # BUFFER_SIZE, ~(s = "sync_ack" /\ ~Alone(s))
      PROVE  FALSE
  <2>1. Reported /\ UNDEFINED \in printed
    BY <1>1 DEF Reported, WireInv, ReceiverInv
  <2>2. PICK n \in Tails : printed = Parse(buffer, n)
    BY <1>1, <2>1, PrintedIs
  <2>3. s # "reconnect"
    BY <1>1, <2>1, <2>2, BareArrived, BareReport DEF Faithful
  <2>4. s \in Loaded /\ s \in Species
    BY <2>3 DEF Leading, Loaded
  <2>5. Arrived(buffer, s, buffer[1].v) /\ bytes_read = Len(buffer) /\ Len(buffer) < BUFFER_SIZE
    <3>1. /\ Arrived(buffer, s, buffer[1].v) /\ bytes_read = Len(buffer) /\ Len(buffer) \in Nat
          /\ Len(buffer) <= BUFFER_SIZE
      BY <1>1, <2>1, <2>4, WholeArrived
    <3>2. QED
      BY <1>1, <3>1, MessagesAssumption
  <2>6. s = "sync_ack"
    BY <2>1, <2>2, <2>4, <2>5, NothingUndefined
  <2>7. Len(buffer) = Own(s)
    BY <1>1, <2>4, <2>5, <2>6, OwnLenIs DEF Alone
  <2>8. n \in Nat
    BY MessagesAssumption
  <2>9. QED
    BY <2>1, <2>2, <2>5, <2>6, <2>7, <2>8, PackedFits, SyncTextsAs
<1>2. WireInv => WholeIsDefined
  BY <1>1 DEF WholeIsDefined
<1>3. QED
  BY <1>2, WireInvHolds, PTL

\* Every string of a message that has arrived whole and alone is printed once, with
\* no byte missing; nothing is printed before it, unless it is the body of a PUSH,
\* and nothing behind it, unless it is packed in a SYNC-ACK, of which one at most has
\* something behind it (parse_* of hippie.c).
THEOREM TextReadHolds == LengthsFit /\ RoomForEnd => (Spec => []TextRead)
<1> SUFFICES ASSUME LengthsFit, RoomForEnd PROVE Spec => []TextRead
  OBVIOUS
<1>1. ASSUME WireInv, Reported, NEW s \in Leading, Alone(s) PROVE TextsPrinted(s, printed)
  <2>1. PICK n \in Tails : printed = Parse(buffer, n)
    BY <1>1, PrintedIs
  <2>2. Whole(s) /\ s \in Species
    BY <1>1 DEF Alone, Leading
  <2>3. CASE s = "reconnect"
    BY <1>1, <2>1, <2>2, <2>3, BareArrived, BareReport DEF Faithful
  <2>4. CASE s \in Loaded
    <3>1. Arrived(buffer, s, buffer[1].v) /\ bytes_read = Len(buffer)
      BY <1>1, <2>2, <2>4, WholeArrived
    <3>2. Len(buffer) = Own(s) /\ Len(buffer) < BUFFER_SIZE
      BY <1>1, <2>2, <3>1, OwnLenIs DEF Alone, RoomForEnd
    <3>3. n \in Nat
      BY MessagesAssumption
    <3>4. CASE s = "sync_ack"
      BY <2>1, <3>1, <3>2, <3>3, <3>4, PackedFits, SyncTextsAs
    <3>5. CASE s # "sync_ack"
      BY <2>1, <2>4, <3>1, <3>2, <3>5, TextsAs
    <3>6. QED
      BY <3>4, <3>5
  <2>5. QED
    BY <2>2, <2>3, <2>4 DEF Loaded
<1>2. WireInv => TextRead
  BY <1>1 DEF TextRead
<1>3. QED
  BY <1>2, WireInvHolds, PTL

=============================================================================
