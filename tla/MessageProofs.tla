--------------------------- MODULE MessageProofs ---------------------------
(* What the builders write and the parsers read, for texts and buffers of any  *)
(* length.                                                                     *)
EXTENDS Messages, FiniteSetTheorems, SequenceTheorems, WellFoundedInduction, TLAPS

-----------------------------------------------------------------------------
(* Rows of cells. *)

\* The names of the fields of a message.
FieldNames ==
  {"uid", "token", "heart_interval", "session_id", "local_id", "body", "ack_msg_id",
   "msg_timestamp", "msg_id", "distance", "message_id", "msgpack", "packed_length",
   "sync_local_id", "start_message_id", "end_message_id"}
Names == Species \cup FieldNames \cup {"byte", "junk", "length"}

CellType == [f : Names, i : Nat, v : 0..255]
Row == Seq(CellType)

\* The row b stands in the row r behind its first o cells.
Follows(r, o, b) == \A p \in (o + 1)..(o + Len(b)) : r[p] = b[p - o]

\* The cells lo to hi of a row belong to the field f, and none is 0.
Span(r, f, lo, hi) == \A p \in lo..hi : r[p].f = f /\ r[p].v # 0

\* One byte that is of no field; w bytes of one field; a text; the end of a text.
OneByte(r, v)  == r \in Row /\ Len(r) = 1 /\ r[1].f = "byte" /\ r[1].v = v
Piece(r, f, w) == r \in Row /\ Len(r) = w /\ Span(r, f, 1, w)
Letters(r, f)  == Piece(r, f, TextLen) /\ \A p \in 1..TextLen : r[p] = Cell(f, p, LETTER)
TheEnd(r)      == r \in Row /\ Len(r) = 1 /\ r[1] = Nul

\* The w bytes of the number n.
Digits(r, f, w, n) ==
  /\ r \in Row /\ Len(r) = w
  /\ \A p \in 1..w : r[p].f = f /\ r[p].v = PLUSONE(Digit(n, w - p))

\* A number no byte of which is 0 after the increment.
Literal(n) == n \in Nat /\ \A k \in 0..3 : Digit(n, k) # 255

\* The row r consists of a, b, ... one behind the other.
Stack2(r, a, b) ==
  r \in Row /\ Len(r) = Len(a) + Len(b) /\ Follows(r, 0, a) /\ Follows(r, Len(a), b)
Stack3(r, a, b, c) ==
  /\ r \in Row /\ Len(r) = Len(a) + Len(b) + Len(c)
  /\ Follows(r, 0, a) /\ Follows(r, Len(a), b) /\ Follows(r, Len(a) + Len(b), c)
Stack4(r, a, b, c, d) ==
  /\ r \in Row /\ Len(r) = Len(a) + Len(b) + Len(c) + Len(d)
  /\ Follows(r, 0, a) /\ Follows(r, Len(a), b) /\ Follows(r, Len(a) + Len(b), c)
  /\ Follows(r, Len(a) + Len(b) + Len(c), d)
Stack5(r, a, b, c, d, e) ==
  /\ r \in Row /\ Len(r) = Len(a) + Len(b) + Len(c) + Len(d) + Len(e)
  /\ Follows(r, 0, a) /\ Follows(r, Len(a), b) /\ Follows(r, Len(a) + Len(b), c)
  /\ Follows(r, Len(a) + Len(b) + Len(c), d)
  /\ Follows(r, Len(a) + Len(b) + Len(c) + Len(d), e)
Stack6(r, a, b, c, d, e, f) ==
  /\ r \in Row /\ Len(r) = Len(a) + Len(b) + Len(c) + Len(d) + Len(e) + Len(f)
  /\ Follows(r, 0, a) /\ Follows(r, Len(a), b) /\ Follows(r, Len(a) + Len(b), c)
  /\ Follows(r, Len(a) + Len(b) + Len(c), d)
  /\ Follows(r, Len(a) + Len(b) + Len(c) + Len(d), e)
  /\ Follows(r, Len(a) + Len(b) + Len(c) + Len(d) + Len(e), f)
Stack7(r, a, b, c, d, e, f, g) ==
  /\ r \in Row /\ Len(r) = Len(a) + Len(b) + Len(c) + Len(d) + Len(e) + Len(f) + Len(g)
  /\ Follows(r, 0, a) /\ Follows(r, Len(a), b) /\ Follows(r, Len(a) + Len(b), c)
  /\ Follows(r, Len(a) + Len(b) + Len(c), d)
  /\ Follows(r, Len(a) + Len(b) + Len(c) + Len(d), e)
  /\ Follows(r, Len(a) + Len(b) + Len(c) + Len(d) + Len(e), f)
  /\ Follows(r, Len(a) + Len(b) + Len(c) + Len(d) + Len(e) + Len(f), g)

\* The elements of a row.
LEMMA RowCells ==
  ASSUME NEW r \in Row
  PROVE  /\ Len(r) \in Nat /\ DOMAIN r = 1..Len(r)
         /\ \A p \in 1..Len(r) :
              r[p] \in CellType /\ r[p].f \in Names /\ r[p].i \in Nat /\ r[p].v \in 0..255
<1>1. Len(r) \in Nat /\ DOMAIN r = 1..Len(r)
  BY LenProperties DEF Row
<1>2. \A p \in 1..Len(r) : r[p] \in CellType
  BY <1>1, ElementOfSeq DEF Row
<1>3. QED
  BY <1>1, <1>2 DEF CellType

\* A part of a row.
LEMMA SubRow ==
  ASSUME NEW r \in Row, NEW i \in Nat \ {0}, NEW j \in Nat, i <= j + 1, j <= Len(r)
  PROVE  /\ SubSeq(r, i, j) \in Row /\ Len(SubSeq(r, i, j)) = j - i + 1
         /\ \A p \in 1..(j - i + 1) : SubSeq(r, i, j)[p] = r[i + p - 1]
<1>1. Len(r) \in Nat
  BY RowCells
<1>2. SubSeq(r, i, j) = [p \in 1..(j - i + 1) |-> r[i + p - 1]]
  OBVIOUS
<1>3. \A p \in 1..(j - i + 1) : r[i + p - 1] \in CellType
  BY <1>1, RowCells
<1>4. QED
  BY <1>2, <1>3 DEF Row

\* Rows, one behind the other.
LEMMA Rows2 ==
  ASSUME NEW a \in Row, NEW b \in Row
  PROVE  Stack2(a \o b, a, b)
<1>1. /\ a \o b \in Row /\ Len(a \o b) = Len(a) + Len(b)
      /\ \A i \in 1..(Len(a) + Len(b)) : (a \o b)[i] = IF i <= Len(a) THEN a[i] ELSE b[i - Len(a)]
  BY ConcatProperties DEF Row
<1>2. Len(a) \in Nat /\ Len(b) \in Nat
  BY RowCells
<1>3. QED
  BY <1>1, <1>2 DEF Stack2, Follows

\* What stands in a row stands in a longer one.
LEMMA HoldsOn ==
  ASSUME NEW a \in Row, NEW b \in Row, NEW c \in Row, NEW o \in Nat, Follows(a, o, c),
         o + Len(c) <= Len(a)
  PROVE  Follows(a \o b, o, c)
<1>1. Len(c) \in Nat /\ Len(a) \in Nat
  BY RowCells
<1>2. Follows(a \o b, 0, a)
  BY Rows2 DEF Stack2
<1>3. QED
  BY <1>1, <1>2 DEF Follows

\* Three rows, one behind the other.
LEMMA Rows3 ==
  ASSUME NEW a \in Row, NEW b \in Row, NEW c \in Row
  PROVE  Stack3(a \o b \o c, a, b, c)
<1> DEFINE r == a \o b
<1>1. Len(a) \in Nat /\ Len(b) \in Nat /\ Len(c) \in Nat
  BY RowCells
<1>2. Stack2(r, a, b)
  BY Rows2
<1> HIDE DEF r
<1>3. r \in Row /\ Stack2(r \o c, r, c)
  BY <1>2, Rows2 DEF Stack2
<1>4. /\ Follows(r \o c, 0, a)
      /\ Follows(r \o c, Len(a), b)
  BY <1>1, <1>2, <1>3, HoldsOn DEF Stack2
<1>5. QED
  BY <1>1, <1>2, <1>3, <1>4 DEF r, Stack2, Stack2, Stack3

\* Four rows, one behind the other.
LEMMA Rows4 ==
  ASSUME NEW a \in Row, NEW b \in Row, NEW c \in Row, NEW d \in Row
  PROVE  Stack4(a \o b \o c \o d, a, b, c, d)
<1> DEFINE r == a \o b \o c
<1>1. Len(a) \in Nat /\ Len(b) \in Nat /\ Len(c) \in Nat /\ Len(d) \in Nat
  BY RowCells
<1>2. Stack3(r, a, b, c)
  BY Rows3
<1> HIDE DEF r
<1>3. r \in Row /\ Stack2(r \o d, r, d)
  BY <1>2, Rows2 DEF Stack3
<1>4. /\ Follows(r \o d, 0, a)
      /\ Follows(r \o d, Len(a), b)
      /\ Follows(r \o d, Len(a) + Len(b), c)
  BY <1>1, <1>2, <1>3, HoldsOn DEF Stack3
<1>5. QED
  BY <1>1, <1>2, <1>3, <1>4 DEF r, Stack2, Stack3, Stack4

\* Five rows, one behind the other.
LEMMA Rows5 ==
  ASSUME NEW a \in Row, NEW b \in Row, NEW c \in Row, NEW d \in Row, NEW e \in Row
  PROVE  Stack5(a \o b \o c \o d \o e, a, b, c, d, e)
<1> DEFINE r == a \o b \o c \o d
<1>1. Len(a) \in Nat /\ Len(b) \in Nat /\ Len(c) \in Nat /\ Len(d) \in Nat /\ Len(e) \in Nat
  BY RowCells
<1>2. Stack4(r, a, b, c, d)
  BY Rows4
<1> HIDE DEF r
<1>3. r \in Row /\ Stack2(r \o e, r, e)
  BY <1>2, Rows2 DEF Stack4
<1>4. /\ Follows(r \o e, 0, a)
      /\ Follows(r \o e, Len(a), b)
      /\ Follows(r \o e, Len(a) + Len(b), c)
      /\ Follows(r \o e, Len(a) + Len(b) + Len(c), d)
  BY <1>1, <1>2, <1>3, HoldsOn DEF Stack4
<1>5. QED
  BY <1>1, <1>2, <1>3, <1>4 DEF r, Stack2, Stack4, Stack5

\* Six rows, one behind the other.
LEMMA Rows6 ==
  ASSUME NEW a \in Row, NEW b \in Row, NEW c \in Row, NEW d \in Row, NEW e \in Row, NEW f \in Row
  PROVE  Stack6(a \o b \o c \o d \o e \o f, a, b, c, d, e, f)
<1> DEFINE r == a \o b \o c \o d \o e
<1>1. Len(a) \in Nat /\ Len(b) \in Nat /\ Len(c) \in Nat /\ Len(d) \in Nat /\ Len(e) \in Nat /\ Len(f) \in Nat
  BY RowCells
<1>2. Stack5(r, a, b, c, d, e)
  BY Rows5
<1> HIDE DEF r
<1>3. r \in Row /\ Stack2(r \o f, r, f)
  BY <1>2, Rows2 DEF Stack5
<1>4. /\ Follows(r \o f, 0, a)
      /\ Follows(r \o f, Len(a), b)
      /\ Follows(r \o f, Len(a) + Len(b), c)
      /\ Follows(r \o f, Len(a) + Len(b) + Len(c), d)
      /\ Follows(r \o f, Len(a) + Len(b) + Len(c) + Len(d), e)
  BY <1>1, <1>2, <1>3, HoldsOn DEF Stack5
<1>5. QED
  BY <1>1, <1>2, <1>3, <1>4 DEF r, Stack2, Stack5, Stack6

\* Seven rows, one behind the other.
LEMMA Rows7 ==
  ASSUME NEW a \in Row, NEW b \in Row, NEW c \in Row, NEW d \in Row, NEW e \in Row, NEW f \in Row, NEW g \in Row
  PROVE  Stack7(a \o b \o c \o d \o e \o f \o g, a, b, c, d, e, f, g)
<1> DEFINE r == a \o b \o c \o d \o e \o f
<1>1. Len(a) \in Nat /\ Len(b) \in Nat /\ Len(c) \in Nat /\ Len(d) \in Nat /\ Len(e) \in Nat /\ Len(f) \in Nat /\ Len(g) \in Nat
  BY RowCells
<1>2. Stack6(r, a, b, c, d, e, f)
  BY Rows6
<1> HIDE DEF r
<1>3. r \in Row /\ Stack2(r \o g, r, g)
  BY <1>2, Rows2 DEF Stack6
<1>4. /\ Follows(r \o g, 0, a)
      /\ Follows(r \o g, Len(a), b)
      /\ Follows(r \o g, Len(a) + Len(b), c)
      /\ Follows(r \o g, Len(a) + Len(b) + Len(c), d)
      /\ Follows(r \o g, Len(a) + Len(b) + Len(c) + Len(d), e)
      /\ Follows(r \o g, Len(a) + Len(b) + Len(c) + Len(d) + Len(e), f)
  BY <1>1, <1>2, <1>3, HoldsOn DEF Stack6
<1>5. QED
  BY <1>1, <1>2, <1>3, <1>4 DEF r, Stack2, Stack6, Stack7

-----------------------------------------------------------------------------
(* Single bytes, numbers and texts. *)

\* A cell has the components it was made of.
LEMMA CellOf ==
  ASSUME NEW f \in Names, NEW i \in Nat, NEW v \in 0..255
  PROVE  /\ Cell(f, i, v) \in CellType
         /\ Cell(f, i, v).f = f /\ Cell(f, i, v).i = i /\ Cell(f, i, v).v = v
  BY DEF Cell, CellType

\* A single byte (e.g. hippie.c:92) is a row of one cell, of no field.
LEMMA ByteRow ==
  ASSUME NEW v \in 0..255
  PROVE  OneByte(Byte(v), v)
<1>1. "byte" \in Names
  BY DEF Names
<1>2. Cell("byte", 1, v) \in CellType /\ Cell("byte", 1, v).f = "byte" /\ Cell("byte", 1, v).v = v
  BY <1>1 DEF Cell, CellType
<1>3. QED
  BY <1>2 DEF OneByte, Byte, Row

\* The '\0' that strcpy leaves behind a text.
LEMMA NulRow == TheEnd(<<Nul>>) /\ Nul.f = "byte" /\ Nul.v = 0
<1>1. "byte" \in Names
  BY DEF Names
<1>2. Nul \in CellType /\ Nul.f = "byte" /\ Nul.v = 0
  BY <1>1 DEF Nul, Cell, CellType
<1>3. QED
  BY <1>2 DEF TheEnd, Row

\* A digit of a number is a byte.
LEMMA DigitRange ==
  ASSUME NEW n \in Nat, NEW k \in Nat
  PROVE  Digit(n, k) \in 0..255
  BY DEF Digit

\* A number is written from its highest digit to its lowest, each incremented.
LEMMA NumRow ==
  ASSUME NEW f \in Names, NEW w \in Nat, NEW n \in Nat
  PROVE  Digits(Num(f, w, n), f, w, n)
<1>1. ASSUME NEW p \in 1..w
      PROVE  /\ Cell(f, p, PLUSONE(Digit(n, w - p))) \in CellType
             /\ Cell(f, p, PLUSONE(Digit(n, w - p))).f = f
             /\ Cell(f, p, PLUSONE(Digit(n, w - p))).v = PLUSONE(Digit(n, w - p))
  <2>1. w - p \in Nat /\ p \in Nat
    OBVIOUS
  <2>2. Digit(n, w - p) \in 0..255
    BY <2>1, DigitRange
  <2>3. PLUSONE(Digit(n, w - p)) \in 0..255
    BY <2>2 DEF PLUSONE
  <2>4. QED
    BY <2>1, <2>3 DEF Cell, CellType
<1>2. QED
  BY <1>1 DEF Num, Row, Digits

\* A byte of a number that is sent is 0 only if the digit was 255.
LEMMA NumPiece ==
  ASSUME NEW f \in Names, NEW w \in Nat, NEW n, Literal(n)
  PROVE  Piece(Num(f, w, n), f, w)
<1>1. n \in Nat
  BY DEF Literal
<1>2. ASSUME NEW p \in 1..w PROVE PLUSONE(Digit(n, w - p)) # 0
  <2>1. PICK k \in Nat : k = w - p
    OBVIOUS
  <2>2. Digit(n, k) \in 0..255
    BY <1>1, DigitRange
  <2>3. Digit(n, k) # 255
    <3>1. CASE k \in 0..3
      BY <3>1 DEF Literal
    <3>2. CASE k > 3
      BY <3>2 DEF Digit
    <3>3. QED
      BY <3>1, <3>2
  <2>4. QED
    BY <2>1, <2>2, <2>3 DEF PLUSONE
<1>3. Digits(Num(f, w, n), f, w, n)
  BY <1>1, NumRow
<1>4. QED
  BY <1>2, <1>3 DEF Piece, Span, Digits

\* No digit of a number that is built as a literal is 255.
LEMMA Literals ==
  /\ Literal(CONNECT_TYPE_UID) /\ Literal(LOCAL_ID) /\ Literal(SYNC_LOCAL_ID)
  /\ Literal(MESSAGE_TIMESTAMP) /\ Literal(MESSAGE_DISTANCE) /\ Literal(MESSAGE_ID)
  /\ Literal(6) /\ Literal(88) /\ Literal(99)
<1>1. ASSUME NEW n \in {CONNECT_TYPE_UID, LOCAL_ID, SYNC_LOCAL_ID, MESSAGE_TIMESTAMP,
                        MESSAGE_DISTANCE, MESSAGE_ID, 6, 88, 99}
      PROVE  Literal(n)
  <2>1. n \in Nat
    BY DEF CONNECT_TYPE_UID, LOCAL_ID, SYNC_LOCAL_ID, MESSAGE_TIMESTAMP, MESSAGE_DISTANCE, MESSAGE_ID
  <2>2. \A k \in 0..3 : Digit(n, k) =
          (n \div (CASE k = 0 -> 1 [] k = 1 -> 256 [] k = 2 -> 65536 [] k = 3 -> 16777216)) % 256
    BY <2>1 DEF Digit
  <2>3. QED
    BY <2>1, <2>2 DEF Literal, CONNECT_TYPE_UID, LOCAL_ID, SYNC_LOCAL_ID, MESSAGE_TIMESTAMP,
                      MESSAGE_DISTANCE, MESSAGE_ID
<1>2. QED
  BY <1>1

\* The numbers of the messages.
LEMMA NumberPieces ==
  /\ Piece(LocalId, "local_id", 4) /\ Piece(SyncLocalId, "sync_local_id", 4)
  /\ Piece(Timestamp, "msg_timestamp", 4)
  /\ Piece(Num("uid", 4, CONNECT_TYPE_UID), "uid", 4)
  /\ Piece(Num("session_id", 4, CONNECT_TYPE_UID), "session_id", 4)
  /\ Piece(Num("heart_interval", 2, 6), "heart_interval", 2)
  /\ Piece(Num("ack_msg_id", 8, LOCAL_ID), "ack_msg_id", 8)
  /\ Piece(Num("msg_id", 8, MESSAGE_ID), "msg_id", 8)
  /\ Piece(Num("distance", 4, MESSAGE_DISTANCE), "distance", 4)
  /\ Piece(Num("message_id", 8, MESSAGE_ID), "message_id", 8)
  /\ Piece(Num("start_message_id", 8, 88), "start_message_id", 8)
  /\ Piece(Num("end_message_id", 8, 99), "end_message_id", 8)
<1>1. FieldNames \subseteq Names
  BY DEF Names
<1>2. \A f \in FieldNames : \A w \in Nat : \A n : Literal(n) => Piece(Num(f, w, n), f, w)
  BY <1>1, NumPiece
<1>3. /\ Piece(LocalId, "local_id", 4) /\ Piece(SyncLocalId, "sync_local_id", 4)
      /\ Piece(Timestamp, "msg_timestamp", 4)
  BY <1>2, Literals DEF FieldNames, LocalId, SyncLocalId, Timestamp
<1>4. /\ Piece(Num("uid", 4, CONNECT_TYPE_UID), "uid", 4)
      /\ Piece(Num("session_id", 4, CONNECT_TYPE_UID), "session_id", 4)
  BY <1>2, Literals DEF FieldNames
<1>5. Piece(Num("heart_interval", 2, 6), "heart_interval", 2)
  BY <1>2, Literals DEF FieldNames
<1>6. /\ Piece(Num("ack_msg_id", 8, LOCAL_ID), "ack_msg_id", 8)
      /\ Piece(Num("msg_id", 8, MESSAGE_ID), "msg_id", 8)
      /\ Piece(Num("distance", 4, MESSAGE_DISTANCE), "distance", 4)
      /\ Piece(Num("message_id", 8, MESSAGE_ID), "message_id", 8)
  BY <1>2, Literals DEF FieldNames
<1>7. /\ Piece(Num("start_message_id", 8, 88), "start_message_id", 8)
      /\ Piece(Num("end_message_id", 8, 99), "end_message_id", 8)
  BY <1>2, Literals DEF FieldNames
<1>8. QED
  BY <1>3, <1>4, <1>5, <1>6, <1>7

\* A text is a row of letters, none of them 0.
LEMMA TextRow ==
  ASSUME NEW f \in FieldNames
  PROVE  Letters(Text(f), f) /\ TextLen \in Nat
<1>1. TextLen \in Nat /\ f \in Names
  BY MessagesAssumption DEF Names
<1>2. \A p \in 1..TextLen : /\ Cell(f, p, LETTER) \in CellType
                            /\ Cell(f, p, LETTER).f = f /\ Cell(f, p, LETTER).v # 0
  BY <1>1 DEF Cell, CellType, LETTER
<1>3. QED
  BY <1>1, <1>2 DEF Text, Row, Letters, Piece, Span

\* The flags and codes that the first byte of a payload may be.
LEMMA CodeBytes ==
  /\ OneByte(Byte(Flag({MSG_FLAG_NEED_RECEIPTS, MSG_FLAG_IS_USERMSG})), 9)
  /\ OneByte(Byte(Flag({MSG_FLAG_IS_RECEIPTS} \cup {})), 2)
  /\ OneByte(Byte(Flag({MSG_FLAG_IS_RECEIPTS} \cup {MSG_FLAG_IS_READ})), 6)
  /\ OneByte(Byte(Flag({MSG_FLAG_IS_USERMSG})), 8)
  /\ OneByte(DeleteFlag(1, 0), 16) /\ OneByte(DeleteFlag(2, 1), 33) /\ OneByte(DeleteFlag(3, 0), 48)
  /\ OneByte(Byte(13), 13) /\ OneByte(Byte(255), 255)
  /\ OneByte(Byte(PLUSONE(0)), 1) /\ OneByte(Byte(PLUSONE(1)), 2) /\ OneByte(Byte(PLUSONE(2)), 3)
  /\ OneByte(Byte(PLUSONE(3)), 4) /\ OneByte(Byte(PLUSONE(4)), 5)
  /\ OneByte(Byte(HERMES_VERSION), 3) /\ OneByte(Byte(MSG_TYPE_PRIVATE_CHAT), 2)
<1>1. /\ Flag({MSG_FLAG_NEED_RECEIPTS, MSG_FLAG_IS_USERMSG}) = 9
      /\ Flag({MSG_FLAG_IS_RECEIPTS} \cup {}) = 2
      /\ Flag({MSG_FLAG_IS_RECEIPTS} \cup {MSG_FLAG_IS_READ}) = 6
      /\ Flag({MSG_FLAG_IS_USERMSG}) = 8
  BY DEF Flag, MSG_FLAG_NEED_RECEIPTS, MSG_FLAG_IS_RECEIPTS, MSG_FLAG_IS_READ, MSG_FLAG_IS_USERMSG
<1>2. DeleteFlag(1, 0) = Byte(16) /\ DeleteFlag(2, 1) = Byte(33) /\ DeleteFlag(3, 0) = Byte(48)
  BY DEF DeleteFlag
<1>3. /\ PLUSONE(0) = 1 /\ PLUSONE(1) = 2 /\ PLUSONE(2) = 3 /\ PLUSONE(3) = 4 /\ PLUSONE(4) = 5
      /\ HERMES_VERSION = 3 /\ MSG_TYPE_PRIVATE_CHAT = 2
  BY DEF PLUSONE, HERMES_VERSION, MSG_TYPE_PRIVATE_CHAT
<1>4. ASSUME NEW v \in {1, 2, 3, 4, 5, 6, 8, 9, 13, 16, 33, 48, 255} PROVE OneByte(Byte(v), v)
  BY ByteRow
<1>5. QED
  BY <1>1, <1>2, <1>3, <1>4

-----------------------------------------------------------------------------
(* The messages. *)

\* Every message has one builder.
LEMMA BuilderDomains ==
  /\ DOMAIN ConnectMsgs = {"connect", "ping"}
  /\ DOMAIN SendMsgs = {"send_user", "send_recvack", "send_readack", "send_ack"}
  /\ DOMAIN PushMsgs = {"push_user", "push_readack"}
  /\ DOMAIN DeleteMsgs = {"delete_all", "delete_session", "delete_message", "delete_ack"}
  /\ DOMAIN ReqMsgs = {"req", "req_ack"}
  /\ DOMAIN SyncMsgs = {"sync_new", "sync_session", "sync_last", "sync_ack"}
  /\ DOMAIN DisconnectMsgs = {"disconnect"}
  /\ DOMAIN ReconnectMsgs = {"reconnect"}
  BY DEF ConnectMsgs, SendMsgs, PushMsgs, DeleteMsgs, ReqMsgs, SyncMsgs, DisconnectMsgs, ReconnectMsgs

\* The messages that can be built.
LEMMA SpeciesAre ==
  Species = {"connect", "ping", "send_user", "send_recvack", "send_readack", "send_ack", "push_user",
             "push_readack", "delete_all", "delete_session", "delete_message", "delete_ack", "req",
             "req_ack", "sync_new", "sync_session", "sync_last", "sync_ack", "disconnect", "reconnect"}
<1>1. Species = DOMAIN ConnectMsgs \cup DOMAIN SendMsgs \cup DOMAIN PushMsgs \cup DOMAIN DeleteMsgs
        \cup DOMAIN ReqMsgs \cup DOMAIN SyncMsgs \cup DOMAIN DisconnectMsgs \cup DOMAIN ReconnectMsgs
  BY DEF Species, Builders
<1>2. QED
  BY <1>1, BuilderDomains

\* Each builder is found under the name of its message.
LEMMA Built ==
  ASSUME NEW b \in Builders, NEW s \in DOMAIN b
  PROVE  s \in Species /\ Msgs[s] = b[s]
<1>1. \A c \in Builders : s \in DOMAIN c => c = b
  BY BuilderDomains DEF Builders
<1>2. s \in Species
  BY DEF Species
<1>3. Msgs[s] = (CHOOSE c \in Builders : s \in DOMAIN c)[s]
  BY <1>2 DEF Msgs
<1>4. (CHOOSE c \in Builders : s \in DOMAIN c) = b
  BY <1>1
<1>5. QED
  BY <1>2, <1>3, <1>4

\* Type and number of a session.
LEMMA PrivateChatRow ==
  /\ PrivateChat \in Row /\ Len(PrivateChat) = 5
  /\ PrivateChat[1].f = "byte" /\ PrivateChat[1].v = 2 /\ Span(PrivateChat, "session_id", 2, 5)
<1> DEFINE a == Byte(MSG_TYPE_PRIVATE_CHAT)
           b == Num("session_id", 4, CONNECT_TYPE_UID)
<1>1. OneByte(a, 2) /\ Piece(b, "session_id", 4)
  BY CodeBytes, NumberPieces
<1>2. PrivateChat = a \o b
  BY DEF PrivateChat
<1> HIDE DEF a, b
<1>3. Stack2(a \o b, a, b)
  BY <1>1, Rows2 DEF OneByte, Piece
<1>4. QED
  BY <1>1, <1>2, <1>3 DEF Stack2, Follows, Span, OneByte, Piece

\* The fields of the payload of connect, where they lie, and which bytes are 0.
LEMMA connect_Row ==
  LET pl == Msgs["connect"].payload IN
  /\ Msgs["connect"].fixed = 25 /\ Msgs["connect"].length = 4 + TextLen
  /\ pl \in Row /\ Len(pl) = TextLen + 5
  /\ Span(pl, "uid", 1, 4)
  /\ Span(pl, "token", 5, TextLen + 4)
  /\ \A p \in 5..(TextLen + 4) : pl[p] = Cell("token", p - 4, LETTER)
  /\ pl[TextLen + 5] = Nul
  /\ \A p \in 1..(TextLen + 4) : pl[p].v # 0
<1> DEFINE a == Num("uid", 4, CONNECT_TYPE_UID)
           b == Text("token")
           c == <<Nul>>
           pl == a \o b \o c
<1>1. Msgs["connect"] = Msg(\h10 + NEED_ACK + HAS_PAYLOAD, 4 + TextLen, pl)
  BY Built, BuilderDomains DEF Builders, ConnectMsgs
<1>2. Piece(a, "uid", 4) /\ Letters(b, "token") /\ TheEnd(c) /\ TextLen \in Nat
  BY NumberPieces, TextRow, NulRow DEF FieldNames
<1> HIDE DEF a, b, c
<1>3. Stack3(pl, a, b, c)
  BY <1>2, Rows3 DEF Piece, Letters, TheEnd
<1> HIDE DEF pl
<1>4. /\ pl \in Row /\ Len(pl) = TextLen + 5
      /\ Follows(pl, 0, a) /\ Follows(pl, 4, b) /\ Follows(pl, TextLen + 4, c)
  BY <1>2, <1>3 DEF Stack3, Piece, Letters, TheEnd
<1>5. /\ Span(pl, "uid", 1, 4)
      /\ Span(pl, "token", 5, TextLen + 4)
      /\ pl[TextLen + 5] = Nul
  BY <1>2, <1>4 DEF Follows, Span, Piece, Letters, TheEnd
<1>6. \A p \in 5..(TextLen + 4) : pl[p] = Cell("token", p - 4, LETTER)
  <2>1. Letters(b, "token") /\ Follows(pl, 4, b) /\ TextLen \in Nat
    BY <1>2, <1>4
  <2>2. QED
    BY <2>1 DEF Letters, Piece, Follows
<1>7. \A p \in 1..(TextLen + 4) : pl[p].v # 0
  <2>1. TextLen \in Nat
    BY <1>2
  <2>2. QED
    BY <2>1, <1>5 DEF Span
<1>8. QED
  BY <1>1, <1>4, <1>5, <1>6, <1>7 DEF Msg, NEED_ACK, ACK_TYPE, SYNC_TYPE, HAS_PAYLOAD

\* The fields of the payload of ping, where they lie, and which bytes are 0.
LEMMA ping_Row ==
  LET pl == Msgs["ping"].payload IN
  /\ Msgs["ping"].fixed = 41 /\ Msgs["ping"].length = 2
  /\ pl \in Row /\ Len(pl) = 2
  /\ Span(pl, "heart_interval", 1, 2)
  /\ \A p \in 1..2 : pl[p].v # 0
<1> DEFINE a == Num("heart_interval", 2, 6)
           pl == a
<1>1. Msgs["ping"] = Msg(\h20 + NEED_ACK + HAS_PAYLOAD, 2, pl)
  BY Built, BuilderDomains DEF Builders, ConnectMsgs
<1>2. Piece(a, "heart_interval", 2)
  BY NumberPieces
<1> HIDE DEF a
<1>3. QED
  BY <1>1, <1>2 DEF Span, Msg, NEED_ACK, ACK_TYPE, SYNC_TYPE, HAS_PAYLOAD, Piece

\* The fields of the payload of send_user, where they lie, and which bytes are 0.
LEMMA send_user_Row ==
  LET pl == Msgs["send_user"].payload IN
  /\ Msgs["send_user"].fixed = 57 /\ Msgs["send_user"].length = TextLen + 10
  /\ pl \in Row /\ Len(pl) = TextLen + 11
  /\ pl[1].f = "byte" /\ pl[1].v = 9
  /\ pl[2].f = "byte" /\ pl[2].v = 2
  /\ Span(pl, "session_id", 3, 6)
  /\ Span(pl, "local_id", 7, 10)
  /\ Span(pl, "body", 11, TextLen + 10)
  /\ \A p \in 11..(TextLen + 10) : pl[p] = Cell("body", p - 10, LETTER)
  /\ pl[TextLen + 11] = Nul
  /\ \A p \in 1..(TextLen + 10) : pl[p].v # 0
<1> DEFINE a == Byte(Flag({MSG_FLAG_NEED_RECEIPTS, MSG_FLAG_IS_USERMSG}))
           b == PrivateChat
           c == LocalId
           d == Text("body")
           e == <<Nul>>
           pl == a \o b \o c \o d \o e
<1>1. Msgs["send_user"] = Msg(\h30 + NEED_ACK + HAS_PAYLOAD, TextLen + 10, pl)
  BY Built, BuilderDomains DEF Builders, SendMsgs
<1>2. /\ OneByte(a, 9)
      /\ b \in Row /\ Len(b) = 5 /\ b[1].f = "byte" /\ b[1].v = 2 /\ Span(b, "session_id", 2, 5)
      /\ Piece(c, "local_id", 4) /\ Letters(d, "body") /\ TheEnd(e) /\ TextLen \in Nat
  BY CodeBytes, PrivateChatRow, NumberPieces, TextRow, NulRow DEF FieldNames
<1> HIDE DEF a, b, c, d, e
<1>3. Stack5(pl, a, b, c, d, e)
  BY <1>2, Rows5 DEF OneByte, Piece, Letters, TheEnd
<1> HIDE DEF pl
<1>4. /\ pl \in Row /\ Len(pl) = TextLen + 11
      /\ Follows(pl, 0, a) /\ Follows(pl, 1, b) /\ Follows(pl, 6, c) /\ Follows(pl, 10, d)
      /\ Follows(pl, TextLen + 10, e)
  BY <1>2, <1>3 DEF Stack5, OneByte, Piece, Letters, TheEnd
<1>5. /\ pl[1].f = "byte" /\ pl[1].v = 9
      /\ pl[2].f = "byte" /\ pl[2].v = 2
      /\ Span(pl, "session_id", 3, 6)
      /\ Span(pl, "local_id", 7, 10)
      /\ Span(pl, "body", 11, TextLen + 10)
      /\ pl[TextLen + 11] = Nul
  BY <1>2, <1>4 DEF Follows, Span, OneByte, Piece, Letters, TheEnd
<1>6. \A p \in 11..(TextLen + 10) : pl[p] = Cell("body", p - 10, LETTER)
  <2>1. Letters(d, "body") /\ Follows(pl, 10, d) /\ TextLen \in Nat
    BY <1>2, <1>4
  <2>2. QED
    BY <2>1 DEF Letters, Piece, Follows
<1>7. \A p \in 1..(TextLen + 10) : pl[p].v # 0
  <2>1. TextLen \in Nat
    BY <1>2
  <2>2. QED
    BY <2>1, <1>5 DEF Span
<1>8. QED
  BY <1>1, <1>4, <1>5, <1>6, <1>7 DEF Msg, NEED_ACK, ACK_TYPE, SYNC_TYPE, HAS_PAYLOAD

\* The fields of the payload of send_recvack, where they lie, and which bytes are 0.
LEMMA send_recvack_Row ==
  LET pl == Msgs["send_recvack"].payload IN
  /\ Msgs["send_recvack"].fixed = 56 /\ Msgs["send_recvack"].length = 14
  /\ pl \in Row /\ Len(pl) = 14
  /\ pl[1].f = "byte" /\ pl[1].v = 2
  /\ pl[2].f = "byte" /\ pl[2].v = 2
  /\ Span(pl, "session_id", 3, 6)
  /\ Span(pl, "ack_msg_id", 7, 14)
  /\ \A p \in 1..14 : pl[p].v # 0
<1> DEFINE a == Byte(Flag({MSG_FLAG_IS_RECEIPTS} \cup {}))
           b == PrivateChat
           c == Num("ack_msg_id", 8, LOCAL_ID)
           pl == a \o b \o c
<1>1. Msgs["send_recvack"] = Msg(\h30 + HAS_PAYLOAD, 14, pl)
  BY Built, BuilderDomains DEF Builders, SendMsgs, Receipt
<1>2. /\ OneByte(a, 2)
      /\ b \in Row /\ Len(b) = 5 /\ b[1].f = "byte" /\ b[1].v = 2 /\ Span(b, "session_id", 2, 5)
      /\ Piece(c, "ack_msg_id", 8)
  BY CodeBytes, PrivateChatRow, NumberPieces
<1> HIDE DEF a, b, c
<1>3. Stack3(pl, a, b, c)
  BY <1>2, Rows3 DEF OneByte, Piece
<1> HIDE DEF pl
<1>4. /\ pl \in Row /\ Len(pl) = 14
      /\ Follows(pl, 0, a) /\ Follows(pl, 1, b) /\ Follows(pl, 6, c)
  BY <1>2, <1>3 DEF Stack3, OneByte, Piece
<1>5. /\ pl[1].f = "byte" /\ pl[1].v = 2
      /\ pl[2].f = "byte" /\ pl[2].v = 2
      /\ Span(pl, "session_id", 3, 6)
      /\ Span(pl, "ack_msg_id", 7, 14)
  BY <1>2, <1>4 DEF Follows, Span, OneByte, Piece
<1>6. \A p \in 1..14 : pl[p].v # 0
  BY <1>5 DEF Span
<1>7. QED
  BY <1>1, <1>4, <1>5, <1>6 DEF Msg, NEED_ACK, ACK_TYPE, SYNC_TYPE, HAS_PAYLOAD

\* The fields of the payload of send_readack, where they lie, and which bytes are 0.
LEMMA send_readack_Row ==
  LET pl == Msgs["send_readack"].payload IN
  /\ Msgs["send_readack"].fixed = 56 /\ Msgs["send_readack"].length = 14
  /\ pl \in Row /\ Len(pl) = 14
  /\ pl[1].f = "byte" /\ pl[1].v = 6
  /\ pl[2].f = "byte" /\ pl[2].v = 2
  /\ Span(pl, "session_id", 3, 6)
  /\ Span(pl, "ack_msg_id", 7, 14)
  /\ \A p \in 1..14 : pl[p].v # 0
<1> DEFINE a == Byte(Flag({MSG_FLAG_IS_RECEIPTS} \cup {MSG_FLAG_IS_READ}))
           b == PrivateChat
           c == Num("ack_msg_id", 8, LOCAL_ID)
           pl == a \o b \o c
<1>1. Msgs["send_readack"] = Msg(\h30 + HAS_PAYLOAD, 14, pl)
  BY Built, BuilderDomains DEF Builders, SendMsgs, Receipt
<1>2. /\ OneByte(a, 6)
      /\ b \in Row /\ Len(b) = 5 /\ b[1].f = "byte" /\ b[1].v = 2 /\ Span(b, "session_id", 2, 5)
      /\ Piece(c, "ack_msg_id", 8)
  BY CodeBytes, PrivateChatRow, NumberPieces
<1> HIDE DEF a, b, c
<1>3. Stack3(pl, a, b, c)
  BY <1>2, Rows3 DEF OneByte, Piece
<1> HIDE DEF pl
<1>4. /\ pl \in Row /\ Len(pl) = 14
      /\ Follows(pl, 0, a) /\ Follows(pl, 1, b) /\ Follows(pl, 6, c)
  BY <1>2, <1>3 DEF Stack3, OneByte, Piece
<1>5. /\ pl[1].f = "byte" /\ pl[1].v = 6
      /\ pl[2].f = "byte" /\ pl[2].v = 2
      /\ Span(pl, "session_id", 3, 6)
      /\ Span(pl, "ack_msg_id", 7, 14)
  BY <1>2, <1>4 DEF Follows, Span, OneByte, Piece
<1>6. \A p \in 1..14 : pl[p].v # 0
  BY <1>5 DEF Span
<1>7. QED
  BY <1>1, <1>4, <1>5, <1>6 DEF Msg, NEED_ACK, ACK_TYPE, SYNC_TYPE, HAS_PAYLOAD

\* The fields of the payload of send_ack, where they lie, and which bytes are 0.
LEMMA send_ack_Row ==
  LET pl == Msgs["send_ack"].payload IN
  /\ Msgs["send_ack"].fixed = 58 /\ Msgs["send_ack"].length = 9
  /\ pl \in Row /\ Len(pl) = 9
  /\ pl[1].f = "byte" /\ pl[1].v = 13
  /\ Span(pl, "local_id", 2, 5)
  /\ Span(pl, "msg_timestamp", 6, 9)
  /\ \A p \in 1..9 : pl[p].v # 0
<1> DEFINE a == Byte(13)
           b == LocalId
           c == Timestamp
           pl == a \o b \o c
<1>1. Msgs["send_ack"] = Msg(\h30 + ACK_TYPE + HAS_PAYLOAD, 9, pl)
  BY Built, BuilderDomains DEF Builders, SendMsgs
<1>2. OneByte(a, 13) /\ Piece(b, "local_id", 4) /\ Piece(c, "msg_timestamp", 4)
  BY CodeBytes, NumberPieces
<1> HIDE DEF a, b, c
<1>3. Stack3(pl, a, b, c)
  BY <1>2, Rows3 DEF OneByte, Piece
<1> HIDE DEF pl
<1>4. /\ pl \in Row /\ Len(pl) = 9
      /\ Follows(pl, 0, a) /\ Follows(pl, 1, b) /\ Follows(pl, 5, c)
  BY <1>2, <1>3 DEF Stack3, OneByte, Piece
<1>5. /\ pl[1].f = "byte" /\ pl[1].v = 13
      /\ Span(pl, "local_id", 2, 5)
      /\ Span(pl, "msg_timestamp", 6, 9)
  BY <1>2, <1>4 DEF Follows, Span, OneByte, Piece
<1>6. \A p \in 1..9 : pl[p].v # 0
  BY <1>5 DEF Span
<1>7. QED
  BY <1>1, <1>4, <1>5, <1>6 DEF Msg, NEED_ACK, ACK_TYPE, SYNC_TYPE, HAS_PAYLOAD

\* The fields of the payload of push_user, where they lie, and which bytes are 0.
LEMMA push_user_Row ==
  LET pl == Msgs["push_user"].payload IN
  /\ Msgs["push_user"].fixed = 72 /\ Msgs["push_user"].length = TextLen + 22
  /\ pl \in Row /\ Len(pl) = TextLen + 23
  /\ pl[1].f = "byte" /\ pl[1].v = 8
  /\ pl[2].f = "byte" /\ pl[2].v = 2
  /\ Span(pl, "session_id", 3, 6)
  /\ Span(pl, "msg_id", 7, 14)
  /\ Span(pl, "msg_timestamp", 15, 18)
  /\ Span(pl, "distance", 19, 22)
  /\ Span(pl, "body", 23, TextLen + 22)
  /\ \A p \in 23..(TextLen + 22) : pl[p] = Cell("body", p - 22, LETTER)
  /\ pl[TextLen + 23] = Nul
  /\ \A p \in 1..(TextLen + 22) : pl[p].v # 0
<1> DEFINE a == Byte(Flag({MSG_FLAG_IS_USERMSG}))
           b == PrivateChat
           c == Num("msg_id", 8, MESSAGE_ID)
           d == Timestamp
           e == Num("distance", 4, MESSAGE_DISTANCE)
           f == Text("body")
           g == <<Nul>>
           pl == a \o b \o c \o d \o e \o f \o g
<1>1. Msgs["push_user"] = Msg(\h40 + HAS_PAYLOAD, TextLen + 22, pl)
  BY Built, BuilderDomains DEF Builders, PushMsgs
<1>2. /\ OneByte(a, 8)
      /\ b \in Row /\ Len(b) = 5 /\ b[1].f = "byte" /\ b[1].v = 2 /\ Span(b, "session_id", 2, 5)
      /\ Piece(c, "msg_id", 8) /\ Piece(d, "msg_timestamp", 4) /\ Piece(e, "distance", 4)
      /\ Letters(f, "body") /\ TheEnd(g) /\ TextLen \in Nat
  BY CodeBytes, PrivateChatRow, NumberPieces, TextRow, NulRow DEF FieldNames
<1> HIDE DEF a, b, c, d, e, f, g
<1>3. Stack7(pl, a, b, c, d, e, f, g)
  BY <1>2, Rows7 DEF OneByte, Piece, Letters, TheEnd
<1> HIDE DEF pl
<1>4. /\ pl \in Row /\ Len(pl) = TextLen + 23
      /\ Follows(pl, 0, a) /\ Follows(pl, 1, b) /\ Follows(pl, 6, c) /\ Follows(pl, 14, d)
      /\ Follows(pl, 18, e) /\ Follows(pl, 22, f) /\ Follows(pl, TextLen + 22, g)
  BY <1>2, <1>3 DEF Stack7, OneByte, Piece, Letters, TheEnd
<1>5. pl[1].f = "byte" /\ pl[1].v = 8
  <2>1. /\ OneByte(a, 8)
        /\ Follows(pl, 0, a) /\ TextLen \in Nat
    BY <1>2, <1>4
  <2>2. QED
    BY <2>1 DEF Follows, Span, OneByte, Piece, Letters, TheEnd
<1>6. /\ pl[2].f = "byte" /\ pl[2].v = 2
      /\ Span(pl, "session_id", 3, 6)
  <2>1. /\ b \in Row /\ Len(b) = 5 /\ b[1].f = "byte" /\ b[1].v = 2 /\ Span(b, "session_id", 2, 5)
        /\ Follows(pl, 1, b) /\ TextLen \in Nat
    BY <1>2, <1>4
  <2>2. QED
    BY <2>1 DEF Follows, Span, OneByte, Piece, Letters, TheEnd
<1>7. Span(pl, "msg_id", 7, 14)
  <2>1. /\ Piece(c, "msg_id", 8)
        /\ Follows(pl, 6, c) /\ TextLen \in Nat
    BY <1>2, <1>4
  <2>2. QED
    BY <2>1 DEF Follows, Span, OneByte, Piece, Letters, TheEnd
<1>8. Span(pl, "msg_timestamp", 15, 18)
  <2>1. /\ Piece(d, "msg_timestamp", 4)
        /\ Follows(pl, 14, d) /\ TextLen \in Nat
    BY <1>2, <1>4
  <2>2. QED
    BY <2>1 DEF Follows, Span, OneByte, Piece, Letters, TheEnd
<1>9. Span(pl, "distance", 19, 22)
  <2>1. /\ Piece(e, "distance", 4)
        /\ Follows(pl, 18, e) /\ TextLen \in Nat
    BY <1>2, <1>4
  <2>2. QED
    BY <2>1 DEF Follows, Span, OneByte, Piece, Letters, TheEnd
<1>10. Span(pl, "body", 23, TextLen + 22)
  <2>1. /\ Letters(f, "body")
        /\ Follows(pl, 22, f) /\ TextLen \in Nat
    BY <1>2, <1>4
  <2>2. QED
    BY <2>1 DEF Follows, Span, OneByte, Piece, Letters, TheEnd
<1>11. pl[TextLen + 23] = Nul
  <2>1. /\ TheEnd(g)
        /\ Follows(pl, TextLen + 22, g) /\ TextLen \in Nat
    BY <1>2, <1>4
  <2>2. QED
    BY <2>1 DEF Follows, Span, OneByte, Piece, Letters, TheEnd
<1>12. \A p \in 23..(TextLen + 22) : pl[p] = Cell("body", p - 22, LETTER)
  <2>1. Letters(f, "body") /\ Follows(pl, 22, f) /\ TextLen \in Nat
    BY <1>2, <1>4
  <2>2. QED
    BY <2>1 DEF Letters, Piece, Follows
<1>13. \A p \in 1..(TextLen + 22) : pl[p].v # 0
  <2>1. TextLen \in Nat
    BY <1>2
  <2>2. QED
    BY <2>1, <1>5, <1>6, <1>7, <1>8, <1>9, <1>10, <1>11 DEF Span
<1>14. QED
  BY <1>1, <1>4, <1>5, <1>6, <1>7, <1>8, <1>9, <1>10, <1>11, <1>12, <1>13 DEF Msg, NEED_ACK, ACK_TYPE, SYNC_TYPE, HAS_PAYLOAD

\* The fields of the payload of push_readack, where they lie, and which bytes are 0.
LEMMA push_readack_Row ==
  LET pl == Msgs["push_readack"].payload IN
  /\ Msgs["push_readack"].fixed = 72 /\ Msgs["push_readack"].length = 14
  /\ pl \in Row /\ Len(pl) = 14
  /\ pl[1].f = "byte" /\ pl[1].v = 6
  /\ pl[2].f = "byte" /\ pl[2].v = 2
  /\ Span(pl, "session_id", 3, 6)
  /\ Span(pl, "msg_id", 7, 14)
  /\ \A p \in 1..14 : pl[p].v # 0
<1> DEFINE a == Byte(Flag({MSG_FLAG_IS_RECEIPTS} \cup {MSG_FLAG_IS_READ}))
           b == PrivateChat
           c == Num("msg_id", 8, MESSAGE_ID)
           pl == a \o b \o c
<1>1. Msgs["push_readack"] = Msg(\h40 + HAS_PAYLOAD, 14, pl)
  BY Built, BuilderDomains DEF Builders, PushMsgs, Receipt
<1>2. /\ OneByte(a, 6)
      /\ b \in Row /\ Len(b) = 5 /\ b[1].f = "byte" /\ b[1].v = 2 /\ Span(b, "session_id", 2, 5)
      /\ Piece(c, "msg_id", 8)
  BY CodeBytes, PrivateChatRow, NumberPieces
<1> HIDE DEF a, b, c
<1>3. Stack3(pl, a, b, c)
  BY <1>2, Rows3 DEF OneByte, Piece
<1> HIDE DEF pl
<1>4. /\ pl \in Row /\ Len(pl) = 14
      /\ Follows(pl, 0, a) /\ Follows(pl, 1, b) /\ Follows(pl, 6, c)
  BY <1>2, <1>3 DEF Stack3, OneByte, Piece
<1>5. /\ pl[1].f = "byte" /\ pl[1].v = 6
      /\ pl[2].f = "byte" /\ pl[2].v = 2
      /\ Span(pl, "session_id", 3, 6)
      /\ Span(pl, "msg_id", 7, 14)
  BY <1>2, <1>4 DEF Follows, Span, OneByte, Piece
<1>6. \A p \in 1..14 : pl[p].v # 0
  BY <1>5 DEF Span
<1>7. QED
  BY <1>1, <1>4, <1>5, <1>6 DEF Msg, NEED_ACK, ACK_TYPE, SYNC_TYPE, HAS_PAYLOAD

\* The fields of the payload of delete_all, where they lie, and which bytes are 0.
LEMMA delete_all_Row ==
  LET pl == Msgs["delete_all"].payload IN
  /\ Msgs["delete_all"].fixed = 105 /\ Msgs["delete_all"].length = 5
  /\ pl \in Row /\ Len(pl) = 5
  /\ pl[1].f = "byte" /\ pl[1].v = 16
  /\ Span(pl, "local_id", 2, 5)
  /\ \A p \in 1..5 : pl[p].v # 0
<1> DEFINE a == DeleteFlag(1, 0)
           b == LocalId
           pl == a \o b
<1>1. Msgs["delete_all"] = Msg(\h60 + NEED_ACK + HAS_PAYLOAD, 5, pl)
  BY Built, BuilderDomains DEF Builders, DeleteMsgs
<1>2. OneByte(a, 16) /\ Piece(b, "local_id", 4)
  BY CodeBytes, NumberPieces
<1> HIDE DEF a, b
<1>3. Stack2(pl, a, b)
  BY <1>2, Rows2 DEF OneByte, Piece
<1> HIDE DEF pl
<1>4. /\ pl \in Row /\ Len(pl) = 5
      /\ Follows(pl, 0, a) /\ Follows(pl, 1, b)
  BY <1>2, <1>3 DEF Stack2, OneByte, Piece
<1>5. /\ pl[1].f = "byte" /\ pl[1].v = 16
      /\ Span(pl, "local_id", 2, 5)
  BY <1>2, <1>4 DEF Follows, Span, OneByte, Piece
<1>6. \A p \in 1..5 : pl[p].v # 0
  BY <1>5 DEF Span
<1>7. QED
  BY <1>1, <1>4, <1>5, <1>6 DEF Msg, NEED_ACK, ACK_TYPE, SYNC_TYPE, HAS_PAYLOAD

\* The fields of the payload of delete_session, where they lie, and which bytes are 0.
LEMMA delete_session_Row ==
  LET pl == Msgs["delete_session"].payload IN
  /\ Msgs["delete_session"].fixed = 105 /\ Msgs["delete_session"].length = 10
  /\ pl \in Row /\ Len(pl) = 10
  /\ pl[1].f = "byte" /\ pl[1].v = 33
  /\ Span(pl, "local_id", 2, 5)
  /\ pl[6].f = "byte" /\ pl[6].v = 2
  /\ Span(pl, "session_id", 7, 10)
  /\ \A p \in 1..10 : pl[p].v # 0
<1> DEFINE a == DeleteFlag(2, 1)
           b == LocalId
           c == PrivateChat
           pl == a \o b \o c
<1>1. Msgs["delete_session"] = Msg(\h60 + NEED_ACK + HAS_PAYLOAD, 10, pl)
  BY Built, BuilderDomains DEF Builders, DeleteMsgs
<1>2. /\ OneByte(a, 33) /\ Piece(b, "local_id", 4)
      /\ c \in Row /\ Len(c) = 5 /\ c[1].f = "byte" /\ c[1].v = 2 /\ Span(c, "session_id", 2, 5)
  BY CodeBytes, NumberPieces, PrivateChatRow
<1> HIDE DEF a, b, c
<1>3. Stack3(pl, a, b, c)
  BY <1>2, Rows3 DEF OneByte, Piece
<1> HIDE DEF pl
<1>4. /\ pl \in Row /\ Len(pl) = 10
      /\ Follows(pl, 0, a) /\ Follows(pl, 1, b) /\ Follows(pl, 5, c)
  BY <1>2, <1>3 DEF Stack3, OneByte, Piece
<1>5. /\ pl[1].f = "byte" /\ pl[1].v = 33
      /\ Span(pl, "local_id", 2, 5)
      /\ pl[6].f = "byte" /\ pl[6].v = 2
      /\ Span(pl, "session_id", 7, 10)
  BY <1>2, <1>4 DEF Follows, Span, OneByte, Piece
<1>6. \A p \in 1..10 : pl[p].v # 0
  BY <1>5 DEF Span
<1>7. QED
  BY <1>1, <1>4, <1>5, <1>6 DEF Msg, NEED_ACK, ACK_TYPE, SYNC_TYPE, HAS_PAYLOAD

\* The fields of the payload of delete_message, where they lie, and which bytes are 0.
LEMMA delete_message_Row ==
  LET pl == Msgs["delete_message"].payload IN
  /\ Msgs["delete_message"].fixed = 105 /\ Msgs["delete_message"].length = 10
  /\ pl \in Row /\ Len(pl) = 18
  /\ pl[1].f = "byte" /\ pl[1].v = 48
  /\ Span(pl, "local_id", 2, 5)
  /\ pl[6].f = "byte" /\ pl[6].v = 2
  /\ Span(pl, "session_id", 7, 10)
  /\ Span(pl, "message_id", 11, 18)
  /\ \A p \in 1..18 : pl[p].v # 0
<1> DEFINE a == DeleteFlag(3, 0)
           b == LocalId
           c == PrivateChat
           d == Num("message_id", 8, MESSAGE_ID)
           pl == a \o b \o c \o d
<1>1. Msgs["delete_message"] = Msg(\h60 + NEED_ACK + HAS_PAYLOAD, 10, pl)
  BY Built, BuilderDomains DEF Builders, DeleteMsgs
<1>2. /\ OneByte(a, 48) /\ Piece(b, "local_id", 4)
      /\ c \in Row /\ Len(c) = 5 /\ c[1].f = "byte" /\ c[1].v = 2 /\ Span(c, "session_id", 2, 5)
      /\ Piece(d, "message_id", 8)
  BY CodeBytes, NumberPieces, PrivateChatRow
<1> HIDE DEF a, b, c, d
<1>3. Stack4(pl, a, b, c, d)
  BY <1>2, Rows4 DEF OneByte, Piece
<1> HIDE DEF pl
<1>4. /\ pl \in Row /\ Len(pl) = 18
      /\ Follows(pl, 0, a) /\ Follows(pl, 1, b) /\ Follows(pl, 5, c) /\ Follows(pl, 10, d)
  BY <1>2, <1>3 DEF Stack4, OneByte, Piece
<1>5. /\ pl[1].f = "byte" /\ pl[1].v = 48
      /\ Span(pl, "local_id", 2, 5)
      /\ pl[6].f = "byte" /\ pl[6].v = 2
      /\ Span(pl, "session_id", 7, 10)
      /\ Span(pl, "message_id", 11, 18)
  BY <1>2, <1>4 DEF Follows, Span, OneByte, Piece
<1>6. \A p \in 1..18 : pl[p].v # 0
  BY <1>5 DEF Span
<1>7. QED
  BY <1>1, <1>4, <1>5, <1>6 DEF Msg, NEED_ACK, ACK_TYPE, SYNC_TYPE, HAS_PAYLOAD

\* The fields of the payload of delete_ack, where they lie, and which bytes are 0.
LEMMA delete_ack_Row ==
  LET pl == Msgs["delete_ack"].payload IN
  /\ Msgs["delete_ack"].fixed = 106 /\ Msgs["delete_ack"].length = 5
  /\ pl \in Row /\ Len(pl) = 5
  /\ pl[1].f = "byte" /\ pl[1].v = 255
  /\ Span(pl, "local_id", 2, 5)
  /\ \A p \in 1..5 : pl[p].v # 0
<1> DEFINE a == Byte(255)
           b == LocalId
           pl == a \o b
<1>1. Msgs["delete_ack"] = Msg(\h60 + ACK_TYPE + HAS_PAYLOAD, 5, pl)
  BY Built, BuilderDomains DEF Builders, DeleteMsgs
<1>2. OneByte(a, 255) /\ Piece(b, "local_id", 4)
  BY CodeBytes, NumberPieces
<1> HIDE DEF a, b
<1>3. Stack2(pl, a, b)
  BY <1>2, Rows2 DEF OneByte, Piece
<1> HIDE DEF pl
<1>4. /\ pl \in Row /\ Len(pl) = 5
      /\ Follows(pl, 0, a) /\ Follows(pl, 1, b)
  BY <1>2, <1>3 DEF Stack2, OneByte, Piece
<1>5. /\ pl[1].f = "byte" /\ pl[1].v = 255
      /\ Span(pl, "local_id", 2, 5)
  BY <1>2, <1>4 DEF Follows, Span, OneByte, Piece
<1>6. \A p \in 1..5 : pl[p].v # 0
  BY <1>5 DEF Span
<1>7. QED
  BY <1>1, <1>4, <1>5, <1>6 DEF Msg, NEED_ACK, ACK_TYPE, SYNC_TYPE, HAS_PAYLOAD

\* The fields of the payload of req, where they lie, and which bytes are 0.
LEMMA req_Row ==
  LET pl == Msgs["req"].payload IN
  /\ Msgs["req"].fixed = 121 /\ Msgs["req"].length = 5 + TextLen
  /\ pl \in Row /\ Len(pl) = TextLen + 6
  /\ pl[1].f = "byte" /\ pl[1].v = 2
  /\ Span(pl, "local_id", 2, 5)
  /\ Span(pl, "msgpack", 6, TextLen + 5)
  /\ \A p \in 6..(TextLen + 5) : pl[p] = Cell("msgpack", p - 5, LETTER)
  /\ pl[TextLen + 6] = Nul
  /\ \A p \in 1..(TextLen + 5) : pl[p].v # 0
<1> DEFINE a == Byte(PLUSONE(1))
           b == LocalId
           c == Text("msgpack")
           d == <<Nul>>
           pl == a \o b \o c \o d
<1>1. Msgs["req"] = Msg(\h70 + NEED_ACK + HAS_PAYLOAD, 5 + TextLen, pl)
  BY Built, BuilderDomains DEF Builders, ReqMsgs
<1>2. /\ OneByte(a, 2) /\ Piece(b, "local_id", 4) /\ Letters(c, "msgpack") /\ TheEnd(d)
      /\ TextLen \in Nat
  BY CodeBytes, NumberPieces, TextRow, NulRow DEF FieldNames
<1> HIDE DEF a, b, c, d
<1>3. Stack4(pl, a, b, c, d)
  BY <1>2, Rows4 DEF OneByte, Piece, Letters, TheEnd
<1> HIDE DEF pl
<1>4. /\ pl \in Row /\ Len(pl) = TextLen + 6
      /\ Follows(pl, 0, a) /\ Follows(pl, 1, b) /\ Follows(pl, 5, c) /\ Follows(pl, TextLen + 5, d)
  BY <1>2, <1>3 DEF Stack4, OneByte, Piece, Letters, TheEnd
<1>5. /\ pl[1].f = "byte" /\ pl[1].v = 2
      /\ Span(pl, "local_id", 2, 5)
      /\ Span(pl, "msgpack", 6, TextLen + 5)
      /\ pl[TextLen + 6] = Nul
  BY <1>2, <1>4 DEF Follows, Span, OneByte, Piece, Letters, TheEnd
<1>6. \A p \in 6..(TextLen + 5) : pl[p] = Cell("msgpack", p - 5, LETTER)
  <2>1. Letters(c, "msgpack") /\ Follows(pl, 5, c) /\ TextLen \in Nat
    BY <1>2, <1>4
  <2>2. QED
    BY <2>1 DEF Letters, Piece, Follows
<1>7. \A p \in 1..(TextLen + 5) : pl[p].v # 0
  <2>1. TextLen \in Nat
    BY <1>2
  <2>2. QED
    BY <2>1, <1>5 DEF Span
<1>8. QED
  BY <1>1, <1>4, <1>5, <1>6, <1>7 DEF Msg, NEED_ACK, ACK_TYPE, SYNC_TYPE, HAS_PAYLOAD

\* The fields of the payload of req_ack, where they lie, and which bytes are 0.
LEMMA req_ack_Row ==
  LET pl == Msgs["req_ack"].payload IN
  /\ Msgs["req_ack"].fixed = 122 /\ Msgs["req_ack"].length = 5 + TextLen
  /\ pl \in Row /\ Len(pl) = TextLen + 6
  /\ pl[1].f = "byte" /\ pl[1].v = 1
  /\ Span(pl, "local_id", 2, 5)
  /\ Span(pl, "msgpack", 6, TextLen + 5)
  /\ \A p \in 6..(TextLen + 5) : pl[p] = Cell("msgpack", p - 5, LETTER)
  /\ pl[TextLen + 6] = Nul
  /\ \A p \in 1..(TextLen + 5) : pl[p].v # 0
<1> DEFINE a == Byte(PLUSONE(0))
           b == LocalId
           c == Text("msgpack")
           d == <<Nul>>
           pl == a \o b \o c \o d
<1>1. Msgs["req_ack"] = Msg(\h70 + ACK_TYPE + HAS_PAYLOAD, 5 + TextLen, pl)
  BY Built, BuilderDomains DEF Builders, ReqMsgs
<1>2. /\ OneByte(a, 1) /\ Piece(b, "local_id", 4) /\ Letters(c, "msgpack") /\ TheEnd(d)
      /\ TextLen \in Nat
  BY CodeBytes, NumberPieces, TextRow, NulRow DEF FieldNames
<1> HIDE DEF a, b, c, d
<1>3. Stack4(pl, a, b, c, d)
  BY <1>2, Rows4 DEF OneByte, Piece, Letters, TheEnd
<1> HIDE DEF pl
<1>4. /\ pl \in Row /\ Len(pl) = TextLen + 6
      /\ Follows(pl, 0, a) /\ Follows(pl, 1, b) /\ Follows(pl, 5, c) /\ Follows(pl, TextLen + 5, d)
  BY <1>2, <1>3 DEF Stack4, OneByte, Piece, Letters, TheEnd
<1>5. /\ pl[1].f = "byte" /\ pl[1].v = 1
      /\ Span(pl, "local_id", 2, 5)
      /\ Span(pl, "msgpack", 6, TextLen + 5)
      /\ pl[TextLen + 6] = Nul
  BY <1>2, <1>4 DEF Follows, Span, OneByte, Piece, Letters, TheEnd
<1>6. \A p \in 6..(TextLen + 5) : pl[p] = Cell("msgpack", p - 5, LETTER)
  <2>1. Letters(c, "msgpack") /\ Follows(pl, 5, c) /\ TextLen \in Nat
    BY <1>2, <1>4
  <2>2. QED
    BY <2>1 DEF Letters, Piece, Follows
<1>7. \A p \in 1..(TextLen + 5) : pl[p].v # 0
  <2>1. TextLen \in Nat
    BY <1>2
  <2>2. QED
    BY <2>1, <1>5 DEF Span
<1>8. QED
  BY <1>1, <1>4, <1>5, <1>6, <1>7 DEF Msg, NEED_ACK, ACK_TYPE, SYNC_TYPE, HAS_PAYLOAD

\* The fields of the payload of sync_new, where they lie, and which bytes are 0.
LEMMA sync_new_Row ==
  LET pl == Msgs["sync_new"].payload IN
  /\ Msgs["sync_new"].fixed = 93 /\ Msgs["sync_new"].length = 9
  /\ pl \in Row /\ Len(pl) = 9
  /\ pl[1].f = "byte" /\ pl[1].v = 3
  /\ Span(pl, "local_id", 2, 5)
  /\ Span(pl, "sync_local_id", 6, 9)
  /\ \A p \in 1..9 : pl[p].v # 0
<1> DEFINE a == Byte(PLUSONE(2))
           b == LocalId
           c == SyncLocalId
           pl == a \o b \o c
<1>1. Msgs["sync_new"] = Msg(\h50 + NEED_ACK + SYNC_TYPE + HAS_PAYLOAD, 9, pl)
  BY Built, BuilderDomains DEF Builders, SyncMsgs
<1>2. OneByte(a, 3) /\ Piece(b, "local_id", 4) /\ Piece(c, "sync_local_id", 4)
  BY CodeBytes, NumberPieces
<1> HIDE DEF a, b, c
<1>3. Stack3(pl, a, b, c)
  BY <1>2, Rows3 DEF OneByte, Piece
<1> HIDE DEF pl
<1>4. /\ pl \in Row /\ Len(pl) = 9
      /\ Follows(pl, 0, a) /\ Follows(pl, 1, b) /\ Follows(pl, 5, c)
  BY <1>2, <1>3 DEF Stack3, OneByte, Piece
<1>5. /\ pl[1].f = "byte" /\ pl[1].v = 3
      /\ Span(pl, "local_id", 2, 5)
      /\ Span(pl, "sync_local_id", 6, 9)
  BY <1>2, <1>4 DEF Follows, Span, OneByte, Piece
<1>6. \A p \in 1..9 : pl[p].v # 0
  BY <1>5 DEF Span
<1>7. QED
  BY <1>1, <1>4, <1>5, <1>6 DEF Msg, NEED_ACK, ACK_TYPE, SYNC_TYPE, HAS_PAYLOAD

\* The fields of the payload of sync_session, where they lie, and which bytes are 0.
LEMMA sync_session_Row ==
  LET pl == Msgs["sync_session"].payload IN
  /\ Msgs["sync_session"].fixed = 93 /\ Msgs["sync_session"].length = 26
  /\ pl \in Row /\ Len(pl) = 26
  /\ pl[1].f = "byte" /\ pl[1].v = 4
  /\ Span(pl, "local_id", 2, 5)
  /\ pl[6].f = "byte" /\ pl[6].v = 2
  /\ Span(pl, "session_id", 7, 10)
  /\ Span(pl, "start_message_id", 11, 18)
  /\ Span(pl, "end_message_id", 19, 26)
  /\ \A p \in 1..26 : pl[p].v # 0
<1> DEFINE a == Byte(PLUSONE(3))
           b == LocalId
           c == PrivateChat
           d == Num("start_message_id", 8, 88)
           e == Num("end_message_id", 8, 99)
           pl == a \o b \o c \o d \o e
<1>1. Msgs["sync_session"] = Msg(\h50 + NEED_ACK + SYNC_TYPE + HAS_PAYLOAD, 26, pl)
  BY Built, BuilderDomains DEF Builders, SyncMsgs
<1>2. /\ OneByte(a, 4) /\ Piece(b, "local_id", 4)
      /\ c \in Row /\ Len(c) = 5 /\ c[1].f = "byte" /\ c[1].v = 2 /\ Span(c, "session_id", 2, 5)
      /\ Piece(d, "start_message_id", 8) /\ Piece(e, "end_message_id", 8)
  BY CodeBytes, NumberPieces, PrivateChatRow
<1> HIDE DEF a, b, c, d, e
<1>3. Stack5(pl, a, b, c, d, e)
  BY <1>2, Rows5 DEF OneByte, Piece
<1> HIDE DEF pl
<1>4. /\ pl \in Row /\ Len(pl) = 26
      /\ Follows(pl, 0, a) /\ Follows(pl, 1, b) /\ Follows(pl, 5, c) /\ Follows(pl, 10, d)
      /\ Follows(pl, 18, e)
  BY <1>2, <1>3 DEF Stack5, OneByte, Piece
<1>5. /\ pl[1].f = "byte" /\ pl[1].v = 4
      /\ Span(pl, "local_id", 2, 5)
      /\ pl[6].f = "byte" /\ pl[6].v = 2
      /\ Span(pl, "session_id", 7, 10)
      /\ Span(pl, "start_message_id", 11, 18)
      /\ Span(pl, "end_message_id", 19, 26)
  BY <1>2, <1>4 DEF Follows, Span, OneByte, Piece
<1>6. \A p \in 1..26 : pl[p].v # 0
  BY <1>5 DEF Span
<1>7. QED
  BY <1>1, <1>4, <1>5, <1>6 DEF Msg, NEED_ACK, ACK_TYPE, SYNC_TYPE, HAS_PAYLOAD

\* The fields of the payload of sync_last, where they lie, and which bytes are 0.
LEMMA sync_last_Row ==
  LET pl == Msgs["sync_last"].payload IN
  /\ Msgs["sync_last"].fixed = 93 /\ Msgs["sync_last"].length = 10
  /\ pl \in Row /\ Len(pl) = 10
  /\ pl[1].f = "byte" /\ pl[1].v = 5
  /\ Span(pl, "local_id", 2, 5)
  /\ pl[6].f = "byte" /\ pl[6].v = 2
  /\ Span(pl, "session_id", 7, 10)
  /\ \A p \in 1..10 : pl[p].v # 0
<1> DEFINE a == Byte(PLUSONE(4))
           b == LocalId
           c == PrivateChat
           pl == a \o b \o c
<1>1. Msgs["sync_last"] = Msg(\h50 + NEED_ACK + SYNC_TYPE + HAS_PAYLOAD, 10, pl)
  BY Built, BuilderDomains DEF Builders, SyncMsgs
<1>2. /\ OneByte(a, 5) /\ Piece(b, "local_id", 4)
      /\ c \in Row /\ Len(c) = 5 /\ c[1].f = "byte" /\ c[1].v = 2 /\ Span(c, "session_id", 2, 5)
  BY CodeBytes, NumberPieces, PrivateChatRow
<1> HIDE DEF a, b, c
<1>3. Stack3(pl, a, b, c)
  BY <1>2, Rows3 DEF OneByte, Piece
<1> HIDE DEF pl
<1>4. /\ pl \in Row /\ Len(pl) = 10
      /\ Follows(pl, 0, a) /\ Follows(pl, 1, b) /\ Follows(pl, 5, c)
  BY <1>2, <1>3 DEF Stack3, OneByte, Piece
<1>5. /\ pl[1].f = "byte" /\ pl[1].v = 5
      /\ Span(pl, "local_id", 2, 5)
      /\ pl[6].f = "byte" /\ pl[6].v = 2
      /\ Span(pl, "session_id", 7, 10)
  BY <1>2, <1>4 DEF Follows, Span, OneByte, Piece
<1>6. \A p \in 1..10 : pl[p].v # 0
  BY <1>5 DEF Span
<1>7. QED
  BY <1>1, <1>4, <1>5, <1>6 DEF Msg, NEED_ACK, ACK_TYPE, SYNC_TYPE, HAS_PAYLOAD

\* The fields of the payload of disconnect, where they lie, and which bytes are 0.
LEMMA disconnect_Row ==
  LET pl == Msgs["disconnect"].payload IN
  /\ Msgs["disconnect"].fixed = 232 /\ Msgs["disconnect"].length = 1
  /\ pl \in Row /\ Len(pl) = 1
  /\ pl[1].f = "byte" /\ pl[1].v = 5
  /\ \A p \in 1..1 : pl[p].v # 0
<1> DEFINE a == Byte(PLUSONE(4))
           pl == a
<1>1. Msgs["disconnect"] = Msg(\he0 + HAS_PAYLOAD, 1, pl)
  BY Built, BuilderDomains DEF Builders, DisconnectMsgs
<1>2. OneByte(a, 5)
  BY CodeBytes
<1> HIDE DEF a
<1>3. QED
  BY <1>1, <1>2 DEF Span, Msg, NEED_ACK, ACK_TYPE, SYNC_TYPE, HAS_PAYLOAD, OneByte

-----------------------------------------------------------------------------
(* The packed messages of a SYNC-ACK. *)

\* The length of one of them.
Width == TextLen + 28

\* A packed message has no end of its own, and the length of its payload before it.
LEMMA PackedPushRow ==
  /\ PackedPush \in Row /\ Len(PackedPush) = Width
  /\ PackedPush[1].f = "byte" /\ PackedPush[1].v = 72
  /\ PackedPush[2].f = "byte" /\ PackedPush[2].v = 3
  /\ \A p \in 3..6 : /\ PackedPush[p].f = "packed_length"
                     /\ PackedPush[p].v = PLUSONE(Digit(TextLen + 22, 6 - p))
  /\ PackedPush[7].f = "byte" /\ PackedPush[7].v = 8
  /\ PackedPush[8].f = "byte" /\ PackedPush[8].v = 2
  /\ Span(PackedPush, "session_id", 9, 12) /\ Span(PackedPush, "msg_id", 13, 20)
  /\ Span(PackedPush, "msg_timestamp", 21, 24) /\ Span(PackedPush, "distance", 25, 28)
  /\ Span(PackedPush, "body", 29, Width)
  /\ \A p \in 29..Width : PackedPush[p] = Cell("body", p - 28, LETTER)
  /\ Literal(TextLen + 22) => \A p \in 1..Width : PackedPush[p].v # 0
<1> DEFINE m == Msgs["push_user"]
           pl == m.payload
           a == Byte(72)
           b == Byte(HERMES_VERSION)
           c == Num("packed_length", 4, TextLen + 22)
           d == Front(pl)
           r == a \o b \o c \o d
<1>1. TextLen \in Nat
  BY MessagesAssumption
<1>2. PackedPush = r
  <2>1. m = PushMsgs.push_user
    BY Built, BuilderDomains DEF Builders
  <2>2. m.fixed = 72 /\ m.length = TextLen + 22
    BY push_user_Row
  <2>3. QED
    BY <2>1, <2>2 DEF PackedPush, Copied
<1>3. OneByte(a, 72) /\ OneByte(b, 3)
  BY ByteRow, CodeBytes
<1>4. Digits(c, "packed_length", 4, TextLen + 22)
  <2>1. "packed_length" \in Names
    BY DEF Names, FieldNames
  <2>2. TextLen + 22 \in Nat
    BY <1>1
  <2>3. QED
    BY <2>1, <2>2, NumRow
<1>5. /\ pl \in Row /\ Len(pl) = TextLen + 23
      /\ pl[1].f = "byte" /\ pl[1].v = 8 /\ pl[2].f = "byte" /\ pl[2].v = 2
      /\ Span(pl, "session_id", 3, 6) /\ Span(pl, "msg_id", 7, 14)
      /\ Span(pl, "msg_timestamp", 15, 18) /\ Span(pl, "distance", 19, 22)
      /\ Span(pl, "body", 23, TextLen + 22) /\ \A p \in 1..(TextLen + 22) : pl[p].v # 0
      /\ \A p \in 23..(TextLen + 22) : pl[p] = Cell("body", p - 22, LETTER)
  BY push_user_Row
<1> HIDE DEF a, b, c, m
<1>6. d \in Row /\ Len(d) = TextLen + 22 /\ \A p \in 1..(TextLen + 22) : d[p] = pl[p]
  BY <1>1, <1>5, SubRow DEF Front
<1> HIDE DEF d
<1>7. Stack4(r, a, b, c, d)
  BY <1>3, <1>4, <1>6, Rows4 DEF OneByte, Digits
<1> HIDE DEF r
<1>8. /\ r \in Row /\ Len(r) = TextLen + 28
      /\ Follows(r, 0, a) /\ Follows(r, 1, b) /\ Follows(r, 2, c) /\ Follows(r, 6, d)
  BY <1>1, <1>3, <1>4, <1>6, <1>7 DEF Stack4, OneByte, Digits
<1>9. /\ r[1].f = "byte" /\ r[1].v = 72 /\ r[2].f = "byte" /\ r[2].v = 3
      /\ \A p \in 3..6 : r[p].f = "packed_length" /\ r[p].v = PLUSONE(Digit(TextLen + 22, 6 - p))
  BY <1>3, <1>4, <1>8 DEF Follows, OneByte, Digits
<1>10. \A p \in 7..(TextLen + 28) : r[p] = pl[p - 6]
  BY <1>1, <1>6, <1>8 DEF Follows
<1>11. r[7].f = "byte" /\ r[7].v = 8 /\ r[8].f = "byte" /\ r[8].v = 2
  <2>1. \A p \in 7..8 : r[p] = pl[p - 6]
    BY <1>1, <1>10
  <2>2. r[7] = pl[1] /\ r[8] = pl[2]
    BY <2>1
  <2>3. QED
    BY <1>5, <2>2
<1>12. /\ Span(r, "session_id", 9, 12) /\ Span(r, "msg_id", 13, 20)
       /\ Span(r, "msg_timestamp", 21, 24) /\ Span(r, "distance", 25, 28)
       /\ Span(r, "body", 29, TextLen + 28)
  <2>1. Span(pl, "session_id", 3, 6) => Span(r, "session_id", 9, 12)
    BY <1>1, <1>10 DEF Span
  <2>2. Span(pl, "msg_id", 7, 14) => Span(r, "msg_id", 13, 20)
    BY <1>1, <1>10 DEF Span
  <2>3. Span(pl, "msg_timestamp", 15, 18) => Span(r, "msg_timestamp", 21, 24)
    BY <1>1, <1>10 DEF Span
  <2>4. Span(pl, "distance", 19, 22) => Span(r, "distance", 25, 28)
    BY <1>1, <1>10 DEF Span
  <2>5. Span(pl, "body", 23, TextLen + 22) => Span(r, "body", 29, TextLen + 28)
    BY <1>1, <1>10 DEF Span
  <2>6. QED
    BY <1>5, <2>1, <2>2, <2>3, <2>4, <2>5
<1>13. \A p \in 29..(TextLen + 28) : r[p] = Cell("body", p - 28, LETTER)
  <2>1. TAKE p \in 29..(TextLen + 28)
  <2>2. r[p] = pl[p - 6] /\ p - 6 \in 23..(TextLen + 22) /\ p - 6 - 22 = p - 28
    BY <1>1, <1>10
  <2>3. QED
    BY <1>5, <2>2
<1>14. ASSUME Literal(TextLen + 22) PROVE \A p \in 1..(TextLen + 28) : r[p].v # 0
  <2>1. PICK n \in Nat : n = TextLen + 22 /\ Literal(n)
    BY <1>14 DEF Literal
  <2>2. ASSUME NEW k \in 0..3 PROVE PLUSONE(Digit(n, k)) # 0
    <3>1. Digit(n, k) # 255
      BY <2>1 DEF Literal
    <3>2. Digit(n, k) \in 0..255
      BY DEF Digit
    <3>3. QED
      BY <3>1, <3>2 DEF PLUSONE
  <2>3. \A p \in 3..6 : PLUSONE(Digit(n, 6 - p)) # 0
    BY <2>2
  <2>4. \A p \in 3..6 : r[p].v # 0
    BY <1>9, <2>1, <2>3
  <2>5. ASSUME NEW p \in 7..(TextLen + 28) PROVE r[p].v # 0
    <3>1. r[p] = pl[p - 6] /\ p - 6 \in 1..(TextLen + 22)
      BY <1>1, <1>10
    <3>2. QED
      BY <1>5, <3>1
  <2>6. QED
    BY <1>1, <1>9, <2>4, <2>5
<1>15. QED
  BY <1>2, <1>8, <1>9, <1>11, <1>12, <1>13, <1>14 DEF Width

\* Width is not 0, and a remainder is less than it.
LEMMA Turns ==
  /\ Width \in Nat /\ Width >= 29 /\ Packed \in Nat /\ Packed * Width \in Nat
  /\ \A i \in 1..(Packed * Width) : ((i - 1) % Width) + 1 \in 1..Width
<1>1. Width \in Nat /\ Width >= 29 /\ Packed \in Nat
  BY MessagesAssumption DEF Width
<1>2. Packed * Width \in Nat
  BY <1>1
<1>3. QED
  BY <1>1, <1>2

\* Packed of them in a row.
LEMMA PackedPushesRow ==
  /\ PackedPushes \in Row /\ Len(PackedPushes) = Packed * Width
  /\ \A i \in 1..(Packed * Width) : PackedPushes[i] = PackedPush[((i - 1) % Width) + 1]
<1>1. PackedPushes = [i \in 1..(Packed * Width) |-> PackedPush[((i - 1) % Width) + 1]]
  BY PackedPushRow DEF PackedPushes, InARow
<1>2. \A q \in 1..Width : PackedPush[q] \in CellType
  BY PackedPushRow, RowCells
<1>3. \A i \in 1..(Packed * Width) : PackedPush[((i - 1) % Width) + 1] \in CellType
  BY <1>2, Turns
<1>4. QED
  BY <1>1, <1>3, Turns DEF Row

\* sync_ack: its first byte, its declared length and the cells of its payload.
LEMMA sync_ack_Row ==
  LET pl == Msgs["sync_ack"].payload IN
  /\ Msgs["sync_ack"].fixed = 94 /\ Msgs["sync_ack"].length = 10 + Packed * Width
  /\ pl \in Row /\ Len(pl) = 11 + Packed * Width
  /\ pl[1].f = "byte" /\ pl[1].v = 1
  /\ Span(pl, "local_id", 2, 5)
  /\ pl[6].f = "byte" /\ pl[6].v = 2
  /\ Span(pl, "sync_local_id", 7, 10)
  /\ \A p \in 11..(10 + Packed * Width) : pl[p] = PackedPush[((p - 11) % Width) + 1]
  /\ Literal(TextLen + 22) => \A p \in 1..(10 + Packed * Width) : pl[p].v # 0
  /\ pl[11 + Packed * Width] = Nul
<1> DEFINE a == Byte(PLUSONE(0))
           b == LocalId
           c == Byte(PLUSONE(1))
           d == SyncLocalId
           e == PackedPushes
           f == <<Nul>>
           pl == a \o b \o c \o d \o e \o f
<1>1. Msgs["sync_ack"] = Msg(\h50 + ACK_TYPE + SYNC_TYPE + HAS_PAYLOAD, 10 + Len(e), pl)
  BY Built, BuilderDomains DEF Builders, SyncMsgs
<1>2. /\ OneByte(a, 1) /\ Piece(b, "local_id", 4) /\ OneByte(c, 2) /\ Piece(d, "sync_local_id", 4)
      /\ e \in Row /\ Len(e) = Packed * Width /\ TheEnd(f)
      /\ \A i \in 1..(Packed * Width) : e[i] = PackedPush[((i - 1) % Width) + 1]
  BY CodeBytes, NumberPieces, PackedPushesRow, NulRow
<1> HIDE DEF a, b, c, d, e, f
<1>3. Stack6(pl, a, b, c, d, e, f)
  BY <1>2, Rows6 DEF OneByte, Piece, TheEnd
<1> HIDE DEF pl
<1>4. PICK n \in Nat : n = Packed * Width
  BY Turns
<1>5. /\ pl \in Row /\ Len(pl) = 11 + n
      /\ Follows(pl, 0, a) /\ Follows(pl, 1, b) /\ Follows(pl, 5, c) /\ Follows(pl, 6, d)
      /\ Follows(pl, 10, e) /\ Follows(pl, 10 + n, f)
  BY <1>2, <1>3, <1>4 DEF Stack6, OneByte, Piece, TheEnd
<1>6. /\ pl[1].f = "byte" /\ pl[1].v = 1 /\ Span(pl, "local_id", 2, 5)
      /\ pl[6].f = "byte" /\ pl[6].v = 2 /\ Span(pl, "sync_local_id", 7, 10)
  BY <1>2, <1>5 DEF Follows, Span, OneByte, Piece
<1>7. \A p \in 11..(10 + n) : pl[p] = PackedPush[((p - 11) % Width) + 1]
  <2>1. TAKE p \in 11..(10 + n)
  <2>2. pl[p] = e[p - 10]
    BY <1>2, <1>4, <1>5 DEF Follows
  <2>3. e[p - 10] = PackedPush[((p - 10 - 1) % Width) + 1]
    BY <1>2, <1>4
  <2>4. p - 10 - 1 = p - 11
    OBVIOUS
  <2>5. QED
    BY <2>2, <2>3, <2>4
<1>8. pl[11 + n] = Nul
  BY <1>2, <1>5 DEF Follows, TheEnd
<1>9. Msgs["sync_ack"].fixed = 94 /\ Msgs["sync_ack"].length = 10 + n /\ Msgs["sync_ack"].payload = pl
  BY <1>1, <1>2, <1>4 DEF Msg, ACK_TYPE, SYNC_TYPE, HAS_PAYLOAD
<1>10. ASSUME Literal(TextLen + 22) PROVE \A p \in 1..(10 + n) : pl[p].v # 0
  <2>1. \A q \in 1..Width : PackedPush[q].v # 0
    BY <1>10, PackedPushRow
  <2>2. \A p \in 11..(10 + n) : ((p - 11) % Width) + 1 \in 1..Width
    BY Turns
  <2>3. \A p \in 11..(10 + n) : pl[p].v # 0
    BY <1>7, <2>1, <2>2
  <2>4. QED
    BY <1>6, <2>3 DEF Span
<1>11. QED
  BY <1>4, <1>5, <1>6, <1>7, <1>8, <1>9, <1>10

\* reconnect is its first byte.
LEMMA reconnect_Row == Msgs["reconnect"].fixed = 208 /\ Msgs["reconnect"].length = 0
<1>1. Msgs["reconnect"] = Msg(\hd0, 0, <<>>)
  BY Built, BuilderDomains DEF Builders, ReconnectMsgs
<1>2. QED
  BY <1>1 DEF Msg

-----------------------------------------------------------------------------
(* Where the fields are. *)

\* The messages that end in a text, and the messages that have a payload.
Textual == {"connect", "send_user", "push_user", "req", "req_ack", "sync_ack"}
Loaded  == Species \ {"reconnect"}

\* The numbers that a message shows to its parser: name, offset in the payload and
\* width.
Where == [
  connect        |-> {<<"uid", 0, 4>>},
  ping           |-> {<<"heart_interval", 0, 2>>},
  send_user      |-> {<<"session_id", 2, 4>>, <<"local_id", 6, 4>>},
  send_recvack   |-> {<<"session_id", 2, 4>>},
  send_readack   |-> {<<"session_id", 2, 4>>, <<"ack_msg_id", 6, 8>>},
  send_ack       |-> {<<"local_id", 1, 4>>, <<"msg_timestamp", 5, 4>>},
  push_user      |-> {<<"session_id", 2, 4>>, <<"msg_id", 6, 8>>, <<"msg_timestamp", 14, 4>>,
                      <<"distance", 18, 4>>},
  push_readack   |-> {<<"session_id", 2, 4>>, <<"msg_id", 6, 8>>},
  delete_all     |-> {<<"local_id", 1, 4>>},
  delete_session |-> {<<"local_id", 1, 4>>, <<"session_id", 6, 4>>},
  delete_message |-> {<<"local_id", 1, 4>>, <<"session_id", 6, 4>>, <<"message_id", 10, 8>>},
  delete_ack     |-> {<<"local_id", 1, 4>>},
  req            |-> {<<"local_id", 1, 4>>},
  req_ack        |-> {<<"local_id", 1, 4>>},
  sync_new       |-> {<<"local_id", 1, 4>>, <<"sync_local_id", 5, 4>>},
  sync_session   |-> {<<"local_id", 1, 4>>, <<"session_id", 6, 4>>, <<"start_message_id", 10, 8>>,
                      <<"end_message_id", 18, 8>>},
  sync_last      |-> {<<"local_id", 1, 4>>, <<"session_id", 6, 4>>},
  sync_ack       |-> {<<"local_id", 1, 4>>, <<"sync_local_id", 6, 4>>},
  disconnect     |-> {} ]

\* The texts: name and offset.
TextAt == [connect |-> <<"token", 4>>, send_user |-> <<"body", 10>>, push_user |-> <<"body", 22>>,
           req |-> <<"msgpack", 5>>, req_ack |-> <<"msgpack", 5>>]

\* The length of a payload, and that only its end is 0.
Sized(s) ==
  LET pl == Msgs[s].payload IN
  /\ pl \in Row /\ Len(pl) >= 1 /\ Msgs[s].fixed \in 1..255 /\ Msgs[s].length \in Nat
  /\ Len(pl) = Msgs[s].length + (IF s \in Textual THEN 1 ELSE 0)
                              + (IF s = "delete_message" THEN 8 ELSE 0)
  /\ s # "sync_ack" \/ Literal(TextLen + 22) =>
       \A p \in 1..Len(pl) : (p < Len(pl) \/ s \notin Textual) => pl[p].v # 0
  /\ s \in Textual => pl[Len(pl)] = Nul

\* A declared length is right but for one, and only the end of a text is 0.
LEMMA PayloadSized ==
  ASSUME NEW s \in Loaded
  PROVE  Sized(s)
<1>1. TextLen \in Nat
  BY MessagesAssumption
<1>2. CASE s = "connect"
  BY <1>1, <1>2, connect_Row DEF Sized, Textual
<1>3. CASE s = "ping"
  BY <1>3, ping_Row DEF Sized, Textual
<1>4. CASE s = "send_user"
  BY <1>1, <1>4, send_user_Row DEF Sized, Textual
<1>5. CASE s = "send_recvack"
  BY <1>5, send_recvack_Row DEF Sized, Textual
<1>6. CASE s = "send_readack"
  BY <1>6, send_readack_Row DEF Sized, Textual
<1>7. CASE s = "send_ack"
  BY <1>7, send_ack_Row DEF Sized, Textual
<1>8. CASE s = "push_user"
  BY <1>1, <1>8, push_user_Row DEF Sized, Textual
<1>9. CASE s = "push_readack"
  BY <1>9, push_readack_Row DEF Sized, Textual
<1>10. CASE s = "delete_all"
  BY <1>10, delete_all_Row DEF Sized, Textual
<1>11. CASE s = "delete_session"
  BY <1>11, delete_session_Row DEF Sized, Textual
<1>12. CASE s = "delete_message"
  BY <1>12, delete_message_Row DEF Sized, Textual
<1>13. CASE s = "delete_ack"
  BY <1>13, delete_ack_Row DEF Sized, Textual
<1>14. CASE s = "req"
  BY <1>1, <1>14, req_Row DEF Sized, Textual
<1>15. CASE s = "req_ack"
  BY <1>1, <1>15, req_ack_Row DEF Sized, Textual
<1>16. CASE s = "sync_new"
  BY <1>16, sync_new_Row DEF Sized, Textual
<1>17. CASE s = "sync_session"
  <2>1. s # "sync_ack" /\ s \notin Textual /\ s # "delete_message"
    BY <1>17 DEF Textual
  <2>2. QED
    BY <1>17, <2>1, sync_session_Row DEF Sized
<1>18. CASE s = "sync_last"
  BY <1>18, sync_last_Row DEF Sized, Textual
<1>19. CASE s = "sync_ack"
  <2>1. PICK n \in Nat : n = Packed * Width
    BY Turns
  <2>2. QED
    BY <1>19, <2>1, sync_ack_Row DEF Sized, Textual
<1>20. CASE s = "disconnect"
  BY <1>20, disconnect_Row DEF Sized, Textual
<1>21. QED
  BY <1>2, <1>3, <1>4, <1>5, <1>6, <1>7, <1>8, <1>9, <1>10, <1>11, <1>12, <1>13, <1>14,
     <1>15, <1>16, <1>17, <1>18, <1>19, <1>20, SpeciesAre DEF Loaded


-----------------------------------------------------------------------------
(* The bytes of a message. *)

\* What stands where in a message that has a payload.
Framed(b, s, g) ==
  LET pl == Msgs[s].payload IN
  /\ b \in Row /\ Len(b) = 6 + Len(pl)
  /\ b[1].f = s /\ b[1].v = Or(g, Msgs[s].fixed)
  /\ b[2].f = "byte" /\ b[2].v = 3
  /\ \A p \in 3..6 : b[p].f = "length" /\ b[p].v = PLUSONE(Digit(Msgs[s].length, 6 - p))
  /\ \A p \in 7..(6 + Len(pl)) : b[p] = pl[p - 6]

\* What the flags are set in is a byte.
LEMMA OrRange ==
  ASSUME NEW a, NEW b
  PROVE  Or(a, b) \in 0..255
  BY DEF Or, Flag

\* The flags are all found again.
LEMMA FlagHas ==
  ASSUME NEW S, NEW m \in {1, 2, 4, 8, 16, 32, 64, 128}
  PROVE  Has(Flag(S), m) <=> m \in S
<1> DEFINE bit(k) == IF k \in S THEN k ELSE 0
<1>1. PICK b1 \in 0..1 : bit(1) = 1 * b1 /\ (b1 = 1 <=> 1 \in S)
  OBVIOUS
<1>2. PICK b2 \in 0..1 : bit(2) = 2 * b2 /\ (b2 = 1 <=> 2 \in S)
  OBVIOUS
<1>3. PICK b4 \in 0..1 : bit(4) = 4 * b4 /\ (b4 = 1 <=> 4 \in S)
  OBVIOUS
<1>4. PICK b8 \in 0..1 : bit(8) = 8 * b8 /\ (b8 = 1 <=> 8 \in S)
  OBVIOUS
<1>5. PICK b16 \in 0..1 : bit(16) = 16 * b16 /\ (b16 = 1 <=> 16 \in S)
  OBVIOUS
<1>6. PICK b32 \in 0..1 : bit(32) = 32 * b32 /\ (b32 = 1 <=> 32 \in S)
  OBVIOUS
<1>7. PICK b64 \in 0..1 : bit(64) = 64 * b64 /\ (b64 = 1 <=> 64 \in S)
  OBVIOUS
<1>8. PICK b128 \in 0..1 : bit(128) = 128 * b128 /\ (b128 = 1 <=> 128 \in S)
  OBVIOUS
<1>9. Flag(S) = b1 + 2 * b2 + 4 * b4 + 8 * b8 + 16 * b16 + 32 * b32 + 64 * b64 + 128 * b128
  BY <1>1, <1>2, <1>3, <1>4, <1>5, <1>6, <1>7, <1>8 DEF Flag
<1> HIDE DEF bit
<1>10. (Flag(S) \div 1) % 2 = b1
  <2>1. Flag(S) \div 1 = b1 + 2 * b2 + 4 * b4 + 8 * b8 + 16 * b16 + 32 * b32 + 64 * b64 + 128 * b128
    BY <1>9
  <2>2. QED
    BY <2>1
<1>11. (Flag(S) \div 2) % 2 = b2
  <2>1. Flag(S) \div 2 = b2 + 2 * b4 + 4 * b8 + 8 * b16 + 16 * b32 + 32 * b64 + 64 * b128
    BY <1>9
  <2>2. QED
    BY <2>1
<1>12. (Flag(S) \div 4) % 2 = b4
  <2>1. Flag(S) \div 4 = b4 + 2 * b8 + 4 * b16 + 8 * b32 + 16 * b64 + 32 * b128
    BY <1>9
  <2>2. QED
    BY <2>1
<1>13. (Flag(S) \div 8) % 2 = b8
  <2>1. Flag(S) \div 8 = b8 + 2 * b16 + 4 * b32 + 8 * b64 + 16 * b128
    BY <1>9
  <2>2. QED
    BY <2>1
<1>14. (Flag(S) \div 16) % 2 = b16
  <2>1. Flag(S) \div 16 = b16 + 2 * b32 + 4 * b64 + 8 * b128
    BY <1>9
  <2>2. QED
    BY <2>1
<1>15. (Flag(S) \div 32) % 2 = b32
  <2>1. Flag(S) \div 32 = b32 + 2 * b64 + 4 * b128
    BY <1>9
  <2>2. QED
    BY <2>1
<1>16. (Flag(S) \div 64) % 2 = b64
  <2>1. Flag(S) \div 64 = b64 + 2 * b128
    BY <1>9
  <2>2. QED
    BY <2>1
<1>17. (Flag(S) \div 128) % 2 = b128
  <2>1. Flag(S) \div 128 = b128
    BY <1>9
  <2>2. QED
    BY <2>1
<1>18. QED
  BY <1>1, <1>2, <1>3, <1>4, <1>5, <1>6, <1>7, <1>8, <1>10, <1>11, <1>12, <1>13, <1>14, <1>15, <1>16, <1>17 DEF Has

\* The uninitialised bits of a first byte take no flag from it.
LEMMA OrHas ==
  ASSUME NEW a, NEW b, NEW m \in {1, 2, 4, 8, 16, 32, 64, 128}, Has(b, m)
  PROVE  Has(Or(a, b), m)
  BY FlagHas DEF Or

\* Every first byte with a payload says so.
LEMMA FixedBytes ==
  ASSUME NEW s \in Loaded
  PROVE  Has(Msgs[s].fixed, 8) /\ Msgs[s].fixed \in 0..255
<1>1. Msgs["connect"].fixed = 25
  BY connect_Row
<1>2. Msgs["ping"].fixed = 41
  BY ping_Row
<1>3. Msgs["send_user"].fixed = 57
  BY send_user_Row
<1>4. Msgs["send_recvack"].fixed = 56
  BY send_recvack_Row
<1>5. Msgs["send_readack"].fixed = 56
  BY send_readack_Row
<1>6. Msgs["send_ack"].fixed = 58
  BY send_ack_Row
<1>7. Msgs["push_user"].fixed = 72
  BY push_user_Row
<1>8. Msgs["push_readack"].fixed = 72
  BY push_readack_Row
<1>9. Msgs["delete_all"].fixed = 105
  BY delete_all_Row
<1>10. Msgs["delete_session"].fixed = 105
  BY delete_session_Row
<1>11. Msgs["delete_message"].fixed = 105
  BY delete_message_Row
<1>12. Msgs["delete_ack"].fixed = 106
  BY delete_ack_Row
<1>13. Msgs["req"].fixed = 121
  BY req_Row
<1>14. Msgs["req_ack"].fixed = 122
  BY req_ack_Row
<1>15. Msgs["sync_new"].fixed = 93
  BY sync_new_Row
<1>16. Msgs["sync_session"].fixed = 93
  BY sync_session_Row
<1>17. Msgs["sync_last"].fixed = 93
  BY sync_last_Row
<1>18. Msgs["sync_ack"].fixed = 94
  BY sync_ack_Row
<1>19. Msgs["disconnect"].fixed = 232
  BY disconnect_Row
<1>20. Msgs[s].fixed \in {25, 41, 56, 57, 58, 72, 93, 94, 105, 106, 121, 122, 232}
  BY <1>1, <1>2, <1>3, <1>4, <1>5, <1>6, <1>7, <1>8, <1>9, <1>10, <1>11, <1>12,
     <1>13, <1>14, <1>15, <1>16, <1>17, <1>18, <1>19, SpeciesAre DEF Loaded
<1>21. QED
  BY <1>20 DEF Has

\* The first byte is not 0, whatever its memory held: every message has a type.
LEMMA FirstNotZero ==
  ASSUME NEW s \in Species, NEW g
  PROVE  Or(g, Msgs[s].fixed) \in 1..255
<1>1. CASE s = "reconnect"
  <2>1. Has(Msgs[s].fixed, 64)
    BY <1>1, reconnect_Row DEF Has
  <2>2. Has(Or(g, Msgs[s].fixed), 64)
    BY <2>1, OrHas
  <2>3. QED
    BY <2>2, OrRange DEF Has
<1>2. CASE s \in Loaded
  <2>1. Has(Msgs[s].fixed, 8)
    BY <1>2, FixedBytes
  <2>2. Has(Or(g, Msgs[s].fixed), 8)
    BY <2>1, OrHas
  <2>3. QED
    BY <2>2, OrRange DEF Has
<1>3. QED
  BY <1>1, <1>2 DEF Loaded

\* A message with a payload is its first byte, the version, the declared length
\* and the payload, one behind the other.
LEMMA BytesFramed ==
  ASSUME NEW s \in Loaded, NEW g
  PROVE  Framed(Bytes(s, g), s, g)
<1> DEFINE a == <<Cell(s, 1, Or(g, Msgs[s].fixed))>>
           b == Byte(HERMES_VERSION)
           c == Length(Msgs[s].length)
           pl == Msgs[s].payload
           r == a \o b \o c \o pl
<1>1. Bytes(s, g) = r
  BY DEF Bytes, Written, Loaded
<1>2. a \in Row /\ Len(a) = 1 /\ a[1].f = s /\ a[1].v = Or(g, Msgs[s].fixed)
  <2>1. s \in Names /\ Or(g, Msgs[s].fixed) \in 0..255
    BY OrRange DEF Names, Loaded
  <2>2. QED
    BY <2>1 DEF Cell, CellType, Row
<1>3. OneByte(b, 3)
  BY CodeBytes
<1>4. pl \in Row /\ Msgs[s].length \in Nat
  BY PayloadSized DEF Sized
<1>5. Digits(c, "length", 4, Msgs[s].length)
  <2>1. "length" \in Names
    BY DEF Names
  <2>2. QED
    BY <1>4, <2>1, NumRow DEF Length
<1> HIDE DEF a, b, c, pl
<1>6. Stack4(r, a, b, c, pl)
  BY <1>2, <1>3, <1>4, <1>5, Rows4 DEF OneByte, Digits
<1> HIDE DEF r
<1>7. Len(pl) \in Nat
  BY <1>4, RowCells
<1>8. /\ r \in Row /\ Len(r) = 6 + Len(pl)
      /\ Follows(r, 0, a) /\ Follows(r, 1, b) /\ Follows(r, 2, c) /\ Follows(r, 6, pl)
  BY <1>2, <1>3, <1>5, <1>6, <1>7 DEF Stack4, OneByte, Digits
<1>9. r[1].f = s /\ r[1].v = Or(g, Msgs[s].fixed) /\ r[2].f = "byte" /\ r[2].v = 3
  BY <1>2, <1>3, <1>8 DEF Follows, OneByte
<1>10. \A p \in 3..6 : r[p].f = "length" /\ r[p].v = PLUSONE(Digit(Msgs[s].length, 6 - p))
  BY <1>5, <1>8 DEF Follows, Digits
<1>11. \A p \in 7..(6 + Len(pl)) : r[p] = pl[p - 6]
  BY <1>7, <1>8 DEF Follows
<1>12. QED
  BY <1>1, <1>8, <1>9, <1>10, <1>11 DEF Framed, pl

\* A RECONNECT is its first byte.
LEMMA BytesReconnect ==
  ASSUME NEW g
  PROVE  /\ Bytes("reconnect", g) \in Row /\ Len(Bytes("reconnect", g)) = 1
         /\ Bytes("reconnect", g)[1].f = "reconnect"
         /\ Bytes("reconnect", g)[1].v = Or(g, Msgs["reconnect"].fixed)
<1>1. "reconnect" \in Names
  BY SpeciesAre DEF Names
<1>2. PICK v \in 0..255 : v = Or(g, Msgs["reconnect"].fixed)
  BY OrRange
<1>3. Bytes("reconnect", g) = <<Cell("reconnect", 1, v)>>
  BY <1>2 DEF Bytes, Written
<1> DEFINE c == Cell("reconnect", 1, v)
<1>4. c \in CellType /\ c.f = "reconnect" /\ c.v = v
  BY <1>1 DEF Cell, CellType
<1> HIDE DEF c
<1>5. <<c>> \in Row /\ Len(<<c>>) = 1 /\ <<c>>[1] = c
  BY <1>4 DEF Row
<1>6. QED
  BY <1>2, <1>3, <1>4, <1>5 DEF c

\* Every message is a row of cells.
LEMMA BytesRow ==
  ASSUME NEW s \in Species, NEW g
  PROVE  Bytes(s, g) \in Row /\ Len(Bytes(s, g)) >= 1
<1>1. CASE s = "reconnect"
  BY <1>1, BytesReconnect
<1>2. CASE s \in Loaded
  <2>1. Len(Msgs[s].payload) \in Nat
    BY <1>2, PayloadSized, RowCells DEF Sized
  <2>2. QED
    BY <1>2, <2>1, BytesFramed DEF Framed
<1>3. QED
  BY <1>1, <1>2 DEF Loaded

\* The length of a message without the end of its text.
Own(s) == IF s = "reconnect" THEN 1
          ELSE 6 + Len(Msgs[s].payload) - (IF s \in Textual THEN 1 ELSE 0)

\* What a builder writes, without the '\0' behind a text, is the beginning of the
\* message.
LEMMA OwnRow ==
  ASSUME NEW s \in Species, NEW g
  PROVE  /\ OwnBytes(s, g) \in Row /\ Len(OwnBytes(s, g)) = Own(s) /\ Own(s) \in Nat \ {0}
         /\ Own(s) <= Len(Bytes(s, g)) /\ OwnBytes(s, g) = SubSeq(Bytes(s, g), 1, Own(s))
         /\ s \in Textual => Len(Bytes(s, g)) = Own(s) + 1 /\ Bytes(s, g)[Own(s) + 1] = Nul
         /\ s \notin Textual => Len(Bytes(s, g)) = Own(s)
<1> DEFINE b == Bytes(s, g)
           pl == Msgs[s].payload
           n == Len(pl)
<1>1. CASE s = "reconnect"
  <2>1. b \in Row /\ Len(b) = 1 /\ b[1].v # 0
    BY <1>1, BytesReconnect, FirstNotZero
  <2>2. Last(b) # Nul
    BY <2>1, NulRow DEF Last
  <2>3. SubSeq(b, 1, 1) = b
    BY <2>1, SubSeqFull DEF Row
  <2>4. QED
    BY <1>1, <2>1, <2>2, <2>3 DEF OwnBytes, WithoutNul, Own, Textual
<1>2. CASE s \in Loaded
  <2>1. /\ pl \in Row /\ n \in Nat /\ n >= 1
        /\ s \in Textual => pl[n] = Nul
        /\ s \notin Textual => pl[n].v # 0
    BY <1>2, PayloadSized, RowCells DEF Sized, Textual
  <2>2. Framed(b, s, g)
    BY <1>2, BytesFramed
  <2> HIDE DEF b, pl
  <2>3. b \in Row /\ Len(b) = 6 + n /\ b[6 + n] = pl[n]
    <3>1. b \in Row /\ Len(b) = 6 + n /\ \A p \in 7..(6 + n) : b[p] = pl[p - 6]
      BY <2>2 DEF Framed, pl
    <3>2. b[6 + n] = pl[6 + n - 6] /\ 6 + n - 6 = n
      BY <2>1, <3>1
    <3>3. QED
      BY <3>1, <3>2
  <2>4. CASE s \in Textual
    <3>1. Last(b) = Nul /\ Front(b) = SubSeq(b, 1, 5 + n)
      BY <2>1, <2>3, <2>4 DEF Last, Front
    <3>2. Own(s) = 5 + n
      BY <1>2, <2>1, <2>4 DEF Own, Loaded, pl
    <3>3. OwnBytes(s, g) = SubSeq(b, 1, 5 + n)
      BY <3>1 DEF OwnBytes, WithoutNul, b
    <3>4. SubSeq(b, 1, 5 + n) \in Row /\ Len(SubSeq(b, 1, 5 + n)) = 5 + n
      BY <2>1, <2>3, SubRow
    <3>5. QED
      BY <2>1, <2>3, <2>4, <3>2, <3>3, <3>4 DEF b
  <2>5. CASE s \notin Textual
    <3>1. Last(b) # Nul
      BY <2>1, <2>3, <2>5, NulRow DEF Last
    <3>2. Own(s) = 6 + n
      BY <1>2, <2>1, <2>5 DEF Own, Loaded, pl
    <3>3. OwnBytes(s, g) = b /\ SubSeq(b, 1, 6 + n) = b
      BY <3>1, <2>3, SubSeqFull DEF OwnBytes, WithoutNul, b, Row
    <3>4. QED
      BY <2>1, <2>3, <2>5, <3>2, <3>3 DEF b
  <2>6. QED
    BY <2>4, <2>5
<1>3. QED
  BY <1>1, <1>2 DEF Loaded

\* No byte of a message is 0 but the end of its text.
LEMMA OwnNotZero ==
  ASSUME NEW s \in Species, NEW g, LengthsFit
  PROVE  \A p \in 1..Own(s) : Bytes(s, g)[p].v # 0
<1> DEFINE b == Bytes(s, g)
           pl == Msgs[s].payload
           n == Len(pl)
<1>1. b[1].v # 0
  <2>1. CASE s = "reconnect"
    BY <2>1, FirstNotZero, BytesReconnect
  <2>2. CASE s \in Loaded
    <3>1. Framed(b, s, g)
      BY <2>2, BytesFramed
    <3>2. Or(g, Msgs[s].fixed) # 0
      BY FirstNotZero
    <3>3. QED
      BY <3>1, <3>2 DEF Framed
  <2>3. QED
    BY <2>1, <2>2 DEF Loaded
<1>2. CASE s = "reconnect"
  BY <1>1, <1>2 DEF Own
<1>3. CASE s \in Loaded
  <2>1. Literal(TextLen + 22)
    <3>1. Msgs["push_user"].length = TextLen + 22
      BY push_user_Row
    <3>2. "push_user" \in Species
      BY SpeciesAre
    <3>3. \A k \in 0..3 : Digit(Msgs["push_user"].length, k) # 255
      BY <3>2 DEF LengthsFit
    <3>4. QED
      BY <3>1, <3>3, MessagesAssumption DEF Literal
  <2>2. /\ pl \in Row /\ n \in Nat /\ n >= 1 /\ Msgs[s].length \in Nat
        /\ \A p \in 1..n : p < n \/ s \notin Textual => pl[p].v # 0
    BY <1>3, <2>1, PayloadSized, RowCells DEF Sized
  <2>3. /\ b[2].v = 3
        /\ \A p \in 3..6 : b[p].v = PLUSONE(Digit(Msgs[s].length, 6 - p))
        /\ \A p \in 7..(6 + n) : b[p] = pl[p - 6]
    BY <1>3, BytesFramed DEF Framed
  <2>4. \A k \in 0..3 : PLUSONE(Digit(Msgs[s].length, k)) # 0
    <3>1. TAKE k \in 0..3
    <3>2. Digit(Msgs[s].length, k) # 255
      BY DEF LengthsFit
    <3>3. PICK m \in Nat : m = Msgs[s].length
      BY <2>2
    <3>4. Digit(m, k) \in 0..255
      BY DEF Digit
    <3>5. QED
      BY <3>2, <3>3, <3>4 DEF PLUSONE
  <2>5. \A p \in 3..6 : b[p].v # 0
    BY <2>3, <2>4
  <2>6. Own(s) = 6 + n - (IF s \in Textual THEN 1 ELSE 0)
    BY <1>3 DEF Own, Loaded
  <2> HIDE DEF b, pl
  <2>7. ASSUME NEW p \in 7..Own(s) PROVE b[p].v # 0
    <3>1. p \in 7..(6 + n) /\ p - 6 \in 1..n /\ (p - 6 < n \/ s \notin Textual)
      BY <2>2, <2>6
    <3>2. QED
      BY <2>2, <2>3, <3>1
  <2>8. \A p \in 1..Own(s) : b[p].v # 0
    BY <1>1, <2>2, <2>3, <2>5, <2>6, <2>7
  <2>9. QED
    BY <2>8 DEF b
<1>4. QED
  BY <1>2, <1>3 DEF Loaded

-----------------------------------------------------------------------------
(* Where a message in memory ends. *)

\* Every set of natural numbers that is not empty has a least element.
LEMMA LeastOf ==
  ASSUME NEW T \in SUBSET Nat, T # {}
  PROVE  \E m \in T : \A n \in T : m <= n
<1> DEFINE R == OpToRel(<, Nat)
<1>1. IsWellFoundedOn(R, Nat)
  BY NatLessThanWellFounded
<1>2. \A a, b \in Nat : <<a, b>> \in R <=> a < b
  BY DEF OpToRel
<1> HIDE DEF R
<1>3. PICK m \in T : \A n \in T : ~(<<n, m>> \in R)
  BY <1>1, WFMin, Zenon
<1>4. ASSUME NEW n \in T PROVE m <= n
  <2>1. m \in Nat /\ n \in Nat /\ ~(n < m)
    BY <1>2, <1>3
  <2>2. QED
    BY <2>1
<1>5. QED
  BY <1>4

\* strlen finds the first '\0', if there is one.
LEMMA StrlenOf ==
  ASSUME NEW m \in Row, NEW z \in 1..Len(m), m[z].v = 0
  PROVE  /\ strlen(m) \in 0..(Len(m) - 1) /\ m[strlen(m) + 1].v = 0
         /\ \A k \in 1..strlen(m) : m[k].v # 0
<1> DEFINE T == {k \in 1..Len(m) : m[k].v = 0}
<1>1. Len(m) \in Nat
  BY RowCells
<1>2. T # {} /\ T \in SUBSET Nat
  BY <1>1
<1>3. PICK e \in T : \A k \in T : e <= k
  BY <1>2, LeastOf
<1>4. e \in 1..Len(m) /\ m[e].v = 0 /\ \A k \in 1..Len(m) : m[k].v = 0 => e <= k
  BY <1>3
<1> HIDE DEF T
<1>5. PICK n \in 0..(Len(m) - 1) : n = e - 1
  BY <1>1, <1>4
<1>6. m[n + 1].v = 0 /\ \A k \in 1..n : m[k].v # 0
  <2>1. n + 1 = e
    BY <1>4, <1>5
  <2>2. ASSUME NEW k \in 1..n PROVE m[k].v # 0
    <3>1. k \in 1..Len(m) /\ ~(e <= k)
      BY <1>1, <1>4, <1>5
    <3>2. QED
      BY <1>4, <3>1
  <2>3. QED
    BY <1>4, <2>1, <2>2
<1>7. \E q \in 0..(Len(m) - 1) : m[q + 1].v = 0 /\ \A k \in 1..q : m[k].v # 0
  BY <1>6
<1>8. QED
  BY <1>7 DEF strlen

\* What lies behind a message is a row that ends with '\0'.
LEMMA BehindRow ==
  ASSUME NEW s \in Species, NEW g, NEW rest \in Behind(s, Bytes(s, g))
  PROVE  rest \in Row /\ Len(rest) \in Nat \ {0} /\ rest[Len(rest)] = Nul
<1> DEFINE b == Bytes(s, g)
<1>1. <<Nul>> \in Row /\ Len(<<Nul>>) = 1 /\ <<Nul>>[1] = Nul
  BY NulRow DEF TheEnd
<1>2. ASSUME NEW a \in Row
      PROVE  /\ a \o <<Nul>> \in Row /\ Len(a \o <<Nul>>) \in Nat \ {0}
             /\ (a \o <<Nul>>)[Len(a \o <<Nul>>)] = Nul
  <2>1. Stack2(a \o <<Nul>>, a, <<Nul>>) /\ Len(a) \in Nat
    BY <1>1, Rows2, RowCells
  <2>2. QED
    BY <1>1, <2>1 DEF Stack2, Follows
<1>3. ASSUME NEW n \in Nat PROVE Junk(n) \in Row /\ Len(Junk(n)) = n
  <2>1. "junk" \in Names
    BY DEF Names
  <2>2. \A i \in 1..n : Cell("junk", i, 1) \in CellType
    BY <2>1 DEF Cell, CellType
  <2>3. QED
    BY <2>2 DEF Junk, Row
<1>4. CASE rest \in Unused
  <2>1. PICK n \in Tails : rest = Junk(n) \o <<Nul>>
    BY <1>4 DEF Unused
  <2>2. n \in Nat
    BY MessagesAssumption
  <2>3. QED
    BY <1>2, <1>3, <2>1, <2>2
<1>5. ASSUME NEW t \in Species, rest = LeftBy(t, b) PROVE rest \in Row /\ Len(rest) \in Nat \ {0} /\ rest[Len(rest)] = Nul
  <2> DEFINE old == Bytes(t, 0)
             from == Max({17, Len(b) + 1})
             part == SubSeq(old, from, Len(old))
             gap == Max({0, 16 - Len(b)})
  <2>1. Len(b) \in Nat /\ old \in Row /\ Len(old) \in Nat
    BY BytesRow, RowCells
  <2>2. from \in Nat \ {0}
    <3>1. PICK w \in {17, Len(b) + 1} : \A y \in {17, Len(b) + 1} : w >= y
      <4>1. 17 >= Len(b) + 1 \/ Len(b) + 1 >= 17
        BY <2>1
      <4>2. QED
        BY <2>1, <4>1
    <3>2. from \in {17, Len(b) + 1}
      BY <3>1 DEF Max
    <3>3. QED
      BY <2>1, <3>2
  <2>3. gap \in Nat
    <3>1. PICK w \in {0, 16 - Len(b)} : \A y \in {0, 16 - Len(b)} : w >= y
      <4>1. 0 >= 16 - Len(b) \/ 16 - Len(b) >= 0
        BY <2>1
      <4>2. QED
        BY <2>1, <4>1
    <3>2. gap \in {0, 16 - Len(b)} /\ gap >= 0
      BY <3>1 DEF Max
    <3>3. QED
      BY <2>1, <3>2
  <2> HIDE DEF from, gap
  <2>4. part \in Row
    <3>1. CASE from <= Len(old) + 1
      BY <2>1, <2>2, <3>1, SubRow
    <3>2. CASE from > Len(old) + 1
      <4>1. part = <<>>
        BY <2>1, <2>2, <3>2
      <4>2. <<>> \in Row
        BY DEF Row
      <4>3. QED
        BY <4>1, <4>2
    <3>3. QED
      BY <2>1, <2>2, <3>1, <3>2
  <2> HIDE DEF part
  <2>5. Junk(gap) \o part \in Row
    BY <1>3, <2>3, <2>4, Rows2 DEF Stack2
  <2>6. rest = (Junk(gap) \o part) \o <<Nul>>
    BY <1>5 DEF LeftBy, part, from, gap
  <2>7. QED
    BY <1>2, <2>5, <2>6
<1>6. QED
  BY <1>4, <1>5 DEF Behind
-----------------------------------------------------------------------------
(* Where the fields of every message are. *)

\* The field f is at the offset o of a payload, w bytes wide, and nowhere else.
PlacedIn(pl, f, o, w) ==
  /\ o + w <= Len(pl)
  /\ \A p \in 1..Len(pl) : pl[p].f = f <=> p \in (o + 1)..(o + w)

\* No other field is in a payload.
ListedIn(pl, fields) == \A p \in 1..Len(pl) : pl[p].f \in {"byte"} \cup fields

\* The numbers that are printed of s are where they are said to be, and nothing but
\* the given fields is in the message.
Spaced(s, fields) ==
  /\ \A x \in Where[s] : PlacedIn(Msgs[s].payload, x[1], x[2], x[3])
  /\ ListedIn(Msgs[s].payload, fields)

\* Where the fields of connect lie, and that no other byte bears their names.
LEMMA connect_Fields == Spaced("connect", {"uid", "token"})
<1> DEFINE pl == Msgs["connect"].payload
<1>1. TextLen \in Nat /\ TextLen >= 1 /\ Len(pl) = TextLen + 5
  BY connect_Row, MessagesAssumption
<1>2. /\ Span(pl, "uid", 1, 4)
      /\ Span(pl, "token", 5, TextLen + 4)
      /\ pl[TextLen + 5].f = "byte"
  BY connect_Row, NulRow
<1> HIDE DEF pl
<1>3. /\ \A p \in 1..4 : pl[p].f = "uid"
      /\ \A p \in 5..(TextLen + 4) : pl[p].f = "token"
      /\ pl[TextLen + 5].f = "byte"
  BY <1>2 DEF Span
<1>4. PlacedIn(pl, "uid", 0, 4)
  BY <1>1, <1>3 DEF PlacedIn
<1>5. ListedIn(pl, {"uid", "token"})
  BY <1>1, <1>3 DEF ListedIn
<1>6. Where["connect"] = {<<"uid", 0, 4>>}
  BY DEF Where
<1>7. QED
  BY <1>4, <1>5, <1>6 DEF Spaced, pl

\* Where the fields of ping lie, and that no other byte bears their names.
LEMMA ping_Fields == Spaced("ping", {"heart_interval"})
<1> DEFINE pl == Msgs["ping"].payload
<1>1. TextLen \in Nat /\ TextLen >= 1 /\ Len(pl) = 2
  BY ping_Row, MessagesAssumption
<1>2. Span(pl, "heart_interval", 1, 2)
  BY ping_Row
<1> HIDE DEF pl
<1>3. \A p \in 1..2 : pl[p].f = "heart_interval"
  BY <1>2 DEF Span
<1>4. PlacedIn(pl, "heart_interval", 0, 2)
  BY <1>1, <1>3 DEF PlacedIn
<1>5. ListedIn(pl, {"heart_interval"})
  BY <1>1, <1>3 DEF ListedIn
<1>6. Where["ping"] = {<<"heart_interval", 0, 2>>}
  BY DEF Where
<1>7. QED
  BY <1>4, <1>5, <1>6 DEF Spaced, pl

\* Where the fields of send_user lie, and that no other byte bears their names.
LEMMA send_user_Fields == Spaced("send_user", {"session_id", "local_id", "body"})
<1> DEFINE pl == Msgs["send_user"].payload
<1>1. TextLen \in Nat /\ TextLen >= 1 /\ Len(pl) = TextLen + 11
  BY send_user_Row, MessagesAssumption
<1>2. /\ pl[1].f = "byte"
      /\ pl[2].f = "byte"
      /\ Span(pl, "session_id", 3, 6)
      /\ Span(pl, "local_id", 7, 10)
      /\ Span(pl, "body", 11, TextLen + 10)
      /\ pl[TextLen + 11].f = "byte"
  BY send_user_Row, NulRow
<1> HIDE DEF pl
<1>3. /\ pl[1].f = "byte"
      /\ pl[2].f = "byte"
      /\ \A p \in 3..6 : pl[p].f = "session_id"
      /\ \A p \in 7..10 : pl[p].f = "local_id"
      /\ \A p \in 11..(TextLen + 10) : pl[p].f = "body"
      /\ pl[TextLen + 11].f = "byte"
  BY <1>2 DEF Span
<1>4. PlacedIn(pl, "session_id", 2, 4)
  BY <1>1, <1>3 DEF PlacedIn
<1>5. PlacedIn(pl, "local_id", 6, 4)
  BY <1>1, <1>3 DEF PlacedIn
<1>6. ListedIn(pl, {"session_id", "local_id", "body"})
  BY <1>1, <1>3 DEF ListedIn
<1>7. Where["send_user"] = {<<"session_id", 2, 4>>, <<"local_id", 6, 4>>}
  BY DEF Where
<1>8. QED
  BY <1>4, <1>5, <1>6, <1>7 DEF Spaced, pl

\* Where the fields of send_recvack lie, and that no other byte bears their names.
LEMMA send_recvack_Fields == Spaced("send_recvack", {"session_id", "ack_msg_id"})
<1> DEFINE pl == Msgs["send_recvack"].payload
<1>1. TextLen \in Nat /\ TextLen >= 1 /\ Len(pl) = 14
  BY send_recvack_Row, MessagesAssumption
<1>2. /\ pl[1].f = "byte"
      /\ pl[2].f = "byte"
      /\ Span(pl, "session_id", 3, 6)
      /\ Span(pl, "ack_msg_id", 7, 14)
  BY send_recvack_Row
<1> HIDE DEF pl
<1>3. /\ pl[1].f = "byte"
      /\ pl[2].f = "byte"
      /\ \A p \in 3..6 : pl[p].f = "session_id"
      /\ \A p \in 7..14 : pl[p].f = "ack_msg_id"
  BY <1>2 DEF Span
<1>4. PlacedIn(pl, "session_id", 2, 4)
  BY <1>1, <1>3 DEF PlacedIn
<1>5. ListedIn(pl, {"session_id", "ack_msg_id"})
  BY <1>1, <1>3 DEF ListedIn
<1>6. Where["send_recvack"] = {<<"session_id", 2, 4>>}
  BY DEF Where
<1>7. QED
  BY <1>4, <1>5, <1>6 DEF Spaced, pl

\* Where the fields of send_readack lie, and that no other byte bears their names.
LEMMA send_readack_Fields == Spaced("send_readack", {"session_id", "ack_msg_id"})
<1> DEFINE pl == Msgs["send_readack"].payload
<1>1. TextLen \in Nat /\ TextLen >= 1 /\ Len(pl) = 14
  BY send_readack_Row, MessagesAssumption
<1>2. /\ pl[1].f = "byte"
      /\ pl[2].f = "byte"
      /\ Span(pl, "session_id", 3, 6)
      /\ Span(pl, "ack_msg_id", 7, 14)
  BY send_readack_Row
<1> HIDE DEF pl
<1>3. /\ pl[1].f = "byte"
      /\ pl[2].f = "byte"
      /\ \A p \in 3..6 : pl[p].f = "session_id"
      /\ \A p \in 7..14 : pl[p].f = "ack_msg_id"
  BY <1>2 DEF Span
<1>4. PlacedIn(pl, "session_id", 2, 4)
  BY <1>1, <1>3 DEF PlacedIn
<1>5. PlacedIn(pl, "ack_msg_id", 6, 8)
  BY <1>1, <1>3 DEF PlacedIn
<1>6. ListedIn(pl, {"session_id", "ack_msg_id"})
  BY <1>1, <1>3 DEF ListedIn
<1>7. Where["send_readack"] = {<<"session_id", 2, 4>>, <<"ack_msg_id", 6, 8>>}
  BY DEF Where
<1>8. QED
  BY <1>4, <1>5, <1>6, <1>7 DEF Spaced, pl

\* Where the fields of send_ack lie, and that no other byte bears their names.
LEMMA send_ack_Fields == Spaced("send_ack", {"local_id", "msg_timestamp"})
<1> DEFINE pl == Msgs["send_ack"].payload
<1>1. TextLen \in Nat /\ TextLen >= 1 /\ Len(pl) = 9
  BY send_ack_Row, MessagesAssumption
<1>2. /\ pl[1].f = "byte"
      /\ Span(pl, "local_id", 2, 5)
      /\ Span(pl, "msg_timestamp", 6, 9)
  BY send_ack_Row
<1> HIDE DEF pl
<1>3. /\ pl[1].f = "byte"
      /\ \A p \in 2..5 : pl[p].f = "local_id"
      /\ \A p \in 6..9 : pl[p].f = "msg_timestamp"
  BY <1>2 DEF Span
<1>4. PlacedIn(pl, "local_id", 1, 4)
  BY <1>1, <1>3 DEF PlacedIn
<1>5. PlacedIn(pl, "msg_timestamp", 5, 4)
  BY <1>1, <1>3 DEF PlacedIn
<1>6. ListedIn(pl, {"local_id", "msg_timestamp"})
  BY <1>1, <1>3 DEF ListedIn
<1>7. Where["send_ack"] = {<<"local_id", 1, 4>>, <<"msg_timestamp", 5, 4>>}
  BY DEF Where
<1>8. QED
  BY <1>4, <1>5, <1>6, <1>7 DEF Spaced, pl

\* Where the fields of push_user lie, and that no other byte bears their names.
LEMMA push_user_Fields == Spaced("push_user", {"session_id", "msg_id", "msg_timestamp", "distance", "body"})
<1> DEFINE pl == Msgs["push_user"].payload
<1>1. TextLen \in Nat /\ TextLen >= 1 /\ Len(pl) = TextLen + 23
  BY push_user_Row, MessagesAssumption
<1>2. /\ pl[1].f = "byte"
      /\ pl[2].f = "byte"
      /\ Span(pl, "session_id", 3, 6)
      /\ Span(pl, "msg_id", 7, 14)
      /\ Span(pl, "msg_timestamp", 15, 18)
      /\ Span(pl, "distance", 19, 22)
      /\ Span(pl, "body", 23, TextLen + 22)
      /\ pl[TextLen + 23].f = "byte"
  BY push_user_Row, NulRow
<1> HIDE DEF pl
<1>3. /\ pl[1].f = "byte"
      /\ pl[2].f = "byte"
      /\ \A p \in 3..6 : pl[p].f = "session_id"
      /\ \A p \in 7..14 : pl[p].f = "msg_id"
      /\ \A p \in 15..18 : pl[p].f = "msg_timestamp"
      /\ \A p \in 19..22 : pl[p].f = "distance"
      /\ \A p \in 23..(TextLen + 22) : pl[p].f = "body"
      /\ pl[TextLen + 23].f = "byte"
  BY <1>2 DEF Span
<1>4. ASSUME NEW p \in 1..Len(pl)
      PROVE  /\ (pl[p].f = "session_id" <=> p \in (2 + 1)..(2 + 4))
             /\ (pl[p].f = "msg_id" <=> p \in (6 + 1)..(6 + 8))
             /\ (pl[p].f = "msg_timestamp" <=> p \in (14 + 1)..(14 + 4))
             /\ (pl[p].f = "distance" <=> p \in (18 + 1)..(18 + 4))
             /\ pl[p].f \in {"byte"} \cup {"session_id", "msg_id", "msg_timestamp", "distance", "body"}
  <2>1. CASE p \in {1, 2, TextLen + 23}
    <3>1. pl[p].f = "byte"
      BY <1>3, <2>1
    <3>2. p \in Nat /\ p \notin 3..22
      BY <1>1, <2>1
    <3>3. QED
      BY <3>1, <3>2
  <2>2. CASE p \in 3..6
    <3>1. pl[p].f = "session_id"
      BY <1>3, <2>2
    <3>2. QED
      BY <1>1, <2>2, <3>1
  <2>3. CASE p \in 7..14
    <3>1. pl[p].f = "msg_id"
      BY <1>3, <2>3
    <3>2. QED
      BY <1>1, <2>3, <3>1
  <2>4. CASE p \in 15..18
    <3>1. pl[p].f = "msg_timestamp"
      BY <1>3, <2>4
    <3>2. QED
      BY <1>1, <2>4, <3>1
  <2>5. CASE p \in 19..22
    <3>1. pl[p].f = "distance"
      BY <1>3, <2>5
    <3>2. QED
      BY <1>1, <2>5, <3>1
  <2>6. CASE p \in 23..(TextLen + 22)
    <3>1. pl[p].f = "body"
      BY <1>3, <2>6
    <3>2. QED
      BY <1>1, <2>6, <3>1
  <2>7. QED
    BY <1>1, <2>1, <2>2, <2>3, <2>4, <2>5, <2>6
<1>5. /\ PlacedIn(pl, "session_id", 2, 4) /\ PlacedIn(pl, "msg_id", 6, 8)
      /\ PlacedIn(pl, "msg_timestamp", 14, 4) /\ PlacedIn(pl, "distance", 18, 4)
      /\ ListedIn(pl, {"session_id", "msg_id", "msg_timestamp", "distance", "body"})
  BY <1>1, <1>4 DEF PlacedIn, ListedIn
<1>6. Where["push_user"] = {<<"session_id", 2, 4>>, <<"msg_id", 6, 8>>, <<"msg_timestamp", 14, 4>>, <<"distance", 18, 4>>}
  BY DEF Where
<1>7. QED
  BY <1>4, <1>5, <1>6 DEF Spaced, pl

\* Where the fields of push_readack lie, and that no other byte bears their names.
LEMMA push_readack_Fields == Spaced("push_readack", {"session_id", "msg_id"})
<1> DEFINE pl == Msgs["push_readack"].payload
<1>1. TextLen \in Nat /\ TextLen >= 1 /\ Len(pl) = 14
  BY push_readack_Row, MessagesAssumption
<1>2. /\ pl[1].f = "byte"
      /\ pl[2].f = "byte"
      /\ Span(pl, "session_id", 3, 6)
      /\ Span(pl, "msg_id", 7, 14)
  BY push_readack_Row
<1> HIDE DEF pl
<1>3. /\ pl[1].f = "byte"
      /\ pl[2].f = "byte"
      /\ \A p \in 3..6 : pl[p].f = "session_id"
      /\ \A p \in 7..14 : pl[p].f = "msg_id"
  BY <1>2 DEF Span
<1>4. PlacedIn(pl, "session_id", 2, 4)
  BY <1>1, <1>3 DEF PlacedIn
<1>5. PlacedIn(pl, "msg_id", 6, 8)
  BY <1>1, <1>3 DEF PlacedIn
<1>6. ListedIn(pl, {"session_id", "msg_id"})
  BY <1>1, <1>3 DEF ListedIn
<1>7. Where["push_readack"] = {<<"session_id", 2, 4>>, <<"msg_id", 6, 8>>}
  BY DEF Where
<1>8. QED
  BY <1>4, <1>5, <1>6, <1>7 DEF Spaced, pl

\* Where the fields of delete_all lie, and that no other byte bears their names.
LEMMA delete_all_Fields == Spaced("delete_all", {"local_id"})
<1> DEFINE pl == Msgs["delete_all"].payload
<1>1. TextLen \in Nat /\ TextLen >= 1 /\ Len(pl) = 5
  BY delete_all_Row, MessagesAssumption
<1>2. /\ pl[1].f = "byte"
      /\ Span(pl, "local_id", 2, 5)
  BY delete_all_Row
<1> HIDE DEF pl
<1>3. /\ pl[1].f = "byte"
      /\ \A p \in 2..5 : pl[p].f = "local_id"
  BY <1>2 DEF Span
<1>4. PlacedIn(pl, "local_id", 1, 4)
  BY <1>1, <1>3 DEF PlacedIn
<1>5. ListedIn(pl, {"local_id"})
  BY <1>1, <1>3 DEF ListedIn
<1>6. Where["delete_all"] = {<<"local_id", 1, 4>>}
  BY DEF Where
<1>7. QED
  BY <1>4, <1>5, <1>6 DEF Spaced, pl

\* Where the fields of delete_session lie, and that no other byte bears their names.
LEMMA delete_session_Fields == Spaced("delete_session", {"local_id", "session_id"})
<1> DEFINE pl == Msgs["delete_session"].payload
<1>1. TextLen \in Nat /\ TextLen >= 1 /\ Len(pl) = 10
  BY delete_session_Row, MessagesAssumption
<1>2. /\ pl[1].f = "byte"
      /\ Span(pl, "local_id", 2, 5)
      /\ pl[6].f = "byte"
      /\ Span(pl, "session_id", 7, 10)
  BY delete_session_Row
<1> HIDE DEF pl
<1>3. /\ pl[1].f = "byte"
      /\ \A p \in 2..5 : pl[p].f = "local_id"
      /\ pl[6].f = "byte"
      /\ \A p \in 7..10 : pl[p].f = "session_id"
  BY <1>2 DEF Span
<1>4. PlacedIn(pl, "local_id", 1, 4)
  BY <1>1, <1>3 DEF PlacedIn
<1>5. PlacedIn(pl, "session_id", 6, 4)
  BY <1>1, <1>3 DEF PlacedIn
<1>6. ListedIn(pl, {"local_id", "session_id"})
  BY <1>1, <1>3 DEF ListedIn
<1>7. Where["delete_session"] = {<<"local_id", 1, 4>>, <<"session_id", 6, 4>>}
  BY DEF Where
<1>8. QED
  BY <1>4, <1>5, <1>6, <1>7 DEF Spaced, pl

\* Where the fields of delete_message lie, and that no other byte bears their names.
LEMMA delete_message_Fields == Spaced("delete_message", {"local_id", "session_id", "message_id"})
<1> DEFINE pl == Msgs["delete_message"].payload
<1>1. TextLen \in Nat /\ TextLen >= 1 /\ Len(pl) = 18
  BY delete_message_Row, MessagesAssumption
<1>2. /\ pl[1].f = "byte"
      /\ Span(pl, "local_id", 2, 5)
      /\ pl[6].f = "byte"
      /\ Span(pl, "session_id", 7, 10)
      /\ Span(pl, "message_id", 11, 18)
  BY delete_message_Row
<1> HIDE DEF pl
<1>3. /\ pl[1].f = "byte"
      /\ \A p \in 2..5 : pl[p].f = "local_id"
      /\ pl[6].f = "byte"
      /\ \A p \in 7..10 : pl[p].f = "session_id"
      /\ \A p \in 11..18 : pl[p].f = "message_id"
  BY <1>2 DEF Span
<1>4. PlacedIn(pl, "local_id", 1, 4)
  BY <1>1, <1>3 DEF PlacedIn
<1>5. PlacedIn(pl, "session_id", 6, 4)
  BY <1>1, <1>3 DEF PlacedIn
<1>6. PlacedIn(pl, "message_id", 10, 8)
  BY <1>1, <1>3 DEF PlacedIn
<1>7. ListedIn(pl, {"local_id", "session_id", "message_id"})
  BY <1>1, <1>3 DEF ListedIn
<1>8. Where["delete_message"] = {<<"local_id", 1, 4>>, <<"session_id", 6, 4>>, <<"message_id", 10, 8>>}
  BY DEF Where
<1>9. QED
  BY <1>4, <1>5, <1>6, <1>7, <1>8 DEF Spaced, pl

\* Where the fields of delete_ack lie, and that no other byte bears their names.
LEMMA delete_ack_Fields == Spaced("delete_ack", {"local_id"})
<1> DEFINE pl == Msgs["delete_ack"].payload
<1>1. TextLen \in Nat /\ TextLen >= 1 /\ Len(pl) = 5
  BY delete_ack_Row, MessagesAssumption
<1>2. /\ pl[1].f = "byte"
      /\ Span(pl, "local_id", 2, 5)
  BY delete_ack_Row
<1> HIDE DEF pl
<1>3. /\ pl[1].f = "byte"
      /\ \A p \in 2..5 : pl[p].f = "local_id"
  BY <1>2 DEF Span
<1>4. PlacedIn(pl, "local_id", 1, 4)
  BY <1>1, <1>3 DEF PlacedIn
<1>5. ListedIn(pl, {"local_id"})
  BY <1>1, <1>3 DEF ListedIn
<1>6. Where["delete_ack"] = {<<"local_id", 1, 4>>}
  BY DEF Where
<1>7. QED
  BY <1>4, <1>5, <1>6 DEF Spaced, pl

\* Where the fields of req lie, and that no other byte bears their names.
LEMMA req_Fields == Spaced("req", {"local_id", "msgpack"})
<1> DEFINE pl == Msgs["req"].payload
<1>1. TextLen \in Nat /\ TextLen >= 1 /\ Len(pl) = TextLen + 6
  BY req_Row, MessagesAssumption
<1>2. /\ pl[1].f = "byte"
      /\ Span(pl, "local_id", 2, 5)
      /\ Span(pl, "msgpack", 6, TextLen + 5)
      /\ pl[TextLen + 6].f = "byte"
  BY req_Row, NulRow
<1> HIDE DEF pl
<1>3. /\ pl[1].f = "byte"
      /\ \A p \in 2..5 : pl[p].f = "local_id"
      /\ \A p \in 6..(TextLen + 5) : pl[p].f = "msgpack"
      /\ pl[TextLen + 6].f = "byte"
  BY <1>2 DEF Span
<1>4. PlacedIn(pl, "local_id", 1, 4)
  BY <1>1, <1>3 DEF PlacedIn
<1>5. ListedIn(pl, {"local_id", "msgpack"})
  BY <1>1, <1>3 DEF ListedIn
<1>6. Where["req"] = {<<"local_id", 1, 4>>}
  BY DEF Where
<1>7. QED
  BY <1>4, <1>5, <1>6 DEF Spaced, pl

\* Where the fields of req_ack lie, and that no other byte bears their names.
LEMMA req_ack_Fields == Spaced("req_ack", {"local_id", "msgpack"})
<1> DEFINE pl == Msgs["req_ack"].payload
<1>1. TextLen \in Nat /\ TextLen >= 1 /\ Len(pl) = TextLen + 6
  BY req_ack_Row, MessagesAssumption
<1>2. /\ pl[1].f = "byte"
      /\ Span(pl, "local_id", 2, 5)
      /\ Span(pl, "msgpack", 6, TextLen + 5)
      /\ pl[TextLen + 6].f = "byte"
  BY req_ack_Row, NulRow
<1> HIDE DEF pl
<1>3. /\ pl[1].f = "byte"
      /\ \A p \in 2..5 : pl[p].f = "local_id"
      /\ \A p \in 6..(TextLen + 5) : pl[p].f = "msgpack"
      /\ pl[TextLen + 6].f = "byte"
  BY <1>2 DEF Span
<1>4. PlacedIn(pl, "local_id", 1, 4)
  BY <1>1, <1>3 DEF PlacedIn
<1>5. ListedIn(pl, {"local_id", "msgpack"})
  BY <1>1, <1>3 DEF ListedIn
<1>6. Where["req_ack"] = {<<"local_id", 1, 4>>}
  BY DEF Where
<1>7. QED
  BY <1>4, <1>5, <1>6 DEF Spaced, pl

\* Where the fields of sync_new lie, and that no other byte bears their names.
LEMMA sync_new_Fields == Spaced("sync_new", {"local_id", "sync_local_id"})
<1> DEFINE pl == Msgs["sync_new"].payload
<1>1. TextLen \in Nat /\ TextLen >= 1 /\ Len(pl) = 9
  BY sync_new_Row, MessagesAssumption
<1>2. /\ pl[1].f = "byte"
      /\ Span(pl, "local_id", 2, 5)
      /\ Span(pl, "sync_local_id", 6, 9)
  BY sync_new_Row
<1> HIDE DEF pl
<1>3. /\ pl[1].f = "byte"
      /\ \A p \in 2..5 : pl[p].f = "local_id"
      /\ \A p \in 6..9 : pl[p].f = "sync_local_id"
  BY <1>2 DEF Span
<1>4. PlacedIn(pl, "local_id", 1, 4)
  BY <1>1, <1>3 DEF PlacedIn
<1>5. PlacedIn(pl, "sync_local_id", 5, 4)
  BY <1>1, <1>3 DEF PlacedIn
<1>6. ListedIn(pl, {"local_id", "sync_local_id"})
  BY <1>1, <1>3 DEF ListedIn
<1>7. Where["sync_new"] = {<<"local_id", 1, 4>>, <<"sync_local_id", 5, 4>>}
  BY DEF Where
<1>8. QED
  BY <1>4, <1>5, <1>6, <1>7 DEF Spaced, pl

\* Where the fields of sync_session lie, and that no other byte bears their names.
LEMMA sync_session_Fields == Spaced("sync_session", {"local_id", "session_id", "start_message_id", "end_message_id"})
<1> DEFINE pl == Msgs["sync_session"].payload
<1>1. TextLen \in Nat /\ TextLen >= 1 /\ Len(pl) = 26
  BY sync_session_Row, MessagesAssumption
<1>2. /\ pl[1].f = "byte"
      /\ Span(pl, "local_id", 2, 5)
      /\ pl[6].f = "byte"
      /\ Span(pl, "session_id", 7, 10)
      /\ Span(pl, "start_message_id", 11, 18)
      /\ Span(pl, "end_message_id", 19, 26)
  BY sync_session_Row
<1> HIDE DEF pl
<1>3. /\ pl[1].f = "byte"
      /\ \A p \in 2..5 : pl[p].f = "local_id"
      /\ pl[6].f = "byte"
      /\ \A p \in 7..10 : pl[p].f = "session_id"
      /\ \A p \in 11..18 : pl[p].f = "start_message_id"
      /\ \A p \in 19..26 : pl[p].f = "end_message_id"
  BY <1>2 DEF Span
<1>4. PlacedIn(pl, "local_id", 1, 4)
  BY <1>1, <1>3 DEF PlacedIn
<1>5. PlacedIn(pl, "session_id", 6, 4)
  BY <1>1, <1>3 DEF PlacedIn
<1>6. PlacedIn(pl, "start_message_id", 10, 8)
  BY <1>1, <1>3 DEF PlacedIn
<1>7. PlacedIn(pl, "end_message_id", 18, 8)
  BY <1>1, <1>3 DEF PlacedIn
<1>8. ListedIn(pl, {"local_id", "session_id", "start_message_id", "end_message_id"})
  BY <1>1, <1>3 DEF ListedIn
<1>9. Where["sync_session"] = {<<"local_id", 1, 4>>, <<"session_id", 6, 4>>, <<"start_message_id", 10, 8>>, <<"end_message_id", 18, 8>>}
  BY DEF Where
<1>10. QED
  BY <1>4, <1>5, <1>6, <1>7, <1>8, <1>9 DEF Spaced, pl

\* Where the fields of sync_last lie, and that no other byte bears their names.
LEMMA sync_last_Fields == Spaced("sync_last", {"local_id", "session_id"})
<1> DEFINE pl == Msgs["sync_last"].payload
<1>1. TextLen \in Nat /\ TextLen >= 1 /\ Len(pl) = 10
  BY sync_last_Row, MessagesAssumption
<1>2. /\ pl[1].f = "byte"
      /\ Span(pl, "local_id", 2, 5)
      /\ pl[6].f = "byte"
      /\ Span(pl, "session_id", 7, 10)
  BY sync_last_Row
<1> HIDE DEF pl
<1>3. /\ pl[1].f = "byte"
      /\ \A p \in 2..5 : pl[p].f = "local_id"
      /\ pl[6].f = "byte"
      /\ \A p \in 7..10 : pl[p].f = "session_id"
  BY <1>2 DEF Span
<1>4. PlacedIn(pl, "local_id", 1, 4)
  BY <1>1, <1>3 DEF PlacedIn
<1>5. PlacedIn(pl, "session_id", 6, 4)
  BY <1>1, <1>3 DEF PlacedIn
<1>6. ListedIn(pl, {"local_id", "session_id"})
  BY <1>1, <1>3 DEF ListedIn
<1>7. Where["sync_last"] = {<<"local_id", 1, 4>>, <<"session_id", 6, 4>>}
  BY DEF Where
<1>8. QED
  BY <1>4, <1>5, <1>6, <1>7 DEF Spaced, pl

\* Where the fields of disconnect lie, and that no other byte bears their names.
LEMMA disconnect_Fields == Spaced("disconnect", {})
<1> DEFINE pl == Msgs["disconnect"].payload
<1>1. TextLen \in Nat /\ TextLen >= 1 /\ Len(pl) = 1
  BY disconnect_Row, MessagesAssumption
<1>2. pl[1].f = "byte"
  BY disconnect_Row
<1> HIDE DEF pl
<1>3. pl[1].f = "byte"
  BY <1>2 DEF Span
<1>4. ListedIn(pl, {})
  BY <1>1, <1>3 DEF ListedIn
<1>5. Where["disconnect"] = {}
  BY DEF Where
<1>6. QED
  BY <1>4, <1>5 DEF Spaced, pl

\* Where the fields of sync_ack lie, and that no other byte bears their names.
LEMMA sync_ack_Fields == Spaced("sync_ack", FieldNames)
<1> DEFINE pl == Msgs["sync_ack"].payload
<1>1. PICK n \in Nat : n = Packed * Width
  BY Turns
<1>2. Len(pl) = 11 + n
  BY <1>1, sync_ack_Row
<1>3. /\ pl[1].f = "byte" /\ Span(pl, "local_id", 2, 5)
      /\ pl[6].f = "byte" /\ Span(pl, "sync_local_id", 7, 10) /\ pl[11 + n].f = "byte"
  BY <1>1, sync_ack_Row, NulRow
<1>4. \A p \in 11..(10 + n) : pl[p] = PackedPush[((p - 11) % Width) + 1]
  BY <1>1, sync_ack_Row
<1>5. \A p \in 11..(10 + n) : ((p - 11) % Width) + 1 \in 1..Width
  BY Turns
<1> HIDE DEF pl
<1> DEFINE Other == {"byte"} \cup (FieldNames \ {"local_id", "sync_local_id"})
<1>6. \A q \in 1..Width : PackedPush[q].f \in Other
  <2>1. /\ Width \in Nat
        /\ PackedPush[1].f = "byte" /\ PackedPush[2].f = "byte" /\ PackedPush[7].f = "byte"
        /\ PackedPush[8].f = "byte" /\ \A q \in 3..6 : PackedPush[q].f = "packed_length"
        /\ Span(PackedPush, "session_id", 9, 12) /\ Span(PackedPush, "msg_id", 13, 20)
        /\ Span(PackedPush, "msg_timestamp", 21, 24) /\ Span(PackedPush, "distance", 25, 28)
        /\ Span(PackedPush, "body", 29, Width)
    BY PackedPushRow, Turns
  <2>2. \A q \in 1..8 : PackedPush[q].f \in {"byte", "packed_length"}
    BY <2>1
  <2>3. /\ \A q \in 9..20 : PackedPush[q].f \in {"session_id", "msg_id"}
        /\ \A q \in 21..28 : PackedPush[q].f \in {"msg_timestamp", "distance"}
        /\ \A q \in 29..Width : PackedPush[q].f = "body"
    BY <2>1 DEF Span
  <2>4. /\ {"byte", "packed_length"} \subseteq Other /\ {"session_id", "msg_id"} \subseteq Other
        /\ {"msg_timestamp", "distance"} \subseteq Other /\ "body" \in Other
    BY DEF FieldNames
  <2> HIDE DEF Other
  <2>5. QED
    BY <2>1, <2>2, <2>3, <2>4
<1>7. \A p \in 11..(10 + n) : pl[p].f \in Other
  <2> HIDE DEF Other
  <2>1. QED
    BY <1>4, <1>5, <1>6
<1>8. /\ \A p \in 2..5 : pl[p].f = "local_id"
      /\ \A p \in 7..10 : pl[p].f = "sync_local_id"
  BY <1>3 DEF Span
<1>9. PlacedIn(pl, "local_id", 1, 4) /\ PlacedIn(pl, "sync_local_id", 6, 4)
  <2>1. \A p \in 11..(10 + n) : pl[p].f \notin {"local_id", "sync_local_id"}
    BY <1>7
  <2>2. QED
    BY <1>2, <1>3, <1>8, <2>1 DEF PlacedIn
<1>10. ListedIn(pl, FieldNames)
  <2>1. \A p \in 11..(10 + n) : pl[p].f \in {"byte"} \cup FieldNames
    BY <1>7
  <2>2. {"local_id", "sync_local_id"} \subseteq FieldNames
    BY DEF FieldNames
  <2>3. QED
    BY <1>2, <1>3, <1>8, <2>1, <2>2 DEF ListedIn
<1>11. Where["sync_ack"] = {<<"local_id", 1, 4>>, <<"sync_local_id", 6, 4>>}
  BY DEF Where
<1>12. QED
  BY <1>9, <1>10, <1>11 DEF Spaced, pl

\* The numbers that are printed of s, as names.
NamesOf(s) == {x[1] : x \in Where[s]}

\* What else may stand in a payload.
Unprinted(s) == Strings \cup (IF s = "send_recvack" THEN {"ack_msg_id"} ELSE {})

\* Where the numbers of all messages are.
LEMMA WhereAre ==
  ASSUME NEW s \in Loaded
  PROVE  /\ \A x \in Where[s] : /\ x = <<x[1], x[2], x[3]>>
                                /\ x[1] \in FieldNames \ Unprinted(s)
                                /\ x[2] \in Nat /\ x[3] \in Nat \ {0}
         /\ \A x \in Where[s] : PlacedIn(Msgs[s].payload, x[1], x[2], x[3])
         /\ s # "sync_ack" => ListedIn(Msgs[s].payload, NamesOf(s) \cup Unprinted(s))
         /\ s = "sync_ack" => ListedIn(Msgs[s].payload, FieldNames)
<1> DEFINE Typed(S, t) == \A x \in S : /\ x = <<x[1], x[2], x[3]>>
                                      /\ x[1] \in FieldNames \ Unprinted(t)
                                      /\ x[2] \in Nat /\ x[3] \in Nat \ {0}
<1>1. CASE s = "connect"
  <2>1. Where[s] = {<<"uid", 0, 4>>}
    BY <1>1 DEF Where
  <2>2. Typed({<<"uid", 0, 4>>}, s)
    BY <1>1 DEF FieldNames, Unprinted, Strings
  <2>3. NamesOf(s) = {"uid"}
    BY <2>1 DEF NamesOf
  <2>4. QED
    BY <1>1, <2>1, <2>2, <2>3, connect_Fields DEF Spaced, ListedIn, Unprinted, Strings
<1>2. CASE s = "ping"
  <2>1. Where[s] = {<<"heart_interval", 0, 2>>}
    BY <1>2 DEF Where
  <2>2. Typed({<<"heart_interval", 0, 2>>}, s)
    BY <1>2 DEF FieldNames, Unprinted, Strings
  <2>3. NamesOf(s) = {"heart_interval"}
    BY <2>1 DEF NamesOf
  <2>4. QED
    BY <1>2, <2>1, <2>2, <2>3, ping_Fields DEF Spaced, ListedIn, Unprinted, Strings
<1>3. CASE s = "send_user"
  <2>1. Where[s] = {<<"session_id", 2, 4>>, <<"local_id", 6, 4>>}
    BY <1>3 DEF Where
  <2>2. Typed({<<"session_id", 2, 4>>, <<"local_id", 6, 4>>}, s)
    BY <1>3 DEF FieldNames, Unprinted, Strings
  <2>3. NamesOf(s) = {"session_id", "local_id"}
    BY <2>1 DEF NamesOf
  <2>4. QED
    BY <1>3, <2>1, <2>2, <2>3, send_user_Fields DEF Spaced, ListedIn, Unprinted, Strings
<1>4. CASE s = "send_recvack"
  <2>1. Where[s] = {<<"session_id", 2, 4>>}
    BY <1>4 DEF Where
  <2>2. Typed({<<"session_id", 2, 4>>}, s)
    BY <1>4 DEF FieldNames, Unprinted, Strings
  <2>3. NamesOf(s) = {"session_id"}
    BY <2>1 DEF NamesOf
  <2>4. QED
    BY <1>4, <2>1, <2>2, <2>3, send_recvack_Fields DEF Spaced, ListedIn, Unprinted, Strings
<1>5. CASE s = "send_readack"
  <2>1. Where[s] = {<<"session_id", 2, 4>>, <<"ack_msg_id", 6, 8>>}
    BY <1>5 DEF Where
  <2>2. Typed({<<"session_id", 2, 4>>, <<"ack_msg_id", 6, 8>>}, s)
    BY <1>5 DEF FieldNames, Unprinted, Strings
  <2>3. NamesOf(s) = {"session_id", "ack_msg_id"}
    BY <2>1 DEF NamesOf
  <2>4. QED
    BY <1>5, <2>1, <2>2, <2>3, send_readack_Fields DEF Spaced, ListedIn, Unprinted, Strings
<1>6. CASE s = "send_ack"
  <2>1. Where[s] = {<<"local_id", 1, 4>>, <<"msg_timestamp", 5, 4>>}
    BY <1>6 DEF Where
  <2>2. Typed({<<"local_id", 1, 4>>, <<"msg_timestamp", 5, 4>>}, s)
    BY <1>6 DEF FieldNames, Unprinted, Strings
  <2>3. NamesOf(s) = {"local_id", "msg_timestamp"}
    BY <2>1 DEF NamesOf
  <2>4. QED
    BY <1>6, <2>1, <2>2, <2>3, send_ack_Fields DEF Spaced, ListedIn, Unprinted, Strings
<1>7. CASE s = "push_user"
  <2>1. Where[s] = {<<"session_id", 2, 4>>, <<"msg_id", 6, 8>>, <<"msg_timestamp", 14, 4>>, <<"distance", 18, 4>>}
    BY <1>7 DEF Where
  <2>2. Typed({<<"session_id", 2, 4>>, <<"msg_id", 6, 8>>, <<"msg_timestamp", 14, 4>>, <<"distance", 18, 4>>}, s)
    BY <1>7 DEF FieldNames, Unprinted, Strings
  <2>3. NamesOf(s) = {"session_id", "msg_id", "msg_timestamp", "distance"}
    BY <2>1 DEF NamesOf
  <2>4. QED
    BY <1>7, <2>1, <2>2, <2>3, push_user_Fields DEF Spaced, ListedIn, Unprinted, Strings
<1>8. CASE s = "push_readack"
  <2>1. Where[s] = {<<"session_id", 2, 4>>, <<"msg_id", 6, 8>>}
    BY <1>8 DEF Where
  <2>2. Typed({<<"session_id", 2, 4>>, <<"msg_id", 6, 8>>}, s)
    BY <1>8 DEF FieldNames, Unprinted, Strings
  <2>3. NamesOf(s) = {"session_id", "msg_id"}
    BY <2>1 DEF NamesOf
  <2>4. QED
    BY <1>8, <2>1, <2>2, <2>3, push_readack_Fields DEF Spaced, ListedIn, Unprinted, Strings
<1>9. CASE s = "delete_all"
  <2>1. Where[s] = {<<"local_id", 1, 4>>}
    BY <1>9 DEF Where
  <2>2. Typed({<<"local_id", 1, 4>>}, s)
    BY <1>9 DEF FieldNames, Unprinted, Strings
  <2>3. NamesOf(s) = {"local_id"}
    BY <2>1 DEF NamesOf
  <2>4. QED
    BY <1>9, <2>1, <2>2, <2>3, delete_all_Fields DEF Spaced, ListedIn, Unprinted, Strings
<1>10. CASE s = "delete_session"
  <2>1. Where[s] = {<<"local_id", 1, 4>>, <<"session_id", 6, 4>>}
    BY <1>10 DEF Where
  <2>2. Typed({<<"local_id", 1, 4>>, <<"session_id", 6, 4>>}, s)
    BY <1>10 DEF FieldNames, Unprinted, Strings
  <2>3. NamesOf(s) = {"local_id", "session_id"}
    BY <2>1 DEF NamesOf
  <2>4. QED
    BY <1>10, <2>1, <2>2, <2>3, delete_session_Fields DEF Spaced, ListedIn, Unprinted, Strings
<1>11. CASE s = "delete_message"
  <2>1. Where[s] = {<<"local_id", 1, 4>>, <<"session_id", 6, 4>>, <<"message_id", 10, 8>>}
    BY <1>11 DEF Where
  <2>2. Typed({<<"local_id", 1, 4>>, <<"session_id", 6, 4>>, <<"message_id", 10, 8>>}, s)
    BY <1>11 DEF FieldNames, Unprinted, Strings
  <2>3. NamesOf(s) = {"local_id", "session_id", "message_id"}
    BY <2>1 DEF NamesOf
  <2>4. QED
    BY <1>11, <2>1, <2>2, <2>3, delete_message_Fields DEF Spaced, ListedIn, Unprinted, Strings
<1>12. CASE s = "delete_ack"
  <2>1. Where[s] = {<<"local_id", 1, 4>>}
    BY <1>12 DEF Where
  <2>2. Typed({<<"local_id", 1, 4>>}, s)
    BY <1>12 DEF FieldNames, Unprinted, Strings
  <2>3. NamesOf(s) = {"local_id"}
    BY <2>1 DEF NamesOf
  <2>4. QED
    BY <1>12, <2>1, <2>2, <2>3, delete_ack_Fields DEF Spaced, ListedIn, Unprinted, Strings
<1>13. CASE s = "req"
  <2>1. Where[s] = {<<"local_id", 1, 4>>}
    BY <1>13 DEF Where
  <2>2. Typed({<<"local_id", 1, 4>>}, s)
    BY <1>13 DEF FieldNames, Unprinted, Strings
  <2>3. NamesOf(s) = {"local_id"}
    BY <2>1 DEF NamesOf
  <2>4. QED
    BY <1>13, <2>1, <2>2, <2>3, req_Fields DEF Spaced, ListedIn, Unprinted, Strings
<1>14. CASE s = "req_ack"
  <2>1. Where[s] = {<<"local_id", 1, 4>>}
    BY <1>14 DEF Where
  <2>2. Typed({<<"local_id", 1, 4>>}, s)
    BY <1>14 DEF FieldNames, Unprinted, Strings
  <2>3. NamesOf(s) = {"local_id"}
    BY <2>1 DEF NamesOf
  <2>4. QED
    BY <1>14, <2>1, <2>2, <2>3, req_ack_Fields DEF Spaced, ListedIn, Unprinted, Strings
<1>15. CASE s = "sync_new"
  <2>1. Where[s] = {<<"local_id", 1, 4>>, <<"sync_local_id", 5, 4>>}
    BY <1>15 DEF Where
  <2>2. Typed({<<"local_id", 1, 4>>, <<"sync_local_id", 5, 4>>}, s)
    BY <1>15 DEF FieldNames, Unprinted, Strings
  <2>3. NamesOf(s) = {"local_id", "sync_local_id"}
    BY <2>1 DEF NamesOf
  <2>4. QED
    BY <1>15, <2>1, <2>2, <2>3, sync_new_Fields DEF Spaced, ListedIn, Unprinted, Strings
<1>16. CASE s = "sync_session"
  <2>1. Where[s] = {<<"local_id", 1, 4>>, <<"session_id", 6, 4>>, <<"start_message_id", 10, 8>>, <<"end_message_id", 18, 8>>}
    BY <1>16 DEF Where
  <2>2. Typed({<<"local_id", 1, 4>>, <<"session_id", 6, 4>>, <<"start_message_id", 10, 8>>, <<"end_message_id", 18, 8>>}, s)
    BY <1>16 DEF FieldNames, Unprinted, Strings
  <2>3. NamesOf(s) = {"local_id", "session_id", "start_message_id", "end_message_id"}
    BY <2>1 DEF NamesOf
  <2>4. QED
    BY <1>16, <2>1, <2>2, <2>3, sync_session_Fields DEF Spaced, ListedIn, Unprinted, Strings
<1>17. CASE s = "sync_last"
  <2>1. Where[s] = {<<"local_id", 1, 4>>, <<"session_id", 6, 4>>}
    BY <1>17 DEF Where
  <2>2. Typed({<<"local_id", 1, 4>>, <<"session_id", 6, 4>>}, s)
    BY <1>17 DEF FieldNames, Unprinted, Strings
  <2>3. NamesOf(s) = {"local_id", "session_id"}
    BY <2>1 DEF NamesOf
  <2>4. QED
    BY <1>17, <2>1, <2>2, <2>3, sync_last_Fields DEF Spaced, ListedIn, Unprinted, Strings
<1>18. CASE s = "sync_ack"
  <2>1. Where[s] = {<<"local_id", 1, 4>>, <<"sync_local_id", 6, 4>>}
    BY <1>18 DEF Where
  <2>2. Typed({<<"local_id", 1, 4>>, <<"sync_local_id", 6, 4>>}, s)
    BY <1>18 DEF FieldNames, Unprinted, Strings
  <2>3. QED
    BY <1>18, <2>1, <2>2, sync_ack_Fields DEF Spaced
<1>19. CASE s = "disconnect"
  <2>1. Where[s] = {}
    BY <1>19 DEF Where
  <2>2. Typed({}, s)
    BY <1>19 DEF FieldNames, Unprinted, Strings
  <2>3. NamesOf(s) = {}
    BY <2>1 DEF NamesOf
  <2>4. QED
    BY <1>19, <2>1, <2>2, <2>3, disconnect_Fields DEF Spaced, ListedIn, Unprinted, Strings
<1>20. QED
  BY <1>1, <1>2, <1>3, <1>4, <1>5, <1>6, <1>7, <1>8, <1>9, <1>10, <1>11, <1>12,
     <1>13, <1>14, <1>15, <1>16, <1>17, <1>18, <1>19, SpeciesAre DEF Loaded

\* The names of fields and of messages are different.
LEMMA NamesApart ==
  /\ FieldNames \cap Species = {} /\ "length" \notin Species \cup FieldNames
  /\ "byte" \notin Species \cup FieldNames /\ Strings \subseteq FieldNames
  BY SpeciesAre DEF FieldNames, Strings

\* Nothing but fields is in a payload.
LEMMA AllListed ==
  ASSUME NEW s \in Loaded
  PROVE  ListedIn(Msgs[s].payload, FieldNames)
<1>1. CASE s = "sync_ack"
  BY <1>1, WhereAre
<1>2. CASE s # "sync_ack"
  <2>1. NamesOf(s) \subseteq FieldNames
    BY WhereAre DEF NamesOf
  <2>2. Unprinted(s) \subseteq FieldNames
    BY NamesApart DEF Unprinted, FieldNames
  <2>3. QED
    BY <1>2, <2>1, <2>2, WhereAre DEF ListedIn
<1>3. QED
  BY <1>1, <1>2

\* The numbers that are printed of s, with the declared length.
Shows(s) == {<<"length", -4, 4>>} \cup Where[s]

\* The cells of the field at the offset o, w bytes wide.
Part(b, o, w) == [i \in 1..w |-> b[6 + o + i]]

\* A number lies where it is said to be, in one piece and before the end of a text.
LEMMA PlacesAre ==
  ASSUME NEW s \in Loaded, NEW x \in Shows(s)
  PROVE  LET o == x[2]
             w == x[3] IN
         /\ o \in Int /\ o >= -4 /\ w \in Nat \ {0} /\ 6 + o + w <= Own(s)
         /\ Places(s, x[1]) = (7 + o)..(6 + o + w)
         /\ Cells(s, x[1]) = Part(Bytes(s, 0), o, w)
         /\ Max(Places(s, x[1])) = 6 + o + w
         /\ x[1] # "length" => o >= 0
<1> DEFINE b == Bytes(s, 0)
           pl == Msgs[s].payload
           n == Len(pl)
           f == x[1]
           o == x[2]
           w == x[3]
<1>1. /\ pl \in Row /\ n \in Nat /\ n >= 1
      /\ s \in Textual => pl[n] = Nul
  BY PayloadSized, RowCells DEF Sized
<1>2. Own(s) = 6 + n - (IF s \in Textual THEN 1 ELSE 0)
  BY DEF Own, Loaded
<1>3. /\ b \in Row /\ Len(b) = 6 + n /\ b[1].f = s /\ b[2].f = "byte"
      /\ \A p \in 3..6 : b[p].f = "length"
      /\ \A p \in 7..(6 + n) : b[p] = pl[p - 6]
  <2>1. Framed(b, s, 0)
    BY BytesFramed
  <2>2. QED
    BY <2>1 DEF Framed
<1>4. DOMAIN b = 1..(6 + n)
  BY <1>3, RowCells
<1>5. \A p \in 1..n : pl[p].f \in {"byte"} \cup FieldNames
  BY AllListed DEF ListedIn
<1>6. s \in Species /\ f \notin Species \cup {"byte"}
  <2>1. s \in Species
    BY DEF Loaded
  <2>2. CASE x = <<"length", -4, 4>>
    BY <2>1, <2>2, NamesApart
  <2>3. CASE x \in Where[s]
    BY <2>1, <2>3, WhereAre, NamesApart
  <2>4. QED
    BY <2>2, <2>3 DEF Shows
<1> HIDE DEF b, pl, n
<1>7. /\ o \in Int /\ o >= -4 /\ w \in Nat \ {0} /\ 6 + o + w <= 6 + n
      /\ \A p \in DOMAIN b : b[p].f = f <=> p \in (7 + o)..(6 + o + w)
      /\ f # "length" => o >= 0 /\ \A p \in 1..n : pl[p].f = f <=> p \in (o + 1)..(o + w)
      /\ f = "length" => 6 + o + w = 6
  <2>1. CASE x = <<"length", -4, 4>>
    <3>1. f = "length" /\ o = -4 /\ w = 4
      BY <2>1
    <3>2. \A p \in 7..(6 + n) : b[p].f # "length"
      <4>1. TAKE p \in 7..(6 + n)
      <4>2. p - 6 \in 1..n /\ b[p] = pl[p - 6]
        BY <1>1, <1>3
      <4>3. pl[p - 6].f \in {"byte"} \cup FieldNames
        BY <1>5, <4>2
      <4>4. QED
        BY <4>2, <4>3, NamesApart
    <3>3. \A p \in 1..(6 + n) : b[p].f = "length" <=> p \in 3..6
      <4>1. b[1].f # "length" /\ b[2].f # "length"
        BY <1>3, <1>6, NamesApart
      <4>2. QED
        BY <1>1, <1>3, <3>2, <4>1
    <3>4. QED
      BY <1>1, <1>4, <3>1, <3>3
  <2>2. CASE x \in Where[s]
    <3>1. f \in FieldNames /\ o \in Nat /\ w \in Nat \ {0}
      BY <2>2, WhereAre
    <3>2. o + w <= n /\ \A p \in 1..n : pl[p].f = f <=> p \in (o + 1)..(o + w)
      BY <2>2, WhereAre DEF PlacedIn, pl, n
    <3> HIDE DEF f, o, w
    <3>3. \A p \in 1..6 : b[p].f # f
      <4>1. f # "length" /\ f # "byte" /\ f # s
        BY <1>6, <3>1, NamesApart
      <4>2. QED
        BY <1>3, <4>1
    <3>4. \A p \in 7..(6 + n) : b[p].f = f <=> p \in (7 + o)..(6 + o + w)
      <4>1. TAKE p \in 7..(6 + n)
      <4>2. p - 6 \in 1..n /\ b[p] = pl[p - 6]
        BY <1>1, <1>3
      <4>3. pl[p - 6].f = f <=> p - 6 \in (o + 1)..(o + w)
        BY <3>2, <4>2
      <4>4. QED
        BY <3>1, <4>2, <4>3
    <3>5. \A p \in 1..(6 + n) : b[p].f = f <=> p \in (7 + o)..(6 + o + w)
      BY <1>1, <3>1, <3>3, <3>4
    <3>6. f # "length"
      BY <3>1, NamesApart
    <3>7. QED
      BY <1>1, <1>4, <3>1, <3>2, <3>5, <3>6
  <2>3. QED
    BY <2>1, <2>2 DEF Shows
<1> HIDE DEF f, o, w
<1>8. Places(s, f) = (7 + o)..(6 + o + w)
  <2>1. Places(s, f) = {p \in DOMAIN b : b[p].f = f}
    BY DEF Places, PlacesIn, b
  <2>2. (7 + o)..(6 + o + w) \subseteq 1..(6 + n)
    BY <1>1, <1>7
  <2>3. QED
    BY <1>4, <1>7, <2>1, <2>2
<1>9. Min(Places(s, f)) = 7 + o /\ Max(Places(s, f)) = 6 + o + w
  <2>1. /\ 7 + o \in (7 + o)..(6 + o + w) /\ 6 + o + w \in (7 + o)..(6 + o + w)
        /\ \A y \in (7 + o)..(6 + o + w) : 7 + o <= y /\ y <= 6 + o + w
    BY <1>7
  <2>2. QED
    BY <1>7, <1>8, <2>1 DEF Min, Max
<1>10. Cells(s, f) = Part(b, o, w)
  <2>1. Cells(s, f) = SubSeq(b, 7 + o, 6 + o + w)
    BY <1>9 DEF Cells, Extent, Places, b
  <2>2. PICK i, j \in Int : i = 7 + o /\ j = 6 + o + w
    BY <1>7
  <2>3. SubSeq(b, i, j) = [k \in 1..(j - i + 1) |-> b[i + k - 1]]
    OBVIOUS
  <2>4. j - i + 1 = w /\ \A k \in 1..w : i + k - 1 = 6 + o + k
    BY <1>7, <2>2
  <2>5. QED
    BY <2>1, <2>2, <2>3, <2>4 DEF Part
<1>11. 6 + o + w <= Own(s)
  <2>1. CASE f = "length"
    BY <1>1, <1>2, <1>7, <2>1
  <2>2. CASE f # "length" /\ s \in Textual
    <3>1. pl[n].f = "byte"
      BY <1>1, <2>2, NulRow
    <3>2. ~(n \in (o + 1)..(o + w))
      BY <1>1, <1>6, <1>7, <2>2, <3>1 DEF f
    <3>3. QED
      BY <1>1, <1>2, <1>7, <2>2, <3>2
  <2>3. CASE s \notin Textual
    BY <1>1, <1>2, <1>7, <2>3
  <2>4. QED
    BY <2>1, <2>2, <2>3
<1>12. QED
  BY <1>7, <1>8, <1>9, <1>10, <1>11 DEF f, o, w, b

\* The numbers that are printed are the numbers of the message, but for the one of
\* a receive receipt.
LEMMA PrintedAre ==
  ASSUME NEW s \in Loaded
  PROVE  Printed(s) = {x[1] : x \in Shows(s)}
<1> DEFINE b == Bytes(s, 0)
           pl == Msgs[s].payload
           n == Len(pl)
<1>1. {x[1] : x \in Shows(s)} = {"length"} \cup NamesOf(s)
  <2> DEFINE first == <<"length", -4, 4>>
  <2>1. first[1] = "length"
    OBVIOUS
  <2> HIDE DEF first
  <2>2. QED
    BY <2>1 DEF Shows, NamesOf, first
<1>2. CASE s = "sync_ack"
  <2>1. NamesOf(s) = {"local_id", "sync_local_id"}
    BY <1>2 DEF NamesOf, Where
  <2>2. QED
    BY <1>1, <1>2, <2>1 DEF Printed, Numbers
<1>3. CASE s # "sync_ack"
  <2>1. /\ b \in Row /\ Len(b) = 6 + n /\ b[1].f = s /\ b[2].f = "byte" /\ b[3].f = "length"
        /\ \A p \in 3..6 : b[p].f = "length"
        /\ \A p \in 7..(6 + n) : b[p] = pl[p - 6]
    BY BytesFramed DEF Framed
  <2>2. n \in Nat /\ DOMAIN b = 1..(6 + n)
    BY <2>1, PayloadSized, RowCells DEF Sized
  <2>3. \A p \in 1..n : pl[p].f \in {"byte"} \cup NamesOf(s) \cup Unprinted(s)
    BY <1>3, WhereAre DEF ListedIn
  <2>4. s \in Species /\ NamesOf(s) \subseteq FieldNames \ Unprinted(s)
    BY WhereAre DEF NamesOf, Loaded
  <2>5. \A y \in {"length"} \cup NamesOf(s) : \E p \in DOMAIN b : b[p].f = y
    <3>1. TAKE y \in {"length"} \cup NamesOf(s)
    <3>2. PICK x \in Shows(s) : x[1] = y
      BY <1>1
    <3>3. PICK o \in Int, w \in Nat \ {0} : o = x[2] /\ w = x[3] /\ Places(s, y) = (7 + o)..(6 + o + w)
      BY <3>2, PlacesAre
    <3>4. 7 + o \in Places(s, y)
      BY <3>3
    <3>5. QED
      BY <3>4 DEF Places, PlacesIn
  <2> HIDE DEF b, pl, n
  <2>6. \A p \in DOMAIN b : b[p].f \in {"byte", s, "length"} \cup NamesOf(s) \cup Unprinted(s)
    <3>1. TAKE p \in DOMAIN b
    <3>2. CASE p \in 1..6
      BY <2>1, <3>2
    <3>3. CASE p \in 7..(6 + n)
      <4>1. p - 6 \in 1..n /\ b[p] = pl[p - 6]
        BY <2>1, <2>2, <3>3
      <4>2. QED
        BY <2>3, <4>1
    <3>4. QED
      BY <2>2, <3>2, <3>3
  <2>7. Fields(s) = {b[p].f : p \in DOMAIN b} \ {"byte", s}
    BY DEF Fields, FieldsIn, b
  <2>8. Printed(s) = Fields(s) \ Unprinted(s)
    BY <1>3 DEF Printed, Numbers, Unprinted
  <2>9. /\ "length" \notin {"byte", s} \cup Unprinted(s)
        /\ \A y \in NamesOf(s) : y \notin {"byte", s} \cup Unprinted(s)
    <3>1. "length" # "byte" /\ "length" # s /\ "length" \notin FieldNames
      BY <2>4, NamesApart
    <3>2. Unprinted(s) \subseteq FieldNames
      BY NamesApart DEF Unprinted, FieldNames
    <3>3. QED
      BY <2>4, <3>1, <3>2, NamesApart
  <2> DEFINE all == {b[p].f : p \in DOMAIN b}
             shown == {"length"} \cup NamesOf(s)
  <2>10. shown \subseteq all /\ all \subseteq {"byte", s} \cup shown \cup Unprinted(s)
    BY <2>5, <2>6
  <2>11. Printed(s) = (all \ {"byte", s}) \ Unprinted(s)
    BY <2>7, <2>8
  <2>12. shown \cap ({"byte", s} \cup Unprinted(s)) = {}
    BY <2>9
  <2> HIDE DEF all
  <2>13. Printed(s) = shown
    <3> HIDE DEF shown
    <3>1. QED
      BY <2>10, <2>11, <2>12
  <2>14. QED
    BY <1>1, <2>13
<1>4. QED
  BY <1>2, <1>3

-----------------------------------------------------------------------------
(* What the parsers make of a message. *)

\* The first bytes of m are those of s, as far as a parser looks at them.
HeadOf(m, s) ==
  /\ At(m, 1).v \div 16 = Msgs[s].fixed \div 16
  /\ \A mask \in {ACK_TYPE, HAS_PAYLOAD} : Has(At(m, 1).v, mask) = Has(Msgs[s].fixed, mask)
  /\ At(m, 2).v = 3

\* What is printed of the first two bytes; of a payload of the given type.
Heading(m) ==
  {Wording("type", type_string, At(m, 1).v \div 16),
   Told("header", Masks(At(m, 1).v, {NEED_ACK, ACK_TYPE, SYNC_TYPE, HAS_PAYLOAD})),
   Told("version", At(m, 2).v)}
Contents(m, n, type, is_ack_type) ==
  CASE type = 1  -> parse_connect(m)
    [] type = 2  -> parse_ping(m)
    [] type = 3  -> parse_send(m, is_ack_type)
    [] type = 4  -> parse_push(m)
    [] type = 5  -> parse_sync(m, is_ack_type, n)
    [] type = 6  -> parse_delete(m, is_ack_type)
    [] type = 7  -> parse_req(m, is_ack_type)
    [] type = 14 -> parse_disconnect(m)
    [] OTHER     -> {}

\* The numbers that should be printed of m, if it is s, and what else is.
Read(s, m) == {Shown(x[1], Number(m, x[2], x[3])) : x \in Where[s]}
Rest(s, m, n) ==
  CASE s = "connect" -> {Str("token", m, 4)}
    [] s = "ping" -> {}
    [] s = "send_user" ->
         {FlagsOf(9), Wording("chat", session_type_string, Value(m, 1)), Str("body", m, 10)}
    [] s = "send_recvack" -> {FlagsOf(2), Wording("chat", session_type_string, Value(m, 1))}
    [] s = "send_readack" -> {FlagsOf(6), Wording("chat", session_type_string, Value(m, 1))}
    [] s = "send_ack" -> {FlagsOf(13), Told("code", 13)}
    [] s = "push_user" ->
         {FlagsOf(8), Wording("chat", session_type_string, Value(m, 1)), Str("body", m, 20)}
    [] s = "push_readack" -> {FlagsOf(6), Wording("chat", session_type_string, Value(m, 1))}
    [] s = "delete_all" ->
         {Wording("description", delete_type_string, 1), Told("completely", Has(16, 1))}
    [] s = "delete_session" ->
         {Wording("description", delete_type_string, 2), Told("completely", Has(33, 1)),
          Wording("chat", session_type_string, Value(m, 5))}
    [] s = "delete_message" ->
         {Wording("description", delete_type_string, 3), Told("completely", Has(48, 1)),
          Wording("chat", session_type_string, Value(m, 5))}
    [] s = "delete_ack" -> {Told("code", 255), Wording("description", delete_error, 255)}
    [] s = "req" -> {Told("request", 1), Str("msgpack", m, 5)}
    [] s = "req_ack" -> {Told("description", "succeeded"), Str("msgpack", m, 5)}
    [] s = "sync_new" -> {Wording("description", sync_type_string, 2)}
    [] s = "sync_session" ->
         {Wording("description", sync_type_string, 3),
          Wording("chat", session_type_string, Value(m, 5))}
    [] s = "sync_last" ->
         {Wording("description", sync_type_string, 4),
          Wording("chat", session_type_string, Value(m, 5))}
    [] s = "sync_ack" -> {Wording("description", sync_ack_error, 0)} \cup PackedBodies(m, 10, n)
    [] s = "disconnect" -> {Told("description", "logged in elsewhere")}

\* Every message that has a payload is parsed for it.
LEMMA ParseLoaded ==
  ASSUME NEW s \in Loaded, NEW m, NEW n, HeadOf(m, s)
  PROVE  Parse(m, n) = Heading(m) \cup {Shown("length", Number(m, -4, 4))}
                         \cup Contents(m, n, Msgs[s].fixed \div 16, Has(Msgs[s].fixed, ACK_TYPE))
<1>1. Has(Msgs[s].fixed, 8)
  BY FixedBytes
<1>2. /\ At(m, 1).v \div 16 = Msgs[s].fixed \div 16 /\ At(m, 2).v # 0
      /\ Has(At(m, 1).v, ACK_TYPE) = Has(Msgs[s].fixed, ACK_TYPE) /\ Has(At(m, 1).v, HAS_PAYLOAD)
  BY <1>1 DEF HeadOf, ACK_TYPE, HAS_PAYLOAD
<1>3. QED
  BY <1>2 DEF Parse, Heading, Contents

\* What is printed of the payload of connect.
LEMMA connect_Contents ==
  ASSUME NEW m, NEW n
  PROVE  Contents(m, n, 1, FALSE) = Read("connect", m) \cup Rest("connect", m, n)
<1>1. Read("connect", m) = {Shown("uid", Number(m, 0, 4))}
  <2>1. Where["connect"] = {<<"uid", 0, 4>>}
    BY DEF Where
  <2>2. QED
    BY <2>1 DEF Read
<1>2. Rest("connect", m, n) = {Str("token", m, 4)}
  BY DEF Rest
<1>3. Contents(m, n, 1, FALSE) = parse_connect(m)
  BY DEF Contents
<1>4. parse_connect(m) = {Shown("uid", Number(m, 0, 4))} \cup {Str("token", m, 4)}
  BY DEF parse_connect
<1>5. QED
  BY <1>1, <1>2, <1>3, <1>4

\* What is printed of the payload of ping.
LEMMA ping_Contents ==
  ASSUME NEW m, NEW n
  PROVE  Contents(m, n, 2, FALSE) = Read("ping", m) \cup Rest("ping", m, n)
<1>1. Read("ping", m) = {Shown("heart_interval", Number(m, 0, 2))}
  <2>1. Where["ping"] = {<<"heart_interval", 0, 2>>}
    BY DEF Where
  <2>2. QED
    BY <2>1 DEF Read
<1>2. Rest("ping", m, n) = {}
  BY DEF Rest
<1>3. Contents(m, n, 2, FALSE) = parse_ping(m)
  BY DEF Contents
<1>4. parse_ping(m) = {Shown("heart_interval", Number(m, 0, 2))} \cup {}
  BY DEF parse_ping
<1>5. QED
  BY <1>1, <1>2, <1>3, <1>4

\* What is printed of the payload of send_user.
LEMMA send_user_Contents ==
  ASSUME NEW m, NEW n, Value(m, 0) = 9
  PROVE  Contents(m, n, 3, FALSE) = Read("send_user", m) \cup Rest("send_user", m, n)
<1>1. Read("send_user", m) = {Shown("session_id", Number(m, 2, 4)), Shown("local_id", Number(m, 6, 4))}
  <2>1. Where["send_user"] = {<<"session_id", 2, 4>>, <<"local_id", 6, 4>>}
    BY DEF Where
  <2>2. QED
    BY <2>1 DEF Read
<1>2. Rest("send_user", m, n) = {FlagsOf(9), Wording("chat", session_type_string, Value(m, 1)), Str("body", m, 10)}
  BY DEF Rest
<1>3. Contents(m, n, 3, FALSE) = parse_send(m, FALSE)
  BY DEF Contents
<1>4. parse_send(m, FALSE) = {Shown("session_id", Number(m, 2, 4)), Shown("local_id", Number(m, 6, 4))} \cup {FlagsOf(9), Wording("chat", session_type_string, Value(m, 1)), Str("body", m, 10)}
  BY DEF parse_send, session, MSG_FLAG_IS_USERMSG, MSG_FLAG_IS_READ, Has
<1>5. QED
  BY <1>1, <1>2, <1>3, <1>4

\* What is printed of the payload of send_recvack.
LEMMA send_recvack_Contents ==
  ASSUME NEW m, NEW n, Value(m, 0) = 2
  PROVE  Contents(m, n, 3, FALSE) = Read("send_recvack", m) \cup Rest("send_recvack", m, n)
<1>1. Read("send_recvack", m) = {Shown("session_id", Number(m, 2, 4))}
  <2>1. Where["send_recvack"] = {<<"session_id", 2, 4>>}
    BY DEF Where
  <2>2. QED
    BY <2>1 DEF Read
<1>2. Rest("send_recvack", m, n) = {FlagsOf(2), Wording("chat", session_type_string, Value(m, 1))}
  BY DEF Rest
<1>3. Contents(m, n, 3, FALSE) = parse_send(m, FALSE)
  BY DEF Contents
<1>4. parse_send(m, FALSE) = {Shown("session_id", Number(m, 2, 4))} \cup {FlagsOf(2), Wording("chat", session_type_string, Value(m, 1))}
  BY DEF parse_send, session, MSG_FLAG_IS_USERMSG, MSG_FLAG_IS_READ, Has
<1>5. QED
  BY <1>1, <1>2, <1>3, <1>4

\* What is printed of the payload of send_readack.
LEMMA send_readack_Contents ==
  ASSUME NEW m, NEW n, Value(m, 0) = 6
  PROVE  Contents(m, n, 3, FALSE) = Read("send_readack", m) \cup Rest("send_readack", m, n)
<1>1. Read("send_readack", m) = {Shown("session_id", Number(m, 2, 4)), Shown("ack_msg_id", Number(m, 6, 8))}
  <2>1. Where["send_readack"] = {<<"session_id", 2, 4>>, <<"ack_msg_id", 6, 8>>}
    BY DEF Where
  <2>2. QED
    BY <2>1 DEF Read
<1>2. Rest("send_readack", m, n) = {FlagsOf(6), Wording("chat", session_type_string, Value(m, 1))}
  BY DEF Rest
<1>3. Contents(m, n, 3, FALSE) = parse_send(m, FALSE)
  BY DEF Contents
<1>4. parse_send(m, FALSE) = {Shown("session_id", Number(m, 2, 4)), Shown("ack_msg_id", Number(m, 6, 8))} \cup {FlagsOf(6), Wording("chat", session_type_string, Value(m, 1))}
  BY DEF parse_send, session, MSG_FLAG_IS_USERMSG, MSG_FLAG_IS_READ, Has
<1>5. QED
  BY <1>1, <1>2, <1>3, <1>4

\* What is printed of the payload of send_ack.
LEMMA send_ack_Contents ==
  ASSUME NEW m, NEW n, Value(m, 0) = 13
  PROVE  Contents(m, n, 3, TRUE) = Read("send_ack", m) \cup Rest("send_ack", m, n)
<1>1. Read("send_ack", m) = {Shown("local_id", Number(m, 1, 4)), Shown("msg_timestamp", Number(m, 5, 4))}
  <2>1. Where["send_ack"] = {<<"local_id", 1, 4>>, <<"msg_timestamp", 5, 4>>}
    BY DEF Where
  <2>2. QED
    BY <2>1 DEF Read
<1>2. Rest("send_ack", m, n) = {FlagsOf(13), Told("code", 13)}
  BY DEF Rest
<1>3. Contents(m, n, 3, TRUE) = parse_send(m, TRUE)
  BY DEF Contents
<1>4. parse_send(m, TRUE) = {Shown("local_id", Number(m, 1, 4)), Shown("msg_timestamp", Number(m, 5, 4))} \cup {FlagsOf(13), Told("code", 13)}
  BY DEF parse_send
<1>5. QED
  BY <1>1, <1>2, <1>3, <1>4

\* What is printed of the payload of push_user.
LEMMA push_user_Contents ==
  ASSUME NEW m, NEW n, Value(m, 0) = 8
  PROVE  Contents(m, n, 4, FALSE) = Read("push_user", m) \cup Rest("push_user", m, n)
<1>1. Read("push_user", m) = {Shown("session_id", Number(m, 2, 4)), Shown("msg_id", Number(m, 6, 8)), Shown("msg_timestamp", Number(m, 14, 4)), Shown("distance", Number(m, 18, 4))}
  <2>1. Where["push_user"] = {<<"session_id", 2, 4>>, <<"msg_id", 6, 8>>, <<"msg_timestamp", 14, 4>>, <<"distance", 18, 4>>}
    BY DEF Where
  <2>2. QED
    BY <2>1 DEF Read
<1>2. Rest("push_user", m, n) = {FlagsOf(8), Wording("chat", session_type_string, Value(m, 1)), Str("body", m, 20)}
  BY DEF Rest
<1>3. Contents(m, n, 4, FALSE) = parse_push(m)
  BY DEF Contents
<1>4. parse_push(m) = {Shown("session_id", Number(m, 2, 4)), Shown("msg_id", Number(m, 6, 8)), Shown("msg_timestamp", Number(m, 14, 4)), Shown("distance", Number(m, 18, 4))} \cup {FlagsOf(8), Wording("chat", session_type_string, Value(m, 1)), Str("body", m, 20)}
  BY DEF parse_push, session, MSG_FLAG_IS_USERMSG, Has
<1>5. QED
  BY <1>1, <1>2, <1>3, <1>4

\* What is printed of the payload of push_readack.
LEMMA push_readack_Contents ==
  ASSUME NEW m, NEW n, Value(m, 0) = 6
  PROVE  Contents(m, n, 4, FALSE) = Read("push_readack", m) \cup Rest("push_readack", m, n)
<1>1. Read("push_readack", m) = {Shown("session_id", Number(m, 2, 4)), Shown("msg_id", Number(m, 6, 8))}
  <2>1. Where["push_readack"] = {<<"session_id", 2, 4>>, <<"msg_id", 6, 8>>}
    BY DEF Where
  <2>2. QED
    BY <2>1 DEF Read
<1>2. Rest("push_readack", m, n) = {FlagsOf(6), Wording("chat", session_type_string, Value(m, 1))}
  BY DEF Rest
<1>3. Contents(m, n, 4, FALSE) = parse_push(m)
  BY DEF Contents
<1>4. parse_push(m) = {Shown("session_id", Number(m, 2, 4)), Shown("msg_id", Number(m, 6, 8))} \cup {FlagsOf(6), Wording("chat", session_type_string, Value(m, 1))}
  BY DEF parse_push, session, MSG_FLAG_IS_USERMSG, Has
<1>5. QED
  BY <1>1, <1>2, <1>3, <1>4

\* What is printed of the payload of delete_all.
LEMMA delete_all_Contents ==
  ASSUME NEW m, NEW n, Value(m, 0) = 16
  PROVE  Contents(m, n, 6, FALSE) = Read("delete_all", m) \cup Rest("delete_all", m, n)
<1>1. Read("delete_all", m) = {Shown("local_id", Number(m, 1, 4))}
  <2>1. Where["delete_all"] = {<<"local_id", 1, 4>>}
    BY DEF Where
  <2>2. QED
    BY <2>1 DEF Read
<1>2. Rest("delete_all", m, n) = {Wording("description", delete_type_string, 1), Told("completely", Has(16, 1))}
  BY DEF Rest
<1>3. Contents(m, n, 6, FALSE) = parse_delete(m, FALSE)
  BY DEF Contents
<1>4. parse_delete(m, FALSE) = {Shown("local_id", Number(m, 1, 4))} \cup {Wording("description", delete_type_string, 1), Told("completely", Has(16, 1))}
  BY DEF parse_delete, session
<1>5. QED
  BY <1>1, <1>2, <1>3, <1>4

\* What is printed of the payload of delete_session.
LEMMA delete_session_Contents ==
  ASSUME NEW m, NEW n, Value(m, 0) = 33
  PROVE  Contents(m, n, 6, FALSE) = Read("delete_session", m) \cup Rest("delete_session", m, n)
<1>1. Read("delete_session", m) = {Shown("local_id", Number(m, 1, 4)), Shown("session_id", Number(m, 6, 4))}
  <2>1. Where["delete_session"] = {<<"local_id", 1, 4>>, <<"session_id", 6, 4>>}
    BY DEF Where
  <2>2. QED
    BY <2>1 DEF Read
<1>2. Rest("delete_session", m, n) = {Wording("description", delete_type_string, 2), Told("completely", Has(33, 1)), Wording("chat", session_type_string, Value(m, 5))}
  BY DEF Rest
<1>3. Contents(m, n, 6, FALSE) = parse_delete(m, FALSE)
  BY DEF Contents
<1>4. parse_delete(m, FALSE) = {Shown("local_id", Number(m, 1, 4)), Shown("session_id", Number(m, 6, 4))} \cup {Wording("description", delete_type_string, 2), Told("completely", Has(33, 1)), Wording("chat", session_type_string, Value(m, 5))}
  BY DEF parse_delete, session
<1>5. QED
  BY <1>1, <1>2, <1>3, <1>4

\* What is printed of the payload of delete_message.
LEMMA delete_message_Contents ==
  ASSUME NEW m, NEW n, Value(m, 0) = 48
  PROVE  Contents(m, n, 6, FALSE) = Read("delete_message", m) \cup Rest("delete_message", m, n)
<1>1. Read("delete_message", m) = {Shown("local_id", Number(m, 1, 4)), Shown("session_id", Number(m, 6, 4)), Shown("message_id", Number(m, 10, 8))}
  <2>1. Where["delete_message"] = {<<"local_id", 1, 4>>, <<"session_id", 6, 4>>, <<"message_id", 10, 8>>}
    BY DEF Where
  <2>2. QED
    BY <2>1 DEF Read
<1>2. Rest("delete_message", m, n) = {Wording("description", delete_type_string, 3), Told("completely", Has(48, 1)), Wording("chat", session_type_string, Value(m, 5))}
  BY DEF Rest
<1>3. Contents(m, n, 6, FALSE) = parse_delete(m, FALSE)
  BY DEF Contents
<1>4. parse_delete(m, FALSE) = {Shown("local_id", Number(m, 1, 4)), Shown("session_id", Number(m, 6, 4)), Shown("message_id", Number(m, 10, 8))} \cup {Wording("description", delete_type_string, 3), Told("completely", Has(48, 1)), Wording("chat", session_type_string, Value(m, 5))}
  BY DEF parse_delete, session
<1>5. QED
  BY <1>1, <1>2, <1>3, <1>4

\* What is printed of the payload of delete_ack.
LEMMA delete_ack_Contents ==
  ASSUME NEW m, NEW n, Value(m, 0) = 255
  PROVE  Contents(m, n, 6, TRUE) = Read("delete_ack", m) \cup Rest("delete_ack", m, n)
<1>1. Read("delete_ack", m) = {Shown("local_id", Number(m, 1, 4))}
  <2>1. Where["delete_ack"] = {<<"local_id", 1, 4>>}
    BY DEF Where
  <2>2. QED
    BY <2>1 DEF Read
<1>2. Rest("delete_ack", m, n) = {Told("code", 255), Wording("description", delete_error, 255)}
  BY DEF Rest
<1>3. Contents(m, n, 6, TRUE) = parse_delete(m, TRUE)
  BY DEF Contents
<1>4. parse_delete(m, TRUE) = {Shown("local_id", Number(m, 1, 4))} \cup {Told("code", 255), Wording("description", delete_error, 255)}
  BY DEF parse_delete, session
<1>5. QED
  BY <1>1, <1>2, <1>3, <1>4

\* What is printed of the payload of req.
LEMMA req_Contents ==
  ASSUME NEW m, NEW n, Value(m, 0) = 2
  PROVE  Contents(m, n, 7, FALSE) = Read("req", m) \cup Rest("req", m, n)
<1>1. Read("req", m) = {Shown("local_id", Number(m, 1, 4))}
  <2>1. Where["req"] = {<<"local_id", 1, 4>>}
    BY DEF Where
  <2>2. QED
    BY <2>1 DEF Read
<1>2. Rest("req", m, n) = {Told("request", 1), Str("msgpack", m, 5)}
  BY DEF Rest
<1>3. Contents(m, n, 7, FALSE) = parse_req(m, FALSE)
  BY DEF Contents
<1>4. parse_req(m, FALSE) = {Shown("local_id", Number(m, 1, 4))} \cup {Told("request", 1), Str("msgpack", m, 5)}
  BY DEF parse_req, MINUSONE
<1>5. QED
  BY <1>1, <1>2, <1>3, <1>4

\* What is printed of the payload of req_ack.
LEMMA req_ack_Contents ==
  ASSUME NEW m, NEW n, Value(m, 0) = 1
  PROVE  Contents(m, n, 7, TRUE) = Read("req_ack", m) \cup Rest("req_ack", m, n)
<1>1. Read("req_ack", m) = {Shown("local_id", Number(m, 1, 4))}
  <2>1. Where["req_ack"] = {<<"local_id", 1, 4>>}
    BY DEF Where
  <2>2. QED
    BY <2>1 DEF Read
<1>2. Rest("req_ack", m, n) = {Told("description", "succeeded"), Str("msgpack", m, 5)}
  BY DEF Rest
<1>3. Contents(m, n, 7, TRUE) = parse_req(m, TRUE)
  BY DEF Contents
<1>4. parse_req(m, TRUE) = {Shown("local_id", Number(m, 1, 4))} \cup {Told("description", "succeeded"), Str("msgpack", m, 5)}
  BY DEF parse_req, MINUSONE
<1>5. QED
  BY <1>1, <1>2, <1>3, <1>4

\* What is printed of the payload of sync_new.
LEMMA sync_new_Contents ==
  ASSUME NEW m, NEW n, Value(m, 0) = 3
  PROVE  Contents(m, n, 5, FALSE) = Read("sync_new", m) \cup Rest("sync_new", m, n)
<1>1. Read("sync_new", m) = {Shown("local_id", Number(m, 1, 4)), Shown("sync_local_id", Number(m, 5, 4))}
  <2>1. Where["sync_new"] = {<<"local_id", 1, 4>>, <<"sync_local_id", 5, 4>>}
    BY DEF Where
  <2>2. QED
    BY <2>1 DEF Read
<1>2. Rest("sync_new", m, n) = {Wording("description", sync_type_string, 2)}
  BY DEF Rest
<1>3. Contents(m, n, 5, FALSE) = parse_sync(m, FALSE, n)
  BY DEF Contents
<1>4. parse_sync(m, FALSE, n) = {Shown("local_id", Number(m, 1, 4)), Shown("sync_local_id", Number(m, 5, 4))} \cup {Wording("description", sync_type_string, 2)}
  BY DEF parse_sync, session, MINUSONE
<1>5. QED
  BY <1>1, <1>2, <1>3, <1>4

\* What is printed of the payload of sync_session.
LEMMA sync_session_Contents ==
  ASSUME NEW m, NEW n, Value(m, 0) = 4
  PROVE  Contents(m, n, 5, FALSE) = Read("sync_session", m) \cup Rest("sync_session", m, n)
<1>1. Read("sync_session", m) = {Shown("local_id", Number(m, 1, 4)), Shown("session_id", Number(m, 6, 4)), Shown("start_message_id", Number(m, 10, 8)), Shown("end_message_id", Number(m, 18, 8))}
  <2>1. Where["sync_session"] = {<<"local_id", 1, 4>>, <<"session_id", 6, 4>>, <<"start_message_id", 10, 8>>, <<"end_message_id", 18, 8>>}
    BY DEF Where
  <2>2. QED
    BY <2>1 DEF Read
<1>2. Rest("sync_session", m, n) = {Wording("description", sync_type_string, 3), Wording("chat", session_type_string, Value(m, 5))}
  BY DEF Rest
<1>3. Contents(m, n, 5, FALSE) = parse_sync(m, FALSE, n)
  BY DEF Contents
<1>4. parse_sync(m, FALSE, n) = {Shown("local_id", Number(m, 1, 4)), Shown("session_id", Number(m, 6, 4)), Shown("start_message_id", Number(m, 10, 8)), Shown("end_message_id", Number(m, 18, 8))} \cup {Wording("description", sync_type_string, 3), Wording("chat", session_type_string, Value(m, 5))}
  BY DEF parse_sync, session, MINUSONE
<1>5. QED
  BY <1>1, <1>2, <1>3, <1>4

\* What is printed of the payload of sync_last.
LEMMA sync_last_Contents ==
  ASSUME NEW m, NEW n, Value(m, 0) = 5
  PROVE  Contents(m, n, 5, FALSE) = Read("sync_last", m) \cup Rest("sync_last", m, n)
<1>1. Read("sync_last", m) = {Shown("local_id", Number(m, 1, 4)), Shown("session_id", Number(m, 6, 4))}
  <2>1. Where["sync_last"] = {<<"local_id", 1, 4>>, <<"session_id", 6, 4>>}
    BY DEF Where
  <2>2. QED
    BY <2>1 DEF Read
<1>2. Rest("sync_last", m, n) = {Wording("description", sync_type_string, 4), Wording("chat", session_type_string, Value(m, 5))}
  BY DEF Rest
<1>3. Contents(m, n, 5, FALSE) = parse_sync(m, FALSE, n)
  BY DEF Contents
<1>4. parse_sync(m, FALSE, n) = {Shown("local_id", Number(m, 1, 4)), Shown("session_id", Number(m, 6, 4))} \cup {Wording("description", sync_type_string, 4), Wording("chat", session_type_string, Value(m, 5))}
  BY DEF parse_sync, session, MINUSONE
<1>5. QED
  BY <1>1, <1>2, <1>3, <1>4

\* What is printed of the payload of sync_ack.
LEMMA sync_ack_Contents ==
  ASSUME NEW m, NEW n, Value(m, 0) = 1
  PROVE  Contents(m, n, 5, TRUE) = Read("sync_ack", m) \cup Rest("sync_ack", m, n)
<1>1. Read("sync_ack", m) = {Shown("local_id", Number(m, 1, 4)), Shown("sync_local_id", Number(m, 6, 4))}
  <2>1. Where["sync_ack"] = {<<"local_id", 1, 4>>, <<"sync_local_id", 6, 4>>}
    BY DEF Where
  <2>2. QED
    BY <2>1 DEF Read
<1>2. Rest("sync_ack", m, n) = {Wording("description", sync_ack_error, 0)} \cup PackedBodies(m, 10, n)
  BY DEF Rest
<1>3. Contents(m, n, 5, TRUE) = parse_sync(m, TRUE, n)
  BY DEF Contents
<1>4. parse_sync(m, TRUE, n) = {Shown("local_id", Number(m, 1, 4)), Shown("sync_local_id", Number(m, 6, 4))} \cup {Wording("description", sync_ack_error, 0)} \cup PackedBodies(m, 10, n)
  BY DEF parse_sync, session, MINUSONE
<1>5. QED
  BY <1>1, <1>2, <1>3, <1>4

\* What is printed of the payload of disconnect.
LEMMA disconnect_Contents ==
  ASSUME NEW m, NEW n, Value(m, 0) = 5
  PROVE  Contents(m, n, 14, FALSE) = Read("disconnect", m) \cup Rest("disconnect", m, n)
<1>1. Read("disconnect", m) = {}
  <2>1. Where["disconnect"] = {}
    BY DEF Where
  <2>2. QED
    BY <2>1 DEF Read
<1>2. Rest("disconnect", m, n) = {Told("description", "logged in elsewhere")}
  BY DEF Rest
<1>3. Contents(m, n, 14, FALSE) = parse_disconnect(m)
  BY DEF Contents
<1>4. parse_disconnect(m) = {} \cup {Told("description", "logged in elsewhere")}
  BY DEF parse_disconnect
<1>5. QED
  BY <1>1, <1>2, <1>3, <1>4

-----------------------------------------------------------------------------
(* The walk along the messages packed in a SYNC-ACK. *)

\* Every place can be read, behind the last cell as 0.
LEMMA AtCell ==
  ASSUME NEW m \in Row, NEW p \in Int
  PROVE  /\ At(m, p).v \in 0..255
         /\ p \in 1..Len(m) => At(m, p) = m[p]
         /\ p > Len(m) => At(m, p) = Nul
<1>1. DOMAIN m = 1..Len(m) /\ Len(m) \in Nat
  BY RowCells
<1>2. p \in 1..Len(m) => m[p].v \in 0..255
  BY RowCells
<1>3. QED
  BY <1>1, <1>2, NulRow DEF At

\* A declared length that the parser goes on with is a number.
LEMMA LengthRange ==
  ASSUME NEW m \in Row, NEW o \in Int
  PROVE  LengthAt(m, o) \in Int
<1>1. o + 2 \in Int /\ o + 3 \in Int
  OBVIOUS
<1>2. \A q \in Int : At(m, q).v \in 0..255
  BY AtCell
<1>3. Value(m, o + 2) \in 0..255 /\ Value(m, o + 3) \in 0..255
  BY <1>1, <1>2 DEF Value
<1>4. PICK a \in Int : a = Value(m, o + 2) - 1
  <2>1. PICK v \in 0..255 : v = Value(m, o + 2)
    BY <1>3
  <2>2. v - 1 \in Int
    OBVIOUS
  <2>3. QED
    BY <2>1, <2>2
<1>5. PICK b \in Int : b = Value(m, o + 3) - 1
  <2>1. PICK v \in 0..255 : v = Value(m, o + 3)
    BY <1>3
  <2>2. v - 1 \in Int
    OBVIOUS
  <2>3. QED
    BY <2>1, <2>2
<1>6. LengthAt(m, o) = a * 256 + b \/ LengthAt(m, o) = -1
  BY <1>4, <1>5 DEF LengthAt
<1>7. a * 256 + b \in Int
  OBVIOUS
<1>8. QED
  BY <1>6, <1>7

\* A step of the walk looks at what follows from a later place only.
LEMMA StepAhead ==
  ASSUME NEW m \in Row, NEW start \in Nat, NEW n, NEW o \in Nat, NEW f, NEW g,
         \A q \in (o + 1)..BUFFER_SIZE : f[q] = g[q]
  PROVE  BodiesFrom(m, start, n, o, f) = BodiesFrom(m, start, n, o, g)
<1> DEFINE length == LengthAt(m, o + 2)
<1>1. length \in Int
  <2>1. o + 2 \in Int
    OBVIOUS
  <2>2. QED
    BY <2>1, LengthRange
<1> HIDE DEF length
<1>2. BUFFER_SIZE \in Nat
  BY MessagesAssumption
<1>3. ~(length < 22 \/ 6 + o + 6 + length >= BUFFER_SIZE) => o + 6 + length \in (o + 1)..BUFFER_SIZE
  BY <1>1, <1>2
<1>4. QED
  BY <1>3 DEF BodiesFrom, length

\* f is the walk from every place behind start.
IsWalk(f, m, start, n) == f = [o \in start..BUFFER_SIZE |-> BodiesFrom(m, start, n, o, f)]

\* There is a walk from every place on.
LEMMA WalkFrom ==
  ASSUME NEW m \in Row, NEW start \in Nat, NEW n, start <= BUFFER_SIZE
  PROVE  \E f : IsWalk(f, m, start, n)
<1> DEFINE Defined(k) == \E f : f = [o \in (BUFFER_SIZE - k)..BUFFER_SIZE |-> BodiesFrom(m, start, n, o, f)]
           last == BUFFER_SIZE - start
           bad == {k \in 0..last : ~Defined(k)}
<1>1. BUFFER_SIZE \in Nat /\ last \in Nat
  BY MessagesAssumption
<1>2. Defined(0)
  <2> DEFINE f == [o \in (BUFFER_SIZE - 0)..BUFFER_SIZE |-> BodiesFrom(m, start, n, o, <<>>)]
  <2>1. \A o \in (BUFFER_SIZE - 0)..BUFFER_SIZE : BodiesFrom(m, start, n, o, <<>>) = BodiesFrom(m, start, n, o, f)
    <3> HIDE DEF f
    <3>1. TAKE o \in (BUFFER_SIZE - 0)..BUFFER_SIZE
    <3>2. o = BUFFER_SIZE
      BY <1>1
    <3>3. \A q \in (o + 1)..BUFFER_SIZE : <<>>[q] = f[q]
      BY <1>1, <3>2
    <3>4. QED
      BY <1>1, <3>2, <3>3, StepAhead
  <2>2. f = [o \in (BUFFER_SIZE - 0)..BUFFER_SIZE |-> BodiesFrom(m, start, n, o, f)]
    BY <2>1
  <2>3. QED
    BY <2>2
<1>3. ASSUME NEW k \in Nat, k < last, Defined(k) PROVE Defined(k + 1)
  <2> DEFINE lo == BUFFER_SIZE - (k + 1)
  <2>1. PICK f : f = [o \in (BUFFER_SIZE - k)..BUFFER_SIZE |-> BodiesFrom(m, start, n, o, f)]
    BY <1>3
  <2> DEFINE g == [o \in lo..BUFFER_SIZE |-> IF o = lo THEN BodiesFrom(m, start, n, lo, f) ELSE f[o]]
  <2>2. lo \in Nat /\ BUFFER_SIZE - k = lo + 1 /\ lo <= BUFFER_SIZE
    BY <1>1, <1>3
  <2>3. \A q \in (lo + 1)..BUFFER_SIZE : f[q] = BodiesFrom(m, start, n, q, f)
    BY <2>1, <2>2
  <2>4. \A q \in (lo + 1)..BUFFER_SIZE : f[q] = g[q]
    BY <1>1, <2>2
  <2>5. g[lo] = BodiesFrom(m, start, n, lo, f) /\ DOMAIN g = lo..BUFFER_SIZE
    BY <1>1, <2>2
  <2>6. g = [o \in lo..BUFFER_SIZE |-> g[o]]
    OBVIOUS
  <2> HIDE DEF g, lo
  <2>7. ASSUME NEW o \in lo..BUFFER_SIZE PROVE g[o] = BodiesFrom(m, start, n, o, g)
    <3>1. o \in Nat /\ \A q \in (o + 1)..BUFFER_SIZE : f[q] = g[q]
      BY <1>1, <2>2, <2>4
    <3>2. BodiesFrom(m, start, n, o, f) = BodiesFrom(m, start, n, o, g)
      BY <3>1, StepAhead
    <3>3. g[o] = BodiesFrom(m, start, n, o, f)
      BY <1>1, <2>2, <2>3, <2>4, <2>5
    <3>4. QED
      BY <3>2, <3>3
  <2>8. g = [o \in lo..BUFFER_SIZE |-> BodiesFrom(m, start, n, o, g)]
    BY <2>6, <2>7
  <2>9. QED
    BY <2>8 DEF lo
<1> HIDE DEF Defined
<1>4. bad = {}
  <2> SUFFICES ASSUME bad # {} PROVE FALSE
    OBVIOUS
  <2>1. bad \in SUBSET Nat
    BY <1>1
  <2>2. PICK k \in bad : \A j \in bad : k <= j
    BY <2>1, LeastOf
  <2>3. k \in 0..last /\ ~Defined(k) /\ k # 0
    BY <1>2, <2>2
  <2>4. PICK j \in Nat : k = j + 1 /\ j < last
    <3>1. k - 1 \in Nat /\ k = (k - 1) + 1 /\ k - 1 < last
      BY <1>1, <2>3
    <3>2. QED
      BY <3>1
  <2>5. Defined(j)
    <3>1. j \notin bad
      BY <2>2, <2>4
    <3>2. QED
      BY <1>1, <2>4, <3>1
  <2>6. QED
    BY <1>3, <2>3, <2>4, <2>5
<1>5. Defined(last) /\ BUFFER_SIZE - last = start
  BY <1>1, <1>4
<1>6. QED
  BY <1>5 DEF Defined, IsWalk

\* The walk from its start on.
LEMMA WalkOf ==
  ASSUME NEW m \in Row, NEW start \in Nat, NEW n, start <= BUFFER_SIZE
  PROVE  \E f : IsWalk(f, m, start, n) /\ PackedBodies(m, start, n) = f[start]
<1> DEFINE w == CHOOSE f : IsWalk(f, m, start, n)
<1>1. IsWalk(w, m, start, n)
  <2>1. \E f : IsWalk(f, m, start, n)
    BY WalkFrom
  <2>2. QED
    BY <2>1, Zenon
<1>2. PackedBodies(m, start, n) = w[start]
  BY DEF PackedBodies, IsWalk
<1>3. QED
  BY <1>1, <1>2

\* It prints texts, or leaves the buffer.
LEMMA WalkTags ==
  ASSUME NEW m \in Row, NEW start \in Nat, NEW n, start <= BUFFER_SIZE
  PROVE  \A y \in PackedBodies(m, start, n) : y = UNDEFINED \/ y[1] = "body"
<1>1. PICK f : IsWalk(f, m, start, n) /\ PackedBodies(m, start, n) = f[start]
  BY WalkOf
<1> DEFINE Fair(k) == \A o \in start..BUFFER_SIZE : BUFFER_SIZE - o < k =>
                        \A y \in f[o] : y = UNDEFINED \/ y[1] = "body"
           bad == {k \in Nat : ~Fair(k)}
<1>2. BUFFER_SIZE \in Nat
  BY MessagesAssumption
<1>3. \A o \in start..BUFFER_SIZE : f[o] = BodiesFrom(m, start, n, o, f)
  BY <1>1 DEF IsWalk
<1>4. ASSUME NEW k \in Nat, Fair(k) PROVE Fair(k + 1)
  <2>1. SUFFICES ASSUME NEW o \in start..BUFFER_SIZE, BUFFER_SIZE - o < k + 1, NEW y \in f[o]
                 PROVE  y = UNDEFINED \/ y[1] = "body"
    OBVIOUS
  <2> DEFINE length == LengthAt(m, o + 2)
             cells == PackedBody(m, o + 28, length - 22, IF o = start THEN Junk(n) ELSE <<>>)
  <2>2. o \in Nat /\ o + 2 \in Int
    BY <1>2
  <2>3. length \in Int
    BY <2>2, LengthRange
  <2>4. \/ y = UNDEFINED
        \/ y = <<"body", o, cells>>
        \/ ~(length < 22 \/ 6 + o + 6 + length >= BUFFER_SIZE) /\ y \in f[o + 6 + length]
    BY <1>3 DEF BodiesFrom
  <2> HIDE DEF length, cells
  <2>5. CASE ~(length < 22 \/ 6 + o + 6 + length >= BUFFER_SIZE) /\ y \in f[o + 6 + length]
    <3>1. o + 6 + length \in start..BUFFER_SIZE /\ BUFFER_SIZE - (o + 6 + length) < k
      BY <1>2, <2>1, <2>2, <2>3, <2>5
    <3>2. QED
      BY <1>4, <2>5, <3>1
  <2>6. QED
    BY <2>4, <2>5
<1>5. Fair(0)
  BY <1>2
<1> HIDE DEF Fair
<1>6. bad = {}
  <2> SUFFICES ASSUME bad # {} PROVE FALSE
    OBVIOUS
  <2>1. bad \in SUBSET Nat
    OBVIOUS
  <2>2. PICK k \in bad : \A j \in bad : k <= j
    BY <2>1, LeastOf
  <2>3. k \in Nat /\ ~Fair(k) /\ k # 0
    BY <1>5, <2>2
  <2>4. PICK j \in Nat : k = j + 1
    <3>1. k - 1 \in Nat /\ k = (k - 1) + 1
      BY <2>3
    <3>2. QED
      BY <3>1
  <2>5. Fair(j)
    <3>1. j \notin bad
      BY <2>2, <2>4
    <3>2. QED
      BY <3>1
  <2>6. QED
    BY <1>4, <2>3, <2>4, <2>5
<1>7. Fair(BUFFER_SIZE + 1)
  <2>1. BUFFER_SIZE + 1 \in Nat
    BY <1>2
  <2>2. QED
    BY <1>6, <2>1
<1>8. start \in start..BUFFER_SIZE /\ BUFFER_SIZE - start < BUFFER_SIZE + 1
  BY <1>2
<1>9. QED
  BY <1>1, <1>7, <1>8 DEF Fair

-----------------------------------------------------------------------------
(* Everything that is printed of a message. *)

\* What is printed of a message with a payload: its first bytes, its declared length,
\* its numbers and the rest.
LEMMA ParseAs ==
  ASSUME NEW s \in Loaded, NEW m, NEW n, HeadOf(m, s), Value(m, 0) = Msgs[s].payload[1].v
  PROVE  Parse(m, n) = Heading(m) \cup {Shown("length", Number(m, -4, 4))}
                         \cup Read(s, m) \cup Rest(s, m, n)
<1> DEFINE same == Contents(m, n, Msgs[s].fixed \div 16, Has(Msgs[s].fixed, ACK_TYPE))
                     = Read(s, m) \cup Rest(s, m, n)
<1>1. ASSUME s = "connect" PROVE same
  <2>1. Msgs[s].fixed = 25
    BY <1>1, connect_Row
  <2>2. 25 \div 16 = 1 /\ Has(25, ACK_TYPE) = FALSE
    BY DEF Has, ACK_TYPE
  <2>3. Contents(m, n, 1, FALSE) = Read("connect", m) \cup Rest("connect", m, n)
    BY <2>1, connect_Contents
  <2>4. QED
    BY <1>1, <2>1, <2>2, <2>3
<1>2. ASSUME s = "ping" PROVE same
  <2>1. Msgs[s].fixed = 41
    BY <1>2, ping_Row
  <2>2. 41 \div 16 = 2 /\ Has(41, ACK_TYPE) = FALSE
    BY DEF Has, ACK_TYPE
  <2>3. Contents(m, n, 2, FALSE) = Read("ping", m) \cup Rest("ping", m, n)
    BY <2>1, ping_Contents
  <2>4. QED
    BY <1>2, <2>1, <2>2, <2>3
<1>3. ASSUME s = "send_user" PROVE same
  <2>1. Msgs[s].fixed = 57 /\ Value(m, 0) = 9
    BY <1>3, send_user_Row
  <2>2. 57 \div 16 = 3 /\ Has(57, ACK_TYPE) = FALSE
    BY DEF Has, ACK_TYPE
  <2>3. Contents(m, n, 3, FALSE) = Read("send_user", m) \cup Rest("send_user", m, n)
    BY <2>1, send_user_Contents
  <2>4. QED
    BY <1>3, <2>1, <2>2, <2>3
<1>4. ASSUME s = "send_recvack" PROVE same
  <2>1. Msgs[s].fixed = 56 /\ Value(m, 0) = 2
    BY <1>4, send_recvack_Row
  <2>2. 56 \div 16 = 3 /\ Has(56, ACK_TYPE) = FALSE
    BY DEF Has, ACK_TYPE
  <2>3. Contents(m, n, 3, FALSE) = Read("send_recvack", m) \cup Rest("send_recvack", m, n)
    BY <2>1, send_recvack_Contents
  <2>4. QED
    BY <1>4, <2>1, <2>2, <2>3
<1>5. ASSUME s = "send_readack" PROVE same
  <2>1. Msgs[s].fixed = 56 /\ Value(m, 0) = 6
    BY <1>5, send_readack_Row
  <2>2. 56 \div 16 = 3 /\ Has(56, ACK_TYPE) = FALSE
    BY DEF Has, ACK_TYPE
  <2>3. Contents(m, n, 3, FALSE) = Read("send_readack", m) \cup Rest("send_readack", m, n)
    BY <2>1, send_readack_Contents
  <2>4. QED
    BY <1>5, <2>1, <2>2, <2>3
<1>6. ASSUME s = "send_ack" PROVE same
  <2>1. Msgs[s].fixed = 58 /\ Value(m, 0) = 13
    BY <1>6, send_ack_Row
  <2>2. 58 \div 16 = 3 /\ Has(58, ACK_TYPE) = TRUE
    BY DEF Has, ACK_TYPE
  <2>3. Contents(m, n, 3, TRUE) = Read("send_ack", m) \cup Rest("send_ack", m, n)
    BY <2>1, send_ack_Contents
  <2>4. QED
    BY <1>6, <2>1, <2>2, <2>3
<1>7. ASSUME s = "push_user" PROVE same
  <2>1. Msgs[s].fixed = 72 /\ Value(m, 0) = 8
    BY <1>7, push_user_Row
  <2>2. 72 \div 16 = 4 /\ Has(72, ACK_TYPE) = FALSE
    BY DEF Has, ACK_TYPE
  <2>3. Contents(m, n, 4, FALSE) = Read("push_user", m) \cup Rest("push_user", m, n)
    BY <2>1, push_user_Contents
  <2>4. QED
    BY <1>7, <2>1, <2>2, <2>3
<1>8. ASSUME s = "push_readack" PROVE same
  <2>1. Msgs[s].fixed = 72 /\ Value(m, 0) = 6
    BY <1>8, push_readack_Row
  <2>2. 72 \div 16 = 4 /\ Has(72, ACK_TYPE) = FALSE
    BY DEF Has, ACK_TYPE
  <2>3. Contents(m, n, 4, FALSE) = Read("push_readack", m) \cup Rest("push_readack", m, n)
    BY <2>1, push_readack_Contents
  <2>4. QED
    BY <1>8, <2>1, <2>2, <2>3
<1>9. ASSUME s = "delete_all" PROVE same
  <2>1. Msgs[s].fixed = 105 /\ Value(m, 0) = 16
    BY <1>9, delete_all_Row
  <2>2. 105 \div 16 = 6 /\ Has(105, ACK_TYPE) = FALSE
    BY DEF Has, ACK_TYPE
  <2>3. Contents(m, n, 6, FALSE) = Read("delete_all", m) \cup Rest("delete_all", m, n)
    BY <2>1, delete_all_Contents
  <2>4. QED
    BY <1>9, <2>1, <2>2, <2>3
<1>10. ASSUME s = "delete_session" PROVE same
  <2>1. Msgs[s].fixed = 105 /\ Value(m, 0) = 33
    BY <1>10, delete_session_Row
  <2>2. 105 \div 16 = 6 /\ Has(105, ACK_TYPE) = FALSE
    BY DEF Has, ACK_TYPE
  <2>3. Contents(m, n, 6, FALSE) = Read("delete_session", m) \cup Rest("delete_session", m, n)
    BY <2>1, delete_session_Contents
  <2>4. QED
    BY <1>10, <2>1, <2>2, <2>3
<1>11. ASSUME s = "delete_message" PROVE same
  <2>1. Msgs[s].fixed = 105 /\ Value(m, 0) = 48
    BY <1>11, delete_message_Row
  <2>2. 105 \div 16 = 6 /\ Has(105, ACK_TYPE) = FALSE
    BY DEF Has, ACK_TYPE
  <2>3. Contents(m, n, 6, FALSE) = Read("delete_message", m) \cup Rest("delete_message", m, n)
    BY <2>1, delete_message_Contents
  <2>4. QED
    BY <1>11, <2>1, <2>2, <2>3
<1>12. ASSUME s = "delete_ack" PROVE same
  <2>1. Msgs[s].fixed = 106 /\ Value(m, 0) = 255
    BY <1>12, delete_ack_Row
  <2>2. 106 \div 16 = 6 /\ Has(106, ACK_TYPE) = TRUE
    BY DEF Has, ACK_TYPE
  <2>3. Contents(m, n, 6, TRUE) = Read("delete_ack", m) \cup Rest("delete_ack", m, n)
    BY <2>1, delete_ack_Contents
  <2>4. QED
    BY <1>12, <2>1, <2>2, <2>3
<1>13. ASSUME s = "req" PROVE same
  <2>1. Msgs[s].fixed = 121 /\ Value(m, 0) = 2
    BY <1>13, req_Row
  <2>2. 121 \div 16 = 7 /\ Has(121, ACK_TYPE) = FALSE
    BY DEF Has, ACK_TYPE
  <2>3. Contents(m, n, 7, FALSE) = Read("req", m) \cup Rest("req", m, n)
    BY <2>1, req_Contents
  <2>4. QED
    BY <1>13, <2>1, <2>2, <2>3
<1>14. ASSUME s = "req_ack" PROVE same
  <2>1. Msgs[s].fixed = 122 /\ Value(m, 0) = 1
    BY <1>14, req_ack_Row
  <2>2. 122 \div 16 = 7 /\ Has(122, ACK_TYPE) = TRUE
    BY DEF Has, ACK_TYPE
  <2>3. Contents(m, n, 7, TRUE) = Read("req_ack", m) \cup Rest("req_ack", m, n)
    BY <2>1, req_ack_Contents
  <2>4. QED
    BY <1>14, <2>1, <2>2, <2>3
<1>15. ASSUME s = "sync_new" PROVE same
  <2>1. Msgs[s].fixed = 93 /\ Value(m, 0) = 3
    BY <1>15, sync_new_Row
  <2>2. 93 \div 16 = 5 /\ Has(93, ACK_TYPE) = FALSE
    BY DEF Has, ACK_TYPE
  <2>3. Contents(m, n, 5, FALSE) = Read("sync_new", m) \cup Rest("sync_new", m, n)
    BY <2>1, sync_new_Contents
  <2>4. QED
    BY <1>15, <2>1, <2>2, <2>3
<1>16. ASSUME s = "sync_session" PROVE same
  <2>1. Msgs[s].fixed = 93 /\ Value(m, 0) = 4
    BY <1>16, sync_session_Row
  <2>2. 93 \div 16 = 5 /\ Has(93, ACK_TYPE) = FALSE
    BY DEF Has, ACK_TYPE
  <2>3. Contents(m, n, 5, FALSE) = Read("sync_session", m) \cup Rest("sync_session", m, n)
    BY <2>1, sync_session_Contents
  <2>4. QED
    BY <1>16, <2>1, <2>2, <2>3
<1>17. ASSUME s = "sync_last" PROVE same
  <2>1. Msgs[s].fixed = 93 /\ Value(m, 0) = 5
    BY <1>17, sync_last_Row
  <2>2. 93 \div 16 = 5 /\ Has(93, ACK_TYPE) = FALSE
    BY DEF Has, ACK_TYPE
  <2>3. Contents(m, n, 5, FALSE) = Read("sync_last", m) \cup Rest("sync_last", m, n)
    BY <2>1, sync_last_Contents
  <2>4. QED
    BY <1>17, <2>1, <2>2, <2>3
<1>18. ASSUME s = "sync_ack" PROVE same
  <2>1. Msgs[s].fixed = 94 /\ Value(m, 0) = 1
    BY <1>18, sync_ack_Row
  <2>2. 94 \div 16 = 5 /\ Has(94, ACK_TYPE) = TRUE
    BY DEF Has, ACK_TYPE
  <2>3. Contents(m, n, 5, TRUE) = Read("sync_ack", m) \cup Rest("sync_ack", m, n)
    BY <2>1, sync_ack_Contents
  <2>4. QED
    BY <1>18, <2>1, <2>2, <2>3
<1>19. ASSUME s = "disconnect" PROVE same
  <2>1. Msgs[s].fixed = 232 /\ Value(m, 0) = 5
    BY <1>19, disconnect_Row
  <2>2. 232 \div 16 = 14 /\ Has(232, ACK_TYPE) = FALSE
    BY DEF Has, ACK_TYPE
  <2>3. Contents(m, n, 14, FALSE) = Read("disconnect", m) \cup Rest("disconnect", m, n)
    BY <2>1, disconnect_Contents
  <2>4. QED
    BY <1>19, <2>1, <2>2, <2>3
<1>20. same
  BY <1>1, <1>2, <1>3, <1>4, <1>5, <1>6, <1>7, <1>8, <1>9, <1>10, <1>11, <1>12,
     <1>13, <1>14, <1>15, <1>16, <1>17, <1>18, <1>19, SpeciesAre DEF Loaded
<1> HIDE DEF same
<1>21. QED
  BY <1>20, ParseLoaded DEF same

\* A wording and a text are printed or they are not defined.
LEMMA TagOf ==
  /\ UNDEFINED[1] = "undefined"
  /\ \A kind, what : Told(kind, what)[1] = kind
  /\ \A name, cells : Shown(name, cells)[1] = name
  /\ \A kind, words, code : Wording(kind, words, code) \in {UNDEFINED, Told(kind, words[code])}
  /\ \A name, m, o : Str(name, m, o) = UNDEFINED \/ Str(name, m, o)[1] = name
  /\ \A flag : FlagsOf(flag)[1] = "flags"
<1>1. /\ UNDEFINED[1] = "undefined"
      /\ \A kind, what : Told(kind, what)[1] = kind
      /\ \A name, cells : Shown(name, cells)[1] = name
  BY DEF UNDEFINED, Told, Shown
<1>2. \A kind, words, code : Wording(kind, words, code) \in {UNDEFINED, Told(kind, words[code])}
  BY DEF Wording
<1>3. \A name, m, o : Str(name, m, o) = UNDEFINED \/ Str(name, m, o)[1] = name
  BY <1>1 DEF Str
<1>4. QED
  BY <1>1, <1>2, <1>3 DEF FlagsOf

\* What is printed besides the numbers is no number.
LEMMA RestTags ==
  ASSUME NEW s \in Loaded, NEW m \in Row, NEW n, s = "sync_ack" => BUFFER_SIZE >= 10
  PROVE  \A y \in Rest(s, m, n) : y = UNDEFINED \/ y[1] \in Kinds \cup Strings \cup {"completely"}
<1> DEFINE Good(y) == y = UNDEFINED \/ y[1] \in Kinds \cup Strings \cup {"completely"}
<1>1. /\ \A words, code : Good(Wording("chat", words, code)) /\ Good(Wording("description", words, code))
      /\ \A what : Good(Told("code", what)) /\ Good(Told("request", what)) /\ Good(Told("completely", what))
                   /\ Good(Told("description", what))
      /\ \A flag : Good(FlagsOf(flag))
      /\ \A o : Good(Str("token", m, o)) /\ Good(Str("body", m, o)) /\ Good(Str("msgpack", m, o))
  <2>1. /\ {"chat", "description", "code", "request", "flags"} \subseteq Kinds \cup Strings \cup {"completely"}
        /\ Strings \subseteq Kinds \cup Strings \cup {"completely"} /\ Strings = {"token", "body", "msgpack"}
    BY DEF Kinds, Strings
  <2>2. QED
    BY <2>1, TagOf
<1>2. ASSUME BUFFER_SIZE >= 10 PROVE \A y \in PackedBodies(m, 10, n) : Good(y)
  <2>1. \A y \in PackedBodies(m, 10, n) : y = UNDEFINED \/ y[1] = "body"
    BY <1>2, WalkTags
  <2>2. QED
    BY <2>1 DEF Strings
<1> HIDE DEF Good
<1>3. CASE s = "connect"
  <2>1. Rest(s, m, n) = {Str("token", m, 4)}
    BY <1>3 DEF Rest
  <2>2. \A y \in Rest(s, m, n) : Good(y)
    BY <1>1, <2>1
  <2>3. QED
    BY <2>2 DEF Good
<1>4. CASE s = "ping"
  <2>1. Rest(s, m, n) = {}
    BY <1>4 DEF Rest
  <2>2. \A y \in Rest(s, m, n) : Good(y)
    BY <1>1, <2>1
  <2>3. QED
    BY <2>2 DEF Good
<1>5. CASE s = "send_user"
  <2>1. Rest(s, m, n) = {FlagsOf(9), Wording("chat", session_type_string, Value(m, 1)), Str("body", m, 10)}
    BY <1>5 DEF Rest
  <2>2. \A y \in Rest(s, m, n) : Good(y)
    BY <1>1, <2>1
  <2>3. QED
    BY <2>2 DEF Good
<1>6. CASE s = "send_recvack"
  <2>1. Rest(s, m, n) = {FlagsOf(2), Wording("chat", session_type_string, Value(m, 1))}
    BY <1>6 DEF Rest
  <2>2. \A y \in Rest(s, m, n) : Good(y)
    BY <1>1, <2>1
  <2>3. QED
    BY <2>2 DEF Good
<1>7. CASE s = "send_readack"
  <2>1. Rest(s, m, n) = {FlagsOf(6), Wording("chat", session_type_string, Value(m, 1))}
    BY <1>7 DEF Rest
  <2>2. \A y \in Rest(s, m, n) : Good(y)
    BY <1>1, <2>1
  <2>3. QED
    BY <2>2 DEF Good
<1>8. CASE s = "send_ack"
  <2>1. Rest(s, m, n) = {FlagsOf(13), Told("code", 13)}
    BY <1>8 DEF Rest
  <2>2. \A y \in Rest(s, m, n) : Good(y)
    BY <1>1, <2>1
  <2>3. QED
    BY <2>2 DEF Good
<1>9. CASE s = "push_user"
  <2>1. Rest(s, m, n) = {FlagsOf(8), Wording("chat", session_type_string, Value(m, 1)), Str("body", m, 20)}
    BY <1>9 DEF Rest
  <2>2. \A y \in Rest(s, m, n) : Good(y)
    BY <1>1, <2>1
  <2>3. QED
    BY <2>2 DEF Good
<1>10. CASE s = "push_readack"
  <2>1. Rest(s, m, n) = {FlagsOf(6), Wording("chat", session_type_string, Value(m, 1))}
    BY <1>10 DEF Rest
  <2>2. \A y \in Rest(s, m, n) : Good(y)
    BY <1>1, <2>1
  <2>3. QED
    BY <2>2 DEF Good
<1>11. CASE s = "delete_all"
  <2>1. Rest(s, m, n) = {Wording("description", delete_type_string, 1), Told("completely", Has(16, 1))}
    BY <1>11 DEF Rest
  <2>2. \A y \in Rest(s, m, n) : Good(y)
    BY <1>1, <2>1
  <2>3. QED
    BY <2>2 DEF Good
<1>12. CASE s = "delete_session"
  <2>1. Rest(s, m, n) = {Wording("description", delete_type_string, 2), Told("completely", Has(33, 1)), Wording("chat", session_type_string, Value(m, 5))}
    BY <1>12 DEF Rest
  <2>2. \A y \in Rest(s, m, n) : Good(y)
    BY <1>1, <2>1
  <2>3. QED
    BY <2>2 DEF Good
<1>13. CASE s = "delete_message"
  <2>1. Rest(s, m, n) = {Wording("description", delete_type_string, 3), Told("completely", Has(48, 1)), Wording("chat", session_type_string, Value(m, 5))}
    BY <1>13 DEF Rest
  <2>2. \A y \in Rest(s, m, n) : Good(y)
    BY <1>1, <2>1
  <2>3. QED
    BY <2>2 DEF Good
<1>14. CASE s = "delete_ack"
  <2>1. Rest(s, m, n) = {Told("code", 255), Wording("description", delete_error, 255)}
    BY <1>14 DEF Rest
  <2>2. \A y \in Rest(s, m, n) : Good(y)
    BY <1>1, <2>1
  <2>3. QED
    BY <2>2 DEF Good
<1>15. CASE s = "req"
  <2>1. Rest(s, m, n) = {Told("request", 1), Str("msgpack", m, 5)}
    BY <1>15 DEF Rest
  <2>2. \A y \in Rest(s, m, n) : Good(y)
    BY <1>1, <2>1
  <2>3. QED
    BY <2>2 DEF Good
<1>16. CASE s = "req_ack"
  <2>1. Rest(s, m, n) = {Told("description", "succeeded"), Str("msgpack", m, 5)}
    BY <1>16 DEF Rest
  <2>2. \A y \in Rest(s, m, n) : Good(y)
    BY <1>1, <2>1
  <2>3. QED
    BY <2>2 DEF Good
<1>17. CASE s = "sync_new"
  <2>1. Rest(s, m, n) = {Wording("description", sync_type_string, 2)}
    BY <1>17 DEF Rest
  <2>2. \A y \in Rest(s, m, n) : Good(y)
    BY <1>1, <2>1
  <2>3. QED
    BY <2>2 DEF Good
<1>18. CASE s = "sync_session"
  <2>1. Rest(s, m, n) = {Wording("description", sync_type_string, 3), Wording("chat", session_type_string, Value(m, 5))}
    BY <1>18 DEF Rest
  <2>2. \A y \in Rest(s, m, n) : Good(y)
    BY <1>1, <2>1
  <2>3. QED
    BY <2>2 DEF Good
<1>19. CASE s = "sync_last"
  <2>1. Rest(s, m, n) = {Wording("description", sync_type_string, 4), Wording("chat", session_type_string, Value(m, 5))}
    BY <1>19 DEF Rest
  <2>2. \A y \in Rest(s, m, n) : Good(y)
    BY <1>1, <2>1
  <2>3. QED
    BY <2>2 DEF Good
<1>20. CASE s = "sync_ack"
  <2>1. Rest(s, m, n) = {Wording("description", sync_ack_error, 0)} \cup PackedBodies(m, 10, n)
    BY <1>20 DEF Rest
  <2>2. \A y \in Rest(s, m, n) : Good(y)
    <3>1. \A y \in PackedBodies(m, 10, n) : Good(y)
      BY <1>2, <1>20
    <3>2. Good(Wording("description", sync_ack_error, 0))
      BY <1>1
    <3>3. QED
      BY <2>1, <3>1, <3>2
  <2>3. QED
    BY <2>2 DEF Good
<1>21. CASE s = "disconnect"
  <2>1. Rest(s, m, n) = {Told("description", "logged in elsewhere")}
    BY <1>21 DEF Rest
  <2>2. \A y \in Rest(s, m, n) : Good(y)
    BY <1>1, <2>1
  <2>3. QED
    BY <2>2 DEF Good
<1>22. QED
  BY <1>3, <1>4, <1>5, <1>6, <1>7, <1>8, <1>9, <1>10, <1>11, <1>12, <1>13, <1>14,
     <1>15, <1>16, <1>17, <1>18, <1>19, <1>20, <1>21, SpeciesAre DEF Loaded

\* The numbers that are printed are those of the message.
LEMMA FiguresAs ==
  ASSUME NEW s \in Loaded, NEW m \in Row, NEW n, s = "sync_ack" => BUFFER_SIZE >= 10,
         HeadOf(m, s), Value(m, 0) = Msgs[s].payload[1].v
  PROVE  Figures(Parse(m, n)) = {Shown("length", Number(m, -4, 4))} \cup Read(s, m)
<1> DEFINE others == Kinds \cup Strings \cup {"header", "version", "completely", "undefined"}
           figures == {Shown("length", Number(m, -4, 4))} \cup Read(s, m)
           words == Heading(m) \cup Rest(s, m, n)
<1>1. Parse(m, n) = figures \cup words
  BY ParseAs
<1>2. \A y \in words : y[1] \in others
  <2>1. /\ "undefined" \in others /\ "type" \in others /\ "header" \in others /\ "version" \in others
        /\ \A t \in Kinds \cup Strings \cup {"completely"} : t \in others
    BY DEF Kinds
  <2>2. \A y \in Heading(m) : y = UNDEFINED \/ y[1] \in {"type", "header", "version"}
    BY TagOf DEF Heading
  <2> HIDE DEF others
  <2>3. QED
    BY <2>1, <2>2, RestTags, TagOf
<1>3. \A y \in figures : y[1] \notin others
  <2>1. "length" \notin others /\ \A f \in FieldNames \ Strings : f \notin others
    BY DEF Kinds, Strings, FieldNames
  <2>2. \A y \in Read(s, m) : y[1] \in FieldNames \ Strings
    <3>1. TAKE y \in Read(s, m)
    <3>2. PICK x \in Where[s] : y = Shown(x[1], Number(m, x[2], x[3]))
      BY DEF Read
    <3>3. y[1] = x[1] /\ x[1] \in FieldNames \ Unprinted(s)
      BY <3>2, WhereAre, TagOf
    <3>4. QED
      BY <3>3 DEF Unprinted
  <2> HIDE DEF others
  <2>3. QED
    BY <2>1, <2>2, TagOf
<1>4. Figures(Parse(m, n)) = {y \in Parse(m, n) : y[1] \notin others}
  BY DEF Figures
<1> HIDE DEF others, figures, words
<1>5. Figures(Parse(m, n)) = figures
  BY <1>1, <1>2, <1>3, <1>4
<1>6. QED
  BY <1>5 DEF figures

\* Only the first byte of a message depends on what its memory held before.
LEMMA BytesSame ==
  ASSUME NEW s \in Loaded, NEW g
  PROVE  /\ Len(Bytes(s, g)) = Len(Bytes(s, 0))
         /\ \A p \in 2..Len(Bytes(s, 0)) : Bytes(s, g)[p] = Bytes(s, 0)[p]
<1> DEFINE a(h) == <<Cell(s, 1, Or(h, Msgs[s].fixed))>>
           b == Byte(HERMES_VERSION)
           c == Length(Msgs[s].length)
           pl == Msgs[s].payload
           r(h) == a(h) \o b \o c \o pl
<1>1. \A h : Bytes(s, h) = r(h)
  BY DEF Bytes, Written, Loaded
<1>2. OneByte(b, 3) /\ pl \in Row /\ Len(pl) \in Nat /\ Msgs[s].length \in Nat
  BY CodeBytes, PayloadSized, RowCells DEF Sized
<1>3. Digits(c, "length", 4, Msgs[s].length)
  <2>1. "length" \in Names
    BY DEF Names
  <2>2. QED
    BY <1>2, <2>1, NumRow DEF Length
<1>4. ASSUME NEW h
      PROVE  /\ Len(r(h)) = 6 + Len(pl)
             /\ r(h)[2] = b[1] /\ \A p \in 3..6 : r(h)[p] = c[p - 2]
             /\ \A p \in 7..(6 + Len(pl)) : r(h)[p] = pl[p - 6]
  <2>1. a(h) \in Row /\ Len(a(h)) = 1
    <3>1. s \in Names /\ Or(h, Msgs[s].fixed) \in 0..255
      BY OrRange DEF Names, Loaded
    <3>2. QED
      BY <3>1 DEF Cell, CellType, Row
  <2> HIDE DEF a, b, c, pl
  <2>2. Stack4(r(h), a(h), b, c, pl)
    BY <1>2, <1>3, <2>1, Rows4 DEF OneByte, Digits
  <2> HIDE DEF r
  <2>3. /\ Len(b) = 1 /\ Len(c) = 4 /\ Len(r(h)) = 6 + Len(pl)
        /\ Follows(r(h), 1, b) /\ Follows(r(h), 2, c) /\ Follows(r(h), 6, pl)
    BY <1>2, <1>3, <2>1, <2>2 DEF Stack4, OneByte, Digits
  <2>4. r(h)[2] = b[1]
    BY <2>3 DEF Follows
  <2>5. \A p \in 3..6 : r(h)[p] = c[p - 2]
    BY <2>3 DEF Follows
  <2>6. \A p \in 7..(6 + Len(pl)) : r(h)[p] = pl[p - 6]
    BY <1>2, <2>3 DEF Follows
  <2>7. QED
    BY <2>3, <2>4, <2>5, <2>6
<1> HIDE DEF r, b, c, pl
<1>5. /\ Len(r(g)) = 6 + Len(pl) /\ Len(r(0)) = 6 + Len(pl)
      /\ r(g)[2] = r(0)[2] /\ \A p \in 3..6 : r(g)[p] = r(0)[p]
      /\ \A p \in 7..(6 + Len(pl)) : r(g)[p] = r(0)[p]
  BY <1>4
<1>6. \A p \in 2..(6 + Len(pl)) : r(g)[p] = r(0)[p]
  BY <1>2, <1>5
<1>7. QED
  BY <1>1, <1>5, <1>6

\* A number that has arrived is read as it was built.
LEMMA NumberAs ==
  ASSUME NEW s \in Loaded, NEW x \in Shows(s), NEW m \in Row, NEW g,
         6 + x[2] + x[3] <= Len(m),
         \A p \in 1..(6 + x[2] + x[3]) : m[p] = Bytes(s, g)[p]
  PROVE  Number(m, x[2], x[3]) = Cells(s, x[1])
<1>1. PICK o \in Int, w \in Nat \ {0} :
        /\ o = x[2] /\ w = x[3] /\ o >= -4 /\ 6 + o + w <= Own(s)
        /\ Cells(s, x[1]) = Part(Bytes(s, 0), o, w)
  BY PlacesAre
<1>2. s \in Species
  BY DEF Loaded
<1>3. Own(s) <= Len(Bytes(s, 0)) /\ Own(s) \in Nat /\ Len(Bytes(s, 0)) \in Nat /\ Len(m) \in Nat
  BY <1>2, OwnRow, BytesRow, RowCells
<1>4. ASSUME NEW i \in 1..w PROVE At(m, 6 + o + i) = Bytes(s, 0)[6 + o + i]
  <2>1. PICK p \in Int : p = 6 + o + i
    OBVIOUS
  <2>2. p \in 1..Len(m) /\ p \in 2..Len(Bytes(s, 0)) /\ p \in 1..(6 + x[2] + x[3])
    BY <1>1, <1>3, <2>1
  <2>3. At(m, p) = m[p] /\ m[p] = Bytes(s, g)[p] /\ Bytes(s, g)[p] = Bytes(s, 0)[p]
    BY <2>2, AtCell, BytesSame
  <2>4. QED
    BY <2>1, <2>3
<1>5. QED
  BY <1>1, <1>4 DEF Number, Part

\* RECONNECT has no numbers.
LEMMA NoneOfReconnect == Printed("reconnect") = {}
<1> DEFINE b == Bytes("reconnect", 0)
<1>1. b \in Row /\ Len(b) = 1 /\ b[1].f = "reconnect"
  BY BytesReconnect
<1> HIDE DEF b
<1>2. DOMAIN b = {1}
  BY <1>1, RowCells
<1>3. Fields("reconnect") = {b[p].f : p \in DOMAIN b} \ {"byte", "reconnect"}
  BY DEF Fields, FieldsIn, b
<1>4. Fields("reconnect") = {}
  BY <1>1, <1>2, <1>3
<1>5. QED
  BY <1>4 DEF Printed, Numbers

\* A whole message with a payload is longer than its first seven bytes, or as long.
LEMMA OwnLong ==
  ASSUME NEW s \in Loaded
  PROVE  /\ Own(s) \in Nat /\ Own(s) >= 7
         /\ s = "sync_ack" => Own(s) >= 10
         /\ \A x \in Shows(s) : 6 + x[2] + x[3] <= Own(s)
<1>1. s \in Species
  BY DEF Loaded
<1>2. Own(s) \in Nat
  BY <1>1, OwnRow
<1>3. \A x \in Shows(s) : 6 + x[2] + x[3] <= Own(s)
  BY PlacesAre
<1>4. PICK n \in Nat : n = Len(Msgs[s].payload) /\ n >= 1 /\ Msgs[s].payload \in Row
  BY PayloadSized, RowCells DEF Sized
<1>5. Own(s) = 6 + n - (IF s \in Textual THEN 1 ELSE 0)
  BY <1>4 DEF Own, Loaded
<1>6. CASE s \notin Textual
  <2>1. s # "sync_ack"
    BY <1>6 DEF Textual
  <2>2. Own(s) = 6 + n
    BY <1>4, <1>5, <1>6
  <2>3. Own(s) >= 7
    BY <1>4, <2>2
  <2>4. QED
    BY <1>2, <1>3, <2>1, <2>3
<1>7. CASE s = "sync_ack"
  <2>1. PICK q \in Nat : q = Packed * Width
    BY Turns
  <2>2. n = 11 + q
    BY <1>4, <1>7, <2>1, sync_ack_Row
  <2>3. QED
    BY <1>2, <1>3, <1>5, <2>2
<1>8. CASE s \in Textual \ {"sync_ack"}
  <2>1. s \in {"connect", "send_user", "push_user", "req", "req_ack"} /\ TextLen \in Nat /\ TextLen >= 1
    BY <1>8, MessagesAssumption DEF Textual
  <2>2. n >= 2
    <3>1. CASE s = "connect"
      <4>1. n = TextLen + 5
        BY <1>4, <3>1, connect_Row
      <4>2. QED
        BY <2>1, <4>1
    <3>2. CASE s = "send_user"
      <4>1. n = TextLen + 11
        BY <1>4, <3>2, send_user_Row
      <4>2. QED
        BY <2>1, <4>1
    <3>3. CASE s = "push_user"
      <4>1. n = TextLen + 23
        BY <1>4, <3>3, push_user_Row
      <4>2. QED
        BY <2>1, <4>1
    <3>4. CASE s = "req"
      <4>1. n = TextLen + 6
        BY <1>4, <3>4, req_Row
      <4>2. QED
        BY <2>1, <4>1
    <3>5. CASE s = "req_ack"
      <4>1. n = TextLen + 6
        BY <1>4, <3>5, req_ack_Row
      <4>2. QED
        BY <2>1, <4>1
    <3>6. QED
      BY <2>1, <3>1, <3>2, <3>3, <3>4, <3>5
  <2>3. QED
    BY <1>2, <1>3, <1>5, <1>8, <2>2
<1>9. QED
  BY <1>6, <1>7, <1>8

-----------------------------------------------------------------------------
(* The words that are printed of a message. *)

\* m begins with what a builder has written of s.
Arrived(m, s, g) ==
  /\ m \in Row /\ Own(s) <= Len(m) /\ HeadOf(m, s)
  /\ \A p \in 1..Own(s) : m[p] = Bytes(s, g)[p]

\* A single byte is read as it was built.
LEMMA ValueAs ==
  ASSUME NEW s \in Loaded, NEW m, NEW g, Arrived(m, s, g), NEW k \in Nat, 7 + k <= Own(s)
  PROVE  Value(m, k) = Msgs[s].payload[k + 1].v
<1> DEFINE b == Bytes(s, g)
           pl == Msgs[s].payload
<1>1. m \in Row /\ Len(m) \in Nat /\ Own(s) <= Len(m)
  BY RowCells DEF Arrived
<1>2. Framed(b, s, g) /\ pl \in Row /\ Len(pl) \in Nat
  BY BytesFramed, PayloadSized, RowCells DEF Sized
<1>3. s \in Species /\ Own(s) \in Nat /\ Own(s) <= Len(b)
  BY OwnRow DEF Loaded
<1> HIDE DEF b, pl
<1>4. PICK p \in Nat : p = 6 + k + 1 /\ p \in 1..Len(m) /\ p \in 1..Own(s)
  BY <1>1, <1>3
<1>5. p \in 7..(6 + Len(pl)) /\ p - 6 = k + 1
  <2>1. Len(b) = 6 + Len(pl)
    BY <1>2 DEF Framed, pl
  <2>2. QED
    BY <1>2, <1>3, <1>4, <2>1
<1>6. b[p] = pl[k + 1]
  <2>1. b[p] = pl[p - 6]
    BY <1>2, <1>5 DEF Framed, pl
  <2>2. QED
    BY <1>5, <2>1
<1>7. At(m, p) = m[p] /\ m[p] = b[p]
  BY <1>1, <1>4, AtCell DEF Arrived, b
<1>8. QED
  BY <1>4, <1>6, <1>7 DEF Value, pl

\* The flags of a message, as they are printed.
LEMMA FlagsTold ==
  /\ FlagsOf(9) = Flagged({MSG_FLAG_NEED_RECEIPTS, MSG_FLAG_IS_USERMSG})
  /\ FlagsOf(2) = Flagged({MSG_FLAG_IS_RECEIPTS})
  /\ FlagsOf(6) = Flagged({MSG_FLAG_IS_RECEIPTS, MSG_FLAG_IS_READ})
  /\ FlagsOf(13) = Flagged({1, 4, 8})
  /\ FlagsOf(8) = Flagged({MSG_FLAG_IS_USERMSG})
<1> USE DEF MSG_FLAG_NEED_RECEIPTS, MSG_FLAG_IS_RECEIPTS, MSG_FLAG_IS_READ, MSG_FLAG_IS_USERMSG,
            MSG_FLAG_IS_DELETE
<1>1. Masks(9, {1, 2, 4, 8, 16}) = {1, 8}
  <2>1. Has(9, 1) /\ ~Has(9, 2) /\ ~Has(9, 4) /\ Has(9, 8) /\ ~Has(9, 16)
    BY DEF Has
  <2>2. QED
    BY <2>1 DEF Masks
<1>2. Masks(2, {1, 2, 4, 8, 16}) = {2}
  <2>1. ~Has(2, 1) /\ Has(2, 2) /\ ~Has(2, 4) /\ ~Has(2, 8) /\ ~Has(2, 16)
    BY DEF Has
  <2>2. QED
    BY <2>1 DEF Masks
<1>3. Masks(6, {1, 2, 4, 8, 16}) = {2, 4}
  <2>1. ~Has(6, 1) /\ Has(6, 2) /\ Has(6, 4) /\ ~Has(6, 8) /\ ~Has(6, 16)
    BY DEF Has
  <2>2. QED
    BY <2>1 DEF Masks
<1>4. Masks(13, {1, 2, 4, 8, 16}) = {1, 4, 8}
  <2>1. Has(13, 1) /\ ~Has(13, 2) /\ Has(13, 4) /\ Has(13, 8) /\ ~Has(13, 16)
    BY DEF Has
  <2>2. QED
    BY <2>1 DEF Masks
<1>5. Masks(8, {1, 2, 4, 8, 16}) = {8}
  <2>1. ~Has(8, 1) /\ ~Has(8, 2) /\ ~Has(8, 4) /\ Has(8, 8) /\ ~Has(8, 16)
    BY DEF Has
  <2>2. QED
    BY <2>1 DEF Masks
<1>6. QED
  BY <1>1, <1>2, <1>3, <1>4, <1>5 DEF FlagsOf, Flagged

\* What is printed of a payload besides its numbers and the words for it.
Also(s, m) ==
  CASE s = "connect" -> {Str("token", m, 4)}
    [] s = "send_user" -> {Str("body", m, 10)}
    [] s = "push_user" -> {Str("body", m, 20)}
    [] s \in {"req", "req_ack"} -> {Str("msgpack", m, 5)}
    [] s = "delete_all" -> {Told("completely", Has(16, 1))}
    [] s = "delete_session" -> {Told("completely", Has(33, 1))}
    [] s = "delete_message" -> {Told("completely", Has(48, 1))}
    [] OTHER -> {}

\* The wording of a code that has one.
LEMMA WordingOf ==
  ASSUME NEW kind, NEW words, NEW code \in DOMAIN words
  PROVE  Wording(kind, words, code) = Told(kind, words[code])
  BY DEF Wording

\* The words for a payload are those by which it was offered.
LEMMA RestSays ==
  ASSUME NEW s \in Loaded, s # "sync_ack", NEW m, NEW n, NEW g, Arrived(m, s, g)
  PROVE  Rest(s, m, n) = Details[s] \cup Also(s, m)
<1> DEFINE same == Rest(s, m, n) = Details[s] \cup Also(s, m)
<1>1. Wording("chat", session_type_string, 2) = InPrivate
  <2>1. 2 \in DOMAIN session_type_string /\ session_type_string[2] = "private"
    BY DEF session_type_string
  <2>2. QED
    BY <2>1, WordingOf DEF InPrivate
<1>2. /\ Wording("description", delete_type_string, 1) = Described("all sessions")
      /\ Wording("description", delete_type_string, 2) = Described("single session")
      /\ Wording("description", delete_type_string, 3) = Described("single message")
  <2>1. /\ {1, 2, 3} \subseteq DOMAIN delete_type_string /\ delete_type_string[1] = "all sessions"
        /\ delete_type_string[2] = "single session" /\ delete_type_string[3] = "single message"
    BY DEF delete_type_string
  <2>2. QED
    BY <2>1, WordingOf DEF Described
<1>3. Wording("description", delete_error, 255) = Described("failed")
  <2>1. 255 \in DOMAIN delete_error /\ delete_error[255] = "failed"
    BY DEF delete_error
  <2>2. QED
    BY <2>1, WordingOf DEF Described
<1>4. /\ Wording("description", sync_type_string, 2) = Described("new messages")
      /\ Wording("description", sync_type_string, 3) = Described("single session")
      /\ Wording("description", sync_type_string, 4) = Described("last message")
  <2>1. /\ {2, 3, 4} \subseteq DOMAIN sync_type_string /\ sync_type_string[2] = "new messages"
        /\ sync_type_string[3] = "single session" /\ sync_type_string[4] = "last message"
    BY DEF sync_type_string
  <2>2. QED
    BY <2>1, WordingOf DEF Described
<1>5. ASSUME s = "connect" PROVE same
  <2>1. Rest(s, m, n) = {Str("token", m, 4)}
    BY <1>5 DEF Rest
  <2>2. Details[s] = {}
    BY <1>5 DEF Details
  <2>3. Also(s, m) = {Str("token", m, 4)}
    BY <1>5 DEF Also
  <2>4. QED
    BY <2>1, <2>2, <2>3
<1>6. ASSUME s = "ping" PROVE same
  <2>1. Rest(s, m, n) = {}
    BY <1>6 DEF Rest
  <2>2. Details[s] = {}
    BY <1>6 DEF Details
  <2>3. Also(s, m) = {}
    BY <1>6 DEF Also
  <2>4. QED
    BY <2>1, <2>2, <2>3
<1>7. ASSUME s = "send_user" PROVE same
  <2>1. Rest(s, m, n) = {FlagsOf(9), Wording("chat", session_type_string, Value(m, 1)), Str("body", m, 10)}
    BY <1>7 DEF Rest
  <2>2. Details[s] = {Flagged({MSG_FLAG_NEED_RECEIPTS, MSG_FLAG_IS_USERMSG}), InPrivate}
    BY <1>7 DEF Details
  <2>3. Also(s, m) = {Str("body", m, 10)}
    BY <1>7 DEF Also
  <2>4. Value(m, 1) = 2
    <3>1. Msgs[s].payload[1 + 1].v = 2 /\ 7 + 1 <= Own(s)
      <4>1. PICK k \in Nat : k = Len(Msgs["send_user"].payload) /\ k >= 1 + 3
        BY send_user_Row, MessagesAssumption
      <4>2. Own(s) = 6 + k - (IF s \in Textual THEN 1 ELSE 0)
        BY <1>7, <4>1 DEF Own
      <4>3. QED
        BY <1>7, <4>1, <4>2, send_user_Row
    <3>2. QED
      BY <3>1, ValueAs
  <2>5. QED
    BY <1>1, FlagsTold, <2>1, <2>2, <2>3, <2>4
<1>8. ASSUME s = "send_recvack" PROVE same
  <2>1. Rest(s, m, n) = {FlagsOf(2), Wording("chat", session_type_string, Value(m, 1))}
    BY <1>8 DEF Rest
  <2>2. Details[s] = {Flagged({MSG_FLAG_IS_RECEIPTS}), InPrivate}
    BY <1>8 DEF Details
  <2>3. Also(s, m) = {}
    BY <1>8 DEF Also
  <2>4. Value(m, 1) = 2
    <3>1. Msgs[s].payload[1 + 1].v = 2 /\ 7 + 1 <= Own(s)
      <4>1. PICK k \in Nat : k = Len(Msgs["send_recvack"].payload) /\ k >= 1 + 3
        BY send_recvack_Row, MessagesAssumption
      <4>2. Own(s) = 6 + k - (IF s \in Textual THEN 1 ELSE 0)
        BY <1>8, <4>1 DEF Own
      <4>3. QED
        BY <1>8, <4>1, <4>2, send_recvack_Row
    <3>2. QED
      BY <3>1, ValueAs
  <2>5. QED
    BY <1>1, FlagsTold, <2>1, <2>2, <2>3, <2>4
<1>9. ASSUME s = "send_readack" PROVE same
  <2>1. Rest(s, m, n) = {FlagsOf(6), Wording("chat", session_type_string, Value(m, 1))}
    BY <1>9 DEF Rest
  <2>2. Details[s] = {Flagged({MSG_FLAG_IS_RECEIPTS, MSG_FLAG_IS_READ}), InPrivate}
    BY <1>9 DEF Details
  <2>3. Also(s, m) = {}
    BY <1>9 DEF Also
  <2>4. Value(m, 1) = 2
    <3>1. Msgs[s].payload[1 + 1].v = 2 /\ 7 + 1 <= Own(s)
      <4>1. PICK k \in Nat : k = Len(Msgs["send_readack"].payload) /\ k >= 1 + 3
        BY send_readack_Row, MessagesAssumption
      <4>2. Own(s) = 6 + k - (IF s \in Textual THEN 1 ELSE 0)
        BY <1>9, <4>1 DEF Own
      <4>3. QED
        BY <1>9, <4>1, <4>2, send_readack_Row
    <3>2. QED
      BY <3>1, ValueAs
  <2>5. QED
    BY <1>1, FlagsTold, <2>1, <2>2, <2>3, <2>4
<1>10. ASSUME s = "send_ack" PROVE same
  <2>1. Rest(s, m, n) = {FlagsOf(13), Told("code", 13)}
    BY <1>10 DEF Rest
  <2>2. Details[s] = {Flagged({1, 4, 8}), Told("code", 13)}
    BY <1>10 DEF Details
  <2>3. Also(s, m) = {}
    BY <1>10 DEF Also
  <2>4. QED
    BY FlagsTold, <2>1, <2>2, <2>3
<1>11. ASSUME s = "push_user" PROVE same
  <2>1. Rest(s, m, n) = {FlagsOf(8), Wording("chat", session_type_string, Value(m, 1)), Str("body", m, 20)}
    BY <1>11 DEF Rest
  <2>2. Details[s] = {Flagged({MSG_FLAG_IS_USERMSG}), InPrivate}
    BY <1>11 DEF Details
  <2>3. Also(s, m) = {Str("body", m, 20)}
    BY <1>11 DEF Also
  <2>4. Value(m, 1) = 2
    <3>1. Msgs[s].payload[1 + 1].v = 2 /\ 7 + 1 <= Own(s)
      <4>1. PICK k \in Nat : k = Len(Msgs["push_user"].payload) /\ k >= 1 + 3
        BY push_user_Row, MessagesAssumption
      <4>2. Own(s) = 6 + k - (IF s \in Textual THEN 1 ELSE 0)
        BY <1>11, <4>1 DEF Own
      <4>3. QED
        BY <1>11, <4>1, <4>2, push_user_Row
    <3>2. QED
      BY <3>1, ValueAs
  <2>5. QED
    BY <1>1, FlagsTold, <2>1, <2>2, <2>3, <2>4
<1>12. ASSUME s = "push_readack" PROVE same
  <2>1. Rest(s, m, n) = {FlagsOf(6), Wording("chat", session_type_string, Value(m, 1))}
    BY <1>12 DEF Rest
  <2>2. Details[s] = {Flagged({MSG_FLAG_IS_RECEIPTS, MSG_FLAG_IS_READ}), InPrivate}
    BY <1>12 DEF Details
  <2>3. Also(s, m) = {}
    BY <1>12 DEF Also
  <2>4. Value(m, 1) = 2
    <3>1. Msgs[s].payload[1 + 1].v = 2 /\ 7 + 1 <= Own(s)
      <4>1. PICK k \in Nat : k = Len(Msgs["push_readack"].payload) /\ k >= 1 + 3
        BY push_readack_Row, MessagesAssumption
      <4>2. Own(s) = 6 + k - (IF s \in Textual THEN 1 ELSE 0)
        BY <1>12, <4>1 DEF Own
      <4>3. QED
        BY <1>12, <4>1, <4>2, push_readack_Row
    <3>2. QED
      BY <3>1, ValueAs
  <2>5. QED
    BY <1>1, FlagsTold, <2>1, <2>2, <2>3, <2>4
<1>13. ASSUME s = "delete_all" PROVE same
  <2>1. Rest(s, m, n) = {Wording("description", delete_type_string, 1), Told("completely", Has(16, 1))}
    BY <1>13 DEF Rest
  <2>2. Details[s] = {Described("all sessions")}
    BY <1>13 DEF Details
  <2>3. Also(s, m) = {Told("completely", Has(16, 1))}
    BY <1>13 DEF Also
  <2>4. QED
    BY <1>2, <2>1, <2>2, <2>3
<1>14. ASSUME s = "delete_session" PROVE same
  <2>1. Rest(s, m, n) = {Wording("description", delete_type_string, 2), Wording("chat", session_type_string, Value(m, 5)), Told("completely", Has(33, 1))}
    BY <1>14 DEF Rest
  <2>2. Details[s] = {Described("single session"), InPrivate}
    BY <1>14 DEF Details
  <2>3. Also(s, m) = {Told("completely", Has(33, 1))}
    BY <1>14 DEF Also
  <2>4. Value(m, 5) = 2
    <3>1. Msgs[s].payload[5 + 1].v = 2 /\ 7 + 5 <= Own(s)
      <4>1. PICK k \in Nat : k = Len(Msgs["delete_session"].payload) /\ k >= 5 + 3
        BY delete_session_Row, MessagesAssumption
      <4>2. Own(s) = 6 + k - (IF s \in Textual THEN 1 ELSE 0)
        BY <1>14, <4>1 DEF Own
      <4>3. QED
        BY <1>14, <4>1, <4>2, delete_session_Row
    <3>2. QED
      BY <3>1, ValueAs
  <2>5. QED
    BY <1>1, <1>2, <2>1, <2>2, <2>3, <2>4
<1>15. ASSUME s = "delete_message" PROVE same
  <2>1. Rest(s, m, n) = {Wording("description", delete_type_string, 3), Wording("chat", session_type_string, Value(m, 5)), Told("completely", Has(48, 1))}
    BY <1>15 DEF Rest
  <2>2. Details[s] = {Described("single message"), InPrivate}
    BY <1>15 DEF Details
  <2>3. Also(s, m) = {Told("completely", Has(48, 1))}
    BY <1>15 DEF Also
  <2>4. Value(m, 5) = 2
    <3>1. Msgs[s].payload[5 + 1].v = 2 /\ 7 + 5 <= Own(s)
      <4>1. PICK k \in Nat : k = Len(Msgs["delete_message"].payload) /\ k >= 5 + 3
        BY delete_message_Row, MessagesAssumption
      <4>2. Own(s) = 6 + k - (IF s \in Textual THEN 1 ELSE 0)
        BY <1>15, <4>1 DEF Own
      <4>3. QED
        BY <1>15, <4>1, <4>2, delete_message_Row
    <3>2. QED
      BY <3>1, ValueAs
  <2>5. QED
    BY <1>1, <1>2, <2>1, <2>2, <2>3, <2>4
<1>16. ASSUME s = "delete_ack" PROVE same
  <2>1. Rest(s, m, n) = {Told("code", 255), Wording("description", delete_error, 255)}
    BY <1>16 DEF Rest
  <2>2. Details[s] = {Told("code", 255), Described("failed")}
    BY <1>16 DEF Details
  <2>3. Also(s, m) = {}
    BY <1>16 DEF Also
  <2>4. QED
    BY <1>3, <2>1, <2>2, <2>3
<1>17. ASSUME s = "req" PROVE same
  <2>1. Rest(s, m, n) = {Told("request", 1), Str("msgpack", m, 5)}
    BY <1>17 DEF Rest
  <2>2. Details[s] = {Told("request", 1)}
    BY <1>17 DEF Details
  <2>3. Also(s, m) = {Str("msgpack", m, 5)}
    BY <1>17 DEF Also
  <2>4. QED
    BY <2>1, <2>2, <2>3
<1>18. ASSUME s = "req_ack" PROVE same
  <2>1. Rest(s, m, n) = {Told("description", "succeeded"), Str("msgpack", m, 5)}
    BY <1>18 DEF Rest
  <2>2. Details[s] = {Told("description", "succeeded")}
    BY <1>18 DEF Details, Described
  <2>3. Also(s, m) = {Str("msgpack", m, 5)}
    BY <1>18 DEF Also
  <2>4. QED
    BY <2>1, <2>2, <2>3
<1>19. ASSUME s = "sync_new" PROVE same
  <2>1. Rest(s, m, n) = {Wording("description", sync_type_string, 2)}
    BY <1>19 DEF Rest
  <2>2. Details[s] = {Described("new messages")}
    BY <1>19 DEF Details
  <2>3. Also(s, m) = {}
    BY <1>19 DEF Also
  <2>4. QED
    BY <1>4, <2>1, <2>2, <2>3
<1>20. ASSUME s = "sync_session" PROVE same
  <2>1. Rest(s, m, n) = {Wording("description", sync_type_string, 3), Wording("chat", session_type_string, Value(m, 5))}
    BY <1>20 DEF Rest
  <2>2. Details[s] = {Described("single session"), InPrivate}
    BY <1>20 DEF Details
  <2>3. Also(s, m) = {}
    BY <1>20 DEF Also
  <2>4. Value(m, 5) = 2
    <3>1. Msgs[s].payload[5 + 1].v = 2 /\ 7 + 5 <= Own(s)
      <4>1. PICK k \in Nat : k = Len(Msgs["sync_session"].payload) /\ k >= 5 + 3
        BY sync_session_Row, MessagesAssumption
      <4>2. Own(s) = 6 + k - (IF s \in Textual THEN 1 ELSE 0)
        BY <1>20, <4>1 DEF Own
      <4>3. QED
        BY <1>20, <4>1, <4>2, sync_session_Row
    <3>2. QED
      BY <3>1, ValueAs
  <2>5. QED
    BY <1>1, <1>4, <2>1, <2>2, <2>3, <2>4
<1>21. ASSUME s = "sync_last" PROVE same
  <2>1. Rest(s, m, n) = {Wording("description", sync_type_string, 4), Wording("chat", session_type_string, Value(m, 5))}
    BY <1>21 DEF Rest
  <2>2. Details[s] = {Described("last message"), InPrivate}
    BY <1>21 DEF Details
  <2>3. Also(s, m) = {}
    BY <1>21 DEF Also
  <2>4. Value(m, 5) = 2
    <3>1. Msgs[s].payload[5 + 1].v = 2 /\ 7 + 5 <= Own(s)
      <4>1. PICK k \in Nat : k = Len(Msgs["sync_last"].payload) /\ k >= 5 + 3
        BY sync_last_Row, MessagesAssumption
      <4>2. Own(s) = 6 + k - (IF s \in Textual THEN 1 ELSE 0)
        BY <1>21, <4>1 DEF Own
      <4>3. QED
        BY <1>21, <4>1, <4>2, sync_last_Row
    <3>2. QED
      BY <3>1, ValueAs
  <2>5. QED
    BY <1>1, <1>4, <2>1, <2>2, <2>3, <2>4
<1>22. ASSUME s = "disconnect" PROVE same
  <2>1. Rest(s, m, n) = {Told("description", "logged in elsewhere")}
    BY <1>22 DEF Rest
  <2>2. Details[s] = {Described("logged in elsewhere")}
    BY <1>22 DEF Details
  <2>3. Also(s, m) = {}
    BY <1>22 DEF Also
  <2>4. QED
    BY <2>1, <2>2, <2>3 DEF Described
<1>23. QED
  BY <1>5, <1>6, <1>7, <1>8, <1>9, <1>10, <1>11, <1>12, <1>13, <1>14, <1>15, <1>16, <1>17, <1>18, <1>19, <1>20, <1>21, <1>22, SpeciesAre DEF Loaded

\* The messages that an option of the menu offers.
Offers(o) == IF o \in DOMAIN Submenu THEN ToSet(Submenu[o]) ELSE {Simple[o]}

\* No two options offer the same message.
LEMMA OffersAre ==
  /\ Offers(1) = {"connect"}
  /\ Offers(2) = {"ping"}
  /\ Offers(3) = {"send_user", "send_recvack", "send_readack", "send_ack"}
  /\ Offers(4) = {"push_user", "push_readack"}
  /\ Offers(5) = {"sync_new", "sync_session", "sync_last", "sync_ack"}
  /\ Offers(6) = {"delete_all", "delete_session", "delete_message", "delete_ack"}
  /\ Offers(7) = {"req", "req_ack"}
  /\ Offers(8) = {"reconnect"}
  /\ Offers(9) = {"disconnect"}
<1>1. DOMAIN Submenu = 3..7
  BY DEF Submenu
<1>2. /\ Simple[1] = "connect" /\ Simple[2] = "ping"
      /\ Simple[8] = "reconnect" /\ Simple[9] = "disconnect"
  BY DEF Simple
<1>3. ToSet(Submenu[3]) = {"send_user", "send_recvack", "send_readack", "send_ack"}
  <2>1. Submenu[3] = <<"send_user", "send_recvack", "send_readack", "send_ack">>
    BY DEF Submenu
  <2>2. QED
    BY <2>1 DEF ToSet
<1>4. ToSet(Submenu[4]) = {"push_user", "push_readack"}
  <2>1. Submenu[4] = <<"push_user", "push_readack">>
    BY DEF Submenu
  <2>2. QED
    BY <2>1 DEF ToSet
<1>5. ToSet(Submenu[5]) = {"sync_new", "sync_session", "sync_last", "sync_ack"}
  <2>1. Submenu[5] = <<"sync_new", "sync_session", "sync_last", "sync_ack">>
    BY DEF Submenu
  <2>2. QED
    BY <2>1 DEF ToSet
<1>6. ToSet(Submenu[6]) = {"delete_all", "delete_session", "delete_message", "delete_ack"}
  <2>1. Submenu[6] = <<"delete_all", "delete_session", "delete_message", "delete_ack">>
    BY DEF Submenu
  <2>2. QED
    BY <2>1 DEF ToSet
<1>7. ToSet(Submenu[7]) = {"req", "req_ack"}
  <2>1. Submenu[7] = <<"req", "req_ack">>
    BY DEF Submenu
  <2>2. QED
    BY <2>1 DEF ToSet
<1>8. QED
  BY <1>1, <1>2, <1>3, <1>4, <1>5, <1>6, <1>7 DEF Offers

\* A message is titled for the option that offers it.
LEMMA TitleOf ==
  ASSUME NEW o \in 1..9, NEW s \in Offers(o)
  PROVE  Title(s) = <<"CONNECT", "PING", "SEND", "PUSH", "SYNC", "DELETE", "REQ",
                      "RECONNECT", "DISCONNECT">>[o]
<1> DEFINE offered(q) == IF q \in DOMAIN Submenu THEN s \in ToSet(Submenu[q]) ELSE s = Simple[q]
<1>1. \A q \in 1..9 : offered(q) <=> s \in Offers(q)
  BY DEF Offers
<1>2. \A q \in 1..9 : s \in Offers(q) => q = o
  <2>1. CASE o = 1
    <3>1. s \in {"connect"}
      BY <2>1, OffersAre
    <3>2. s \notin Offers(2) /\ s \notin Offers(3) /\ s \notin Offers(4) /\ s \notin Offers(5) /\ s \notin Offers(6) /\ s \notin Offers(7) /\ s \notin Offers(8) /\ s \notin Offers(9)
      BY <3>1, OffersAre
    <3>3. QED
      BY <2>1, <3>2
  <2>2. CASE o = 2
    <3>1. s \in {"ping"}
      BY <2>2, OffersAre
    <3>2. s \notin Offers(1) /\ s \notin Offers(3) /\ s \notin Offers(4) /\ s \notin Offers(5) /\ s \notin Offers(6) /\ s \notin Offers(7) /\ s \notin Offers(8) /\ s \notin Offers(9)
      BY <3>1, OffersAre
    <3>3. QED
      BY <2>2, <3>2
  <2>3. CASE o = 3
    <3>1. s \in {"send_user", "send_recvack", "send_readack", "send_ack"}
      BY <2>3, OffersAre
    <3>2. s \notin Offers(1) /\ s \notin Offers(2) /\ s \notin Offers(4) /\ s \notin Offers(5) /\ s \notin Offers(6) /\ s \notin Offers(7) /\ s \notin Offers(8) /\ s \notin Offers(9)
      BY <3>1, OffersAre
    <3>3. QED
      BY <2>3, <3>2
  <2>4. CASE o = 4
    <3>1. s \in {"push_user", "push_readack"}
      BY <2>4, OffersAre
    <3>2. s \notin Offers(1) /\ s \notin Offers(2) /\ s \notin Offers(3) /\ s \notin Offers(5) /\ s \notin Offers(6) /\ s \notin Offers(7) /\ s \notin Offers(8) /\ s \notin Offers(9)
      BY <3>1, OffersAre
    <3>3. QED
      BY <2>4, <3>2
  <2>5. CASE o = 5
    <3>1. s \in {"sync_new", "sync_session", "sync_last", "sync_ack"}
      BY <2>5, OffersAre
    <3>2. s \notin Offers(1) /\ s \notin Offers(2) /\ s \notin Offers(3) /\ s \notin Offers(4) /\ s \notin Offers(6) /\ s \notin Offers(7) /\ s \notin Offers(8) /\ s \notin Offers(9)
      BY <3>1, OffersAre
    <3>3. QED
      BY <2>5, <3>2
  <2>6. CASE o = 6
    <3>1. s \in {"delete_all", "delete_session", "delete_message", "delete_ack"}
      BY <2>6, OffersAre
    <3>2. s \notin Offers(1) /\ s \notin Offers(2) /\ s \notin Offers(3) /\ s \notin Offers(4) /\ s \notin Offers(5) /\ s \notin Offers(7) /\ s \notin Offers(8) /\ s \notin Offers(9)
      BY <3>1, OffersAre
    <3>3. QED
      BY <2>6, <3>2
  <2>7. CASE o = 7
    <3>1. s \in {"req", "req_ack"}
      BY <2>7, OffersAre
    <3>2. s \notin Offers(1) /\ s \notin Offers(2) /\ s \notin Offers(3) /\ s \notin Offers(4) /\ s \notin Offers(5) /\ s \notin Offers(6) /\ s \notin Offers(8) /\ s \notin Offers(9)
      BY <3>1, OffersAre
    <3>3. QED
      BY <2>7, <3>2
  <2>8. CASE o = 8
    <3>1. s \in {"reconnect"}
      BY <2>8, OffersAre
    <3>2. s \notin Offers(1) /\ s \notin Offers(2) /\ s \notin Offers(3) /\ s \notin Offers(4) /\ s \notin Offers(5) /\ s \notin Offers(6) /\ s \notin Offers(7) /\ s \notin Offers(9)
      BY <3>1, OffersAre
    <3>3. QED
      BY <2>8, <3>2
  <2>9. CASE o = 9
    <3>1. s \in {"disconnect"}
      BY <2>9, OffersAre
    <3>2. s \notin Offers(1) /\ s \notin Offers(2) /\ s \notin Offers(3) /\ s \notin Offers(4) /\ s \notin Offers(5) /\ s \notin Offers(6) /\ s \notin Offers(7) /\ s \notin Offers(8)
      BY <3>1, OffersAre
    <3>3. QED
      BY <2>9, <3>2
  <2>10. QED
    BY <2>1, <2>2, <2>3, <2>4, <2>5, <2>6, <2>7, <2>8, <2>9
<1> HIDE DEF offered
<1>3. (CHOOSE q \in 1..9 : offered(q)) = o
  BY <1>1, <1>2
<1>4. QED
  BY <1>3 DEF Title, offered

\* The type of a message is printed by the name the menu has for it.
LEMMA TypeSaid ==
  ASSUME NEW s \in Species
  PROVE  Wording("type", type_string, Msgs[s].fixed \div 16) = Told("type", Title(s))
<1> DEFINE said == Wording("type", type_string, Msgs[s].fixed \div 16) = Told("type", Title(s))
<1>1. ASSUME s \in {"connect"} PROVE said
  <2>1. Title(s) = "CONNECT"
    BY <1>1, TitleOf, OffersAre
  <2>2. 1 \in DOMAIN type_string /\ type_string[1] = "CONNECT"
    BY DEF type_string
  <2>3. Msgs[s].fixed \div 16 = 1
    <3>1. /\ Msgs["connect"].fixed = 25
      BY connect_Row
    <3>2. /\ 25 \div 16 = 1
      OBVIOUS
    <3>3. QED
      BY <1>1, <3>1, <3>2
  <2>4. QED
    BY <2>1, <2>2, <2>3, WordingOf
<1>2. ASSUME s \in {"ping"} PROVE said
  <2>1. Title(s) = "PING"
    BY <1>2, TitleOf, OffersAre
  <2>2. 2 \in DOMAIN type_string /\ type_string[2] = "PING"
    BY DEF type_string
  <2>3. Msgs[s].fixed \div 16 = 2
    <3>1. /\ Msgs["ping"].fixed = 41
      BY ping_Row
    <3>2. /\ 41 \div 16 = 2
      OBVIOUS
    <3>3. QED
      BY <1>2, <3>1, <3>2
  <2>4. QED
    BY <2>1, <2>2, <2>3, WordingOf
<1>3. ASSUME s \in {"send_user", "send_recvack", "send_readack", "send_ack"} PROVE said
  <2>1. Title(s) = "SEND"
    BY <1>3, TitleOf, OffersAre
  <2>2. 3 \in DOMAIN type_string /\ type_string[3] = "SEND"
    BY DEF type_string
  <2>3. Msgs[s].fixed \div 16 = 3
    <3>1. /\ Msgs["send_user"].fixed = 57
          /\ Msgs["send_recvack"].fixed = 56
          /\ Msgs["send_readack"].fixed = 56
          /\ Msgs["send_ack"].fixed = 58
      BY send_user_Row, send_recvack_Row, send_readack_Row, send_ack_Row
    <3>2. /\ 56 \div 16 = 3 /\ 57 \div 16 = 3 /\ 58 \div 16 = 3
      OBVIOUS
    <3>3. QED
      BY <1>3, <3>1, <3>2
  <2>4. QED
    BY <2>1, <2>2, <2>3, WordingOf
<1>4. ASSUME s \in {"push_user", "push_readack"} PROVE said
  <2>1. Title(s) = "PUSH"
    BY <1>4, TitleOf, OffersAre
  <2>2. 4 \in DOMAIN type_string /\ type_string[4] = "PUSH"
    BY DEF type_string
  <2>3. Msgs[s].fixed \div 16 = 4
    <3>1. /\ Msgs["push_user"].fixed = 72
          /\ Msgs["push_readack"].fixed = 72
      BY push_user_Row, push_readack_Row
    <3>2. /\ 72 \div 16 = 4
      OBVIOUS
    <3>3. QED
      BY <1>4, <3>1, <3>2
  <2>4. QED
    BY <2>1, <2>2, <2>3, WordingOf
<1>5. ASSUME s \in {"sync_new", "sync_session", "sync_last", "sync_ack"} PROVE said
  <2>1. Title(s) = "SYNC"
    BY <1>5, TitleOf, OffersAre
  <2>2. 5 \in DOMAIN type_string /\ type_string[5] = "SYNC"
    BY DEF type_string
  <2>3. Msgs[s].fixed \div 16 = 5
    <3>1. /\ Msgs["sync_new"].fixed = 93
          /\ Msgs["sync_session"].fixed = 93
          /\ Msgs["sync_last"].fixed = 93
          /\ Msgs["sync_ack"].fixed = 94
      BY sync_new_Row, sync_session_Row, sync_last_Row, sync_ack_Row
    <3>2. /\ 93 \div 16 = 5 /\ 94 \div 16 = 5
      OBVIOUS
    <3>3. QED
      BY <1>5, <3>1, <3>2
  <2>4. QED
    BY <2>1, <2>2, <2>3, WordingOf
<1>6. ASSUME s \in {"delete_all", "delete_session", "delete_message", "delete_ack"} PROVE said
  <2>1. Title(s) = "DELETE"
    BY <1>6, TitleOf, OffersAre
  <2>2. 6 \in DOMAIN type_string /\ type_string[6] = "DELETE"
    BY DEF type_string
  <2>3. Msgs[s].fixed \div 16 = 6
    <3>1. /\ Msgs["delete_all"].fixed = 105
          /\ Msgs["delete_session"].fixed = 105
          /\ Msgs["delete_message"].fixed = 105
          /\ Msgs["delete_ack"].fixed = 106
      BY delete_all_Row, delete_session_Row, delete_message_Row, delete_ack_Row
    <3>2. /\ 105 \div 16 = 6 /\ 106 \div 16 = 6
      OBVIOUS
    <3>3. QED
      BY <1>6, <3>1, <3>2
  <2>4. QED
    BY <2>1, <2>2, <2>3, WordingOf
<1>7. ASSUME s \in {"req", "req_ack"} PROVE said
  <2>1. Title(s) = "REQ"
    BY <1>7, TitleOf, OffersAre
  <2>2. 7 \in DOMAIN type_string /\ type_string[7] = "REQ"
    BY DEF type_string
  <2>3. Msgs[s].fixed \div 16 = 7
    <3>1. /\ Msgs["req"].fixed = 121
          /\ Msgs["req_ack"].fixed = 122
      BY req_Row, req_ack_Row
    <3>2. /\ 121 \div 16 = 7 /\ 122 \div 16 = 7
      OBVIOUS
    <3>3. QED
      BY <1>7, <3>1, <3>2
  <2>4. QED
    BY <2>1, <2>2, <2>3, WordingOf
<1>8. ASSUME s \in {"reconnect"} PROVE said
  <2>1. Title(s) = "RECONNECT"
    BY <1>8, TitleOf, OffersAre
  <2>2. 13 \in DOMAIN type_string /\ type_string[13] = "RECONNECT"
    BY DEF type_string
  <2>3. Msgs[s].fixed \div 16 = 13
    <3>1. /\ Msgs["reconnect"].fixed = 208
      BY reconnect_Row
    <3>2. /\ 208 \div 16 = 13
      OBVIOUS
    <3>3. QED
      BY <1>8, <3>1, <3>2
  <2>4. QED
    BY <2>1, <2>2, <2>3, WordingOf
<1>9. ASSUME s \in {"disconnect"} PROVE said
  <2>1. Title(s) = "DISCONNECT"
    BY <1>9, TitleOf, OffersAre
  <2>2. 14 \in DOMAIN type_string /\ type_string[14] = "DISCONNECT"
    BY DEF type_string
  <2>3. Msgs[s].fixed \div 16 = 14
    <3>1. /\ Msgs["disconnect"].fixed = 232
      BY disconnect_Row
    <3>2. /\ 232 \div 16 = 14
      OBVIOUS
    <3>3. QED
      BY <1>9, <3>1, <3>2
  <2>4. QED
    BY <2>1, <2>2, <2>3, WordingOf
<1>10. QED
  BY <1>1, <1>2, <1>3, <1>4, <1>5, <1>6, <1>7, <1>8, <1>9, SpeciesAre

\* Their tags.
LEMMA DetailsTags ==
  ASSUME NEW s \in Species, NEW y \in Details[s]
  PROVE  y[1] \in {"flags", "chat", "description", "code", "request"}
<1>1. \A q : /\ Flagged(q)[1] = "flags" /\ Described(q)[1] = "description"
             /\ Told("code", q)[1] = "code" /\ Told("request", q)[1] = "request"
  BY TagOf DEF Flagged, Described
<1>2. InPrivate[1] = "chat"
  BY TagOf DEF InPrivate
<1>3. CASE s = "connect"
  <2>1. Details[s] = {}
    BY <1>3 DEF Details
  <2>2. QED
    BY <1>1, <1>2, <2>1
<1>4. CASE s = "ping"
  <2>1. Details[s] = {}
    BY <1>4 DEF Details
  <2>2. QED
    BY <1>1, <1>2, <2>1
<1>5. CASE s = "reconnect"
  <2>1. Details[s] = {}
    BY <1>5 DEF Details
  <2>2. QED
    BY <1>1, <1>2, <2>1
<1>6. CASE s = "send_user"
  <2>1. Details[s] = {Flagged({MSG_FLAG_NEED_RECEIPTS, MSG_FLAG_IS_USERMSG}), InPrivate}
    BY <1>6 DEF Details
  <2>2. QED
    BY <1>1, <1>2, <2>1
<1>7. CASE s = "send_recvack"
  <2>1. Details[s] = {Flagged({MSG_FLAG_IS_RECEIPTS}), InPrivate}
    BY <1>7 DEF Details
  <2>2. QED
    BY <1>1, <1>2, <2>1
<1>8. CASE s = "send_readack"
  <2>1. Details[s] = {Flagged({MSG_FLAG_IS_RECEIPTS, MSG_FLAG_IS_READ}), InPrivate}
    BY <1>8 DEF Details
  <2>2. QED
    BY <1>1, <1>2, <2>1
<1>9. CASE s = "send_ack"
  <2>1. Details[s] = {Flagged({1, 4, 8}), Told("code", 13)}
    BY <1>9 DEF Details
  <2>2. QED
    BY <1>1, <1>2, <2>1
<1>10. CASE s = "push_user"
  <2>1. Details[s] = {Flagged({MSG_FLAG_IS_USERMSG}), InPrivate}
    BY <1>10 DEF Details
  <2>2. QED
    BY <1>1, <1>2, <2>1
<1>11. CASE s = "push_readack"
  <2>1. Details[s] = {Flagged({MSG_FLAG_IS_RECEIPTS, MSG_FLAG_IS_READ}), InPrivate}
    BY <1>11 DEF Details
  <2>2. QED
    BY <1>1, <1>2, <2>1
<1>12. CASE s = "sync_new"
  <2>1. Details[s] = {Described("new messages")}
    BY <1>12 DEF Details
  <2>2. QED
    BY <1>1, <1>2, <2>1
<1>13. CASE s = "sync_session"
  <2>1. Details[s] = {Described("single session"), InPrivate}
    BY <1>13 DEF Details
  <2>2. QED
    BY <1>1, <1>2, <2>1
<1>14. CASE s = "sync_last"
  <2>1. Details[s] = {Described("last message"), InPrivate}
    BY <1>14 DEF Details
  <2>2. QED
    BY <1>1, <1>2, <2>1
<1>15. CASE s = "sync_ack"
  <2>1. Details[s] = {Described("success")}
    BY <1>15 DEF Details
  <2>2. QED
    BY <1>1, <1>2, <2>1
<1>16. CASE s = "delete_all"
  <2>1. Details[s] = {Described("all sessions")}
    BY <1>16 DEF Details
  <2>2. QED
    BY <1>1, <1>2, <2>1
<1>17. CASE s = "delete_session"
  <2>1. Details[s] = {Described("single session"), InPrivate}
    BY <1>17 DEF Details
  <2>2. QED
    BY <1>1, <1>2, <2>1
<1>18. CASE s = "delete_message"
  <2>1. Details[s] = {Described("single message"), InPrivate}
    BY <1>18 DEF Details
  <2>2. QED
    BY <1>1, <1>2, <2>1
<1>19. CASE s = "delete_ack"
  <2>1. Details[s] = {Described("failed"), Told("code", 255)}
    BY <1>19 DEF Details
  <2>2. QED
    BY <1>1, <1>2, <2>1
<1>20. CASE s = "req"
  <2>1. Details[s] = {Told("request", 1)}
    BY <1>20 DEF Details
  <2>2. QED
    BY <1>1, <1>2, <2>1
<1>21. CASE s = "req_ack"
  <2>1. Details[s] = {Described("succeeded")}
    BY <1>21 DEF Details
  <2>2. QED
    BY <1>1, <1>2, <2>1
<1>22. CASE s = "disconnect"
  <2>1. Details[s] = {Described("logged in elsewhere")}
    BY <1>22 DEF Details
  <2>2. QED
    BY <1>1, <1>2, <2>1
<1>23. QED
  BY <1>3, <1>4, <1>5, <1>6, <1>7, <1>8, <1>9, <1>10, <1>11, <1>12, <1>13, <1>14, <1>15, <1>16, <1>17, <1>18, <1>19, <1>20, <1>21, <1>22, SpeciesAre

\* What else is printed of a payload are no words for it.
LEMMA RestParts ==
  ASSUME NEW s \in Loaded, NEW m, NEW n, NEW g, Arrived(m, s, g),
         s = "sync_ack" => BUFFER_SIZE >= 10
  PROVE  \E more : /\ Rest(s, m, n) = Details[s] \cup more
                   /\ \A y \in more : y[1] \in Strings \cup {"completely", "undefined"}
<1>1. CASE s = "sync_ack"
  <2>1. Rest(s, m, n) = {Wording("description", sync_ack_error, 0)} \cup PackedBodies(m, 10, n)
    BY <1>1 DEF Rest
  <2>2. Wording("description", sync_ack_error, 0) = Described("success")
    <3>1. 0 \in DOMAIN sync_ack_error /\ sync_ack_error[0] = "success"
      BY DEF sync_ack_error
    <3>2. QED
      BY <3>1, WordingOf DEF Described
  <2>3. Details[s] = {Described("success")}
    BY <1>1 DEF Details
  <2>4. \A y \in PackedBodies(m, 10, n) : y = UNDEFINED \/ y[1] = "body"
    BY <1>1, WalkTags DEF Arrived
  <2>5. QED
    BY <2>1, <2>2, <2>3, <2>4, TagOf DEF Strings
<1>2. CASE s # "sync_ack"
  <2>1. Rest(s, m, n) = Details[s] \cup Also(s, m)
    BY <1>2, RestSays
  <2>2. \A y \in Also(s, m) : y[1] \in Strings \cup {"completely", "undefined"}
    BY TagOf DEF Also, Strings
  <2>3. QED
    BY <2>1, <2>2
<1>3. QED
  BY <1>1, <1>2

\* The numbers bear the names of fields.
LEMMA ReadTags ==
  ASSUME NEW s \in Loaded, NEW m, NEW y \in Read(s, m)
  PROVE  y[1] \in FieldNames
<1>1. PICK x \in Where[s] : y = Shown(x[1], Number(m, x[2], x[3]))
  BY DEF Read
<1>2. y[1] = x[1] /\ x[1] \in FieldNames
  BY <1>1, WhereAre, TagOf
<1>3. QED
  BY <1>2

\* A message is described as the menu offered it.
LEMMA WordsAs ==
  ASSUME NEW s \in Loaded, NEW m, NEW n, NEW g, Arrived(m, s, g),
         s = "sync_ack" => BUFFER_SIZE >= 10
  PROVE  Words(Parse(m, n)) = Meaning(s)
<1> DEFINE numbers == {Shown("length", Number(m, -4, 4))} \cup Read(s, m)
           type == Wording("type", type_string, At(m, 1).v \div 16)
           others == {Told("header", Masks(At(m, 1).v, {NEED_ACK, ACK_TYPE, SYNC_TYPE, HAS_PAYLOAD})),
                      Told("version", At(m, 2).v)}
<1>1. HeadOf(m, s) /\ s \in Species
  BY DEF Arrived, Loaded
<1>2. Value(m, 0) = Msgs[s].payload[1].v
  <2>1. 0 \in Nat /\ 7 + 0 <= Own(s) /\ 0 + 1 = 1
    BY OwnLong
  <2>2. QED
    BY <2>1, ValueAs
<1>3. PICK more : /\ Rest(s, m, n) = Details[s] \cup more
                  /\ \A y \in more : y[1] \in Strings \cup {"completely", "undefined"}
  BY RestParts
<1>4. Parse(m, n) = {type} \cup Details[s] \cup (others \cup numbers \cup more)
  <2>1. Parse(m, n) = Heading(m) \cup numbers \cup Rest(s, m, n)
    BY <1>1, <1>2, ParseAs
  <2>2. Heading(m) = {type} \cup others
    BY DEF Heading
  <2> HIDE DEF numbers, type, others
  <2>3. QED
    BY <1>3, <2>1, <2>2
<1>5. type = Told("type", Title(s))
  BY <1>1, TypeSaid DEF HeadOf
<1>6. \A y \in numbers : y[1] \notin Kinds
  <2>1. "length" \notin Kinds /\ \A f \in FieldNames : f \notin Kinds
    BY DEF Kinds, FieldNames
  <2>2. \A y \in Read(s, m) : y[1] \in FieldNames
    BY ReadTags
  <2>3. QED
    BY <2>1, <2>2, TagOf
<1>7. \A y \in others : y[1] \notin Kinds
  BY TagOf DEF Kinds
<1>8. \A y \in more : y[1] \notin Kinds
  BY <1>3 DEF Kinds, Strings
<1>9. \A y \in {type} \cup Details[s] : y[1] \in Kinds
  BY <1>1, <1>5, DetailsTags, TagOf DEF Kinds
<1> HIDE DEF numbers, type, others
<1>10. Words(Parse(m, n)) = {type} \cup Details[s]
  BY <1>4, <1>6, <1>7, <1>8, <1>9 DEF Words
<1>11. QED
  BY <1>5, <1>10 DEF Meaning

\* Only one header is printed, that of the first byte.
LEMMA HeaderAs ==
  ASSUME NEW s \in Loaded, NEW m, NEW n, NEW g, Arrived(m, s, g),
         s = "sync_ack" => BUFFER_SIZE >= 10, NEW x \in Parse(m, n), x[1] = "header"
  PROVE  x = Told("header", Masks(At(m, 1).v, {NEED_ACK, ACK_TYPE, SYNC_TYPE, HAS_PAYLOAD}))
<1>1. HeadOf(m, s) /\ m \in Row
  BY DEF Arrived
<1>2. Value(m, 0) = Msgs[s].payload[1].v
  <2>1. 0 \in Nat /\ 7 + 0 <= Own(s) /\ 0 + 1 = 1
    BY OwnLong
  <2>2. QED
    BY <2>1, ValueAs
<1>3. x \in Heading(m) \cup {Shown("length", Number(m, -4, 4))} \cup Read(s, m) \cup Rest(s, m, n)
  BY <1>1, <1>2, ParseAs
<1>4. x \notin Read(s, m)
  <2>1. \A f \in FieldNames : f # "header"
    BY DEF FieldNames
  <2>2. \A y \in Read(s, m) : y[1] \in FieldNames
    BY ReadTags
  <2>3. QED
    BY <2>1, <2>2
<1>5. x # Shown("length", Number(m, -4, 4))
  BY TagOf
<1>6. x \notin Rest(s, m, n)
  <2>1. "header" \notin Kinds \cup Strings \cup {"completely"} /\ UNDEFINED[1] # "header"
    BY TagOf DEF Kinds, Strings
  <2>2. QED
    BY <1>1, <2>1, RestTags
<1>7. x \in Heading(m)
  BY <1>3, <1>4, <1>5, <1>6
<1>8. x[1] # "type" /\ x[1] # "version" /\ x # UNDEFINED
  BY TagOf
<1>9. QED
  BY <1>7, <1>8, TagOf DEF Heading

-----------------------------------------------------------------------------
(* The texts that are printed of a message. *)

\* The text at the end of a message, and the byte of the payload before it.
TextOf == [
  connect   |-> <<"token", 4>>, send_user |-> <<"body", 10>>, push_user |-> <<"body", 22>>,
  req       |-> <<"msgpack", 5>>, req_ack |-> <<"msgpack", 5>> ]

\* Where it lies.
LEMMA TextPlaced ==
  ASSUME NEW s \in DOMAIN TextOf, NEW f, NEW o, f = TextOf[s][1], o = TextOf[s][2]
  PROVE  /\ s \in Loaded /\ s # "sync_ack" /\ f \in Strings /\ o \in Nat /\ o >= 4
         /\ Own(s) = 6 + o + TextLen
         /\ \A i \in 1..TextLen : Msgs[s].payload[o + i] = Cell(f, i, LETTER)
         /\ \A p \in 1..(o + TextLen) : Msgs[s].payload[p].v # 0
<1> USE DEF Strings
<1>1. CASE s = "connect"
  <2>1. f = "token" /\ o = 4 /\ s \in Loaded
    BY <1>1, SpeciesAre DEF TextOf, Loaded
  <2>2. PICK n \in Nat : n = Len(Msgs[s].payload) /\ n = TextLen + 5
    BY <1>1, connect_Row, MessagesAssumption
  <2>3. Own(s) = 6 + 4 + TextLen
    <3>1. Own(s) = 6 + n - 1
      BY <1>1, <2>2 DEF Own, Textual
    <3>2. QED
      BY <2>2, <3>1, MessagesAssumption
  <2>4. \A i \in 1..TextLen : Msgs[s].payload[4 + i] = Cell("token", i, LETTER)
    <3>1. TAKE i \in 1..TextLen
    <3>2. PICK p \in Nat : p = 4 + i /\ p \in 5..(TextLen + 4) /\ p - 4 = i
      BY MessagesAssumption
    <3>3. Msgs[s].payload[p] = Cell("token", p - 4, LETTER)
      BY <1>1, <3>2, connect_Row
    <3>4. QED
      BY <3>2, <3>3
  <2>5. \A p \in 1..(4 + TextLen) : Msgs[s].payload[p].v # 0
    <3>1. 4 + TextLen = TextLen + 4
      BY MessagesAssumption
    <3>2. QED
      BY <1>1, <3>1, connect_Row
  <2>6. QED
    BY <1>1, <2>1, <2>3, <2>4, <2>5
<1>2. CASE s = "send_user"
  <2>1. f = "body" /\ o = 10 /\ s \in Loaded
    BY <1>2, SpeciesAre DEF TextOf, Loaded
  <2>2. PICK n \in Nat : n = Len(Msgs[s].payload) /\ n = TextLen + 11
    BY <1>2, send_user_Row, MessagesAssumption
  <2>3. Own(s) = 6 + 10 + TextLen
    <3>1. Own(s) = 6 + n - 1
      BY <1>2, <2>2 DEF Own, Textual
    <3>2. QED
      BY <2>2, <3>1, MessagesAssumption
  <2>4. \A i \in 1..TextLen : Msgs[s].payload[10 + i] = Cell("body", i, LETTER)
    <3>1. TAKE i \in 1..TextLen
    <3>2. PICK p \in Nat : p = 10 + i /\ p \in 11..(TextLen + 10) /\ p - 10 = i
      BY MessagesAssumption
    <3>3. Msgs[s].payload[p] = Cell("body", p - 10, LETTER)
      BY <1>2, <3>2, send_user_Row
    <3>4. QED
      BY <3>2, <3>3
  <2>5. \A p \in 1..(10 + TextLen) : Msgs[s].payload[p].v # 0
    <3>1. 10 + TextLen = TextLen + 10
      BY MessagesAssumption
    <3>2. QED
      BY <1>2, <3>1, send_user_Row
  <2>6. QED
    BY <1>2, <2>1, <2>3, <2>4, <2>5
<1>3. CASE s = "push_user"
  <2>1. f = "body" /\ o = 22 /\ s \in Loaded
    BY <1>3, SpeciesAre DEF TextOf, Loaded
  <2>2. PICK n \in Nat : n = Len(Msgs[s].payload) /\ n = TextLen + 23
    BY <1>3, push_user_Row, MessagesAssumption
  <2>3. Own(s) = 6 + 22 + TextLen
    <3>1. Own(s) = 6 + n - 1
      BY <1>3, <2>2 DEF Own, Textual
    <3>2. QED
      BY <2>2, <3>1, MessagesAssumption
  <2>4. \A i \in 1..TextLen : Msgs[s].payload[22 + i] = Cell("body", i, LETTER)
    <3>1. TAKE i \in 1..TextLen
    <3>2. PICK p \in Nat : p = 22 + i /\ p \in 23..(TextLen + 22) /\ p - 22 = i
      BY MessagesAssumption
    <3>3. Msgs[s].payload[p] = Cell("body", p - 22, LETTER)
      BY <1>3, <3>2, push_user_Row
    <3>4. QED
      BY <3>2, <3>3
  <2>5. \A p \in 1..(22 + TextLen) : Msgs[s].payload[p].v # 0
    <3>1. 22 + TextLen = TextLen + 22
      BY MessagesAssumption
    <3>2. QED
      BY <1>3, <3>1, push_user_Row
  <2>6. QED
    BY <1>3, <2>1, <2>3, <2>4, <2>5
<1>4. CASE s = "req"
  <2>1. f = "msgpack" /\ o = 5 /\ s \in Loaded
    BY <1>4, SpeciesAre DEF TextOf, Loaded
  <2>2. PICK n \in Nat : n = Len(Msgs[s].payload) /\ n = TextLen + 6
    BY <1>4, req_Row, MessagesAssumption
  <2>3. Own(s) = 6 + 5 + TextLen
    <3>1. Own(s) = 6 + n - 1
      BY <1>4, <2>2 DEF Own, Textual
    <3>2. QED
      BY <2>2, <3>1, MessagesAssumption
  <2>4. \A i \in 1..TextLen : Msgs[s].payload[5 + i] = Cell("msgpack", i, LETTER)
    <3>1. TAKE i \in 1..TextLen
    <3>2. PICK p \in Nat : p = 5 + i /\ p \in 6..(TextLen + 5) /\ p - 5 = i
      BY MessagesAssumption
    <3>3. Msgs[s].payload[p] = Cell("msgpack", p - 5, LETTER)
      BY <1>4, <3>2, req_Row
    <3>4. QED
      BY <3>2, <3>3
  <2>5. \A p \in 1..(5 + TextLen) : Msgs[s].payload[p].v # 0
    <3>1. 5 + TextLen = TextLen + 5
      BY MessagesAssumption
    <3>2. QED
      BY <1>4, <3>1, req_Row
  <2>6. QED
    BY <1>4, <2>1, <2>3, <2>4, <2>5
<1>5. CASE s = "req_ack"
  <2>1. f = "msgpack" /\ o = 5 /\ s \in Loaded
    BY <1>5, SpeciesAre DEF TextOf, Loaded
  <2>2. PICK n \in Nat : n = Len(Msgs[s].payload) /\ n = TextLen + 6
    BY <1>5, req_ack_Row, MessagesAssumption
  <2>3. Own(s) = 6 + 5 + TextLen
    <3>1. Own(s) = 6 + n - 1
      BY <1>5, <2>2 DEF Own, Textual
    <3>2. QED
      BY <2>2, <3>1, MessagesAssumption
  <2>4. \A i \in 1..TextLen : Msgs[s].payload[5 + i] = Cell("msgpack", i, LETTER)
    <3>1. TAKE i \in 1..TextLen
    <3>2. PICK p \in Nat : p = 5 + i /\ p \in 6..(TextLen + 5) /\ p - 5 = i
      BY MessagesAssumption
    <3>3. Msgs[s].payload[p] = Cell("msgpack", p - 5, LETTER)
      BY <1>5, <3>2, req_ack_Row
    <3>4. QED
      BY <3>2, <3>3
  <2>5. \A p \in 1..(5 + TextLen) : Msgs[s].payload[p].v # 0
    <3>1. 5 + TextLen = TextLen + 5
      BY MessagesAssumption
    <3>2. QED
      BY <1>5, <3>1, req_ack_Row
  <2>6. QED
    BY <1>5, <2>1, <2>3, <2>4, <2>5
<1>6. QED
  BY <1>1, <1>2, <1>3, <1>4, <1>5 DEF TextOf

\* A row is a function.
LEMMA RowFunction ==
  ASSUME NEW r \in Row
  PROVE  r = [i \in 1..Len(r) |-> r[i]]
<1>1. r \in [1..Len(r) -> CellType]
  BY LenProperties DEF Row
<1>2. QED
  BY <1>1

\* A string that ends with what was received is printed up to there.
LEMMA StrAs ==
  ASSUME NEW name, NEW m \in Row, NEW o \in Nat, Len(m) < BUFFER_SIZE, 6 + o <= Len(m),
         \A p \in (7 + o)..Len(m) : m[p].v # 0
  PROVE  Str(name, m, o) = Shown(name, Number(m, o, Len(m) - 6 - o))
<1> DEFINE ends == {n \in 0..Len(m) : At(m, 6 + o + n + 1).v = 0}
<1>1. PICK w \in Nat : w = Len(m) - 6 - o /\ Len(m) \in Nat /\ w <= Len(m) /\ 6 + o + w = Len(m)
  BY RowCells
<1>2. w \in ends
  <2>1. PICK p \in Int : p = 6 + o + w + 1 /\ p > Len(m)
    BY <1>1
  <2>2. At(m, p).v = 0
    BY <2>1, AtCell, NulRow
  <2>3. QED
    BY <1>1, <2>1, <2>2
<1>3. \A n \in ends : w <= n
  <2>1. SUFFICES ASSUME NEW n \in ends, n < w PROVE FALSE
    BY <1>1
  <2>2. PICK p \in Int : p = 6 + o + n + 1 /\ p \in (7 + o)..Len(m) /\ p \in 1..Len(m)
    BY <1>1, <2>1
  <2>3. At(m, p) = m[p] /\ m[p].v # 0
    BY <2>2, AtCell
  <2>4. QED
    BY <2>1, <2>2, <2>3
<1>4. ends \subseteq Nat
  BY <1>1
<1> HIDE DEF ends
<1>5. Min(ends) = w
  <2>1. \A x \in ends : (\A y \in ends : x <= y) => x = w
    BY <1>2, <1>3, <1>4
  <2>2. Min(ends) = CHOOSE x \in ends : \A y \in ends : x <= y
    BY DEF Min
  <2>3. QED
    BY <1>2, <1>3, <2>1, <2>2, Zenon
<1>6. Str(name, m, o) = Shown(name, Number(m, o, Min(ends)))
  BY DEF Str, ends
<1>7. QED
  BY <1>1, <1>5, <1>6

\* What was received of a message is what was built.
LEMMA CellAs ==
  ASSUME NEW s \in Loaded, NEW m, NEW g, Arrived(m, s, g), NEW k \in Nat \ {0}, 6 + k <= Own(s)
  PROVE  At(m, 6 + k) = Msgs[s].payload[k] /\ m[6 + k] = Msgs[s].payload[k]
<1> DEFINE b == Bytes(s, g)
           pl == Msgs[s].payload
<1>1. m \in Row /\ Len(m) \in Nat /\ Own(s) <= Len(m)
  BY RowCells DEF Arrived
<1>2. Framed(b, s, g) /\ pl \in Row /\ Len(pl) \in Nat
  BY BytesFramed, PayloadSized, RowCells DEF Sized
<1>3. s \in Species /\ Own(s) \in Nat /\ Own(s) <= Len(b)
  BY OwnRow DEF Loaded
<1> HIDE DEF b, pl
<1>4. PICK p \in Nat : p = 6 + k /\ p \in 1..Len(m) /\ p \in 1..Own(s)
  BY <1>1, <1>3
<1>5. p \in 7..(6 + Len(pl)) /\ p - 6 = k
  <2>1. Len(b) = 6 + Len(pl)
    BY <1>2 DEF Framed, pl
  <2>2. QED
    BY <1>2, <1>3, <1>4, <2>1
<1>6. b[p] = pl[k]
  <2>1. b[p] = pl[p - 6]
    BY <1>2, <1>5 DEF Framed, pl
  <2>2. QED
    BY <1>5, <2>1
<1>7. At(m, p) = m[p] /\ m[p] = b[p]
  BY <1>1, <1>4, AtCell DEF Arrived, b
<1>8. QED
  BY <1>4, <1>6, <1>7 DEF pl

\* A text is received as it was built.
LEMMA TextReceived ==
  ASSUME NEW s \in DOMAIN TextOf, NEW m, NEW g, Arrived(m, s, g)
  PROVE  Number(m, TextOf[s][2], TextLen) = Text(TextOf[s][1])
<1>1. PICK f, o : f = TextOf[s][1] /\ o = TextOf[s][2]
  OBVIOUS
<1>2. /\ s \in Loaded /\ o \in Nat /\ Own(s) = 6 + o + TextLen
      /\ \A i \in 1..TextLen : Msgs[s].payload[o + i] = Cell(f, i, LETTER)
  BY <1>1, TextPlaced
<1>3. ASSUME NEW i \in 1..TextLen PROVE At(m, 6 + o + i) = Cell(f, i, LETTER)
  <2>1. PICK k \in Nat \ {0} : k = o + i /\ 6 + k <= Own(s) /\ 6 + k = 6 + o + i
    BY <1>2, MessagesAssumption
  <2>2. At(m, 6 + k) = Msgs[s].payload[k]
    BY <1>2, <2>1, CellAs
  <2>3. QED
    BY <1>2, <2>1, <2>2
<1>4. QED
  BY <1>1, <1>3 DEF Number, Text

\* No byte of a message with a text that is received alone is 0 behind the sixth.
LEMMA TextNotZero ==
  ASSUME NEW s \in DOMAIN TextOf, NEW m, NEW g, Arrived(m, s, g), Len(m) = Own(s)
  PROVE  \A p \in 7..Len(m) : m[p].v # 0
<1>1. PICK f, o : f = TextOf[s][1] /\ o = TextOf[s][2]
  OBVIOUS
<1>2. /\ s \in Loaded /\ o \in Nat /\ Own(s) = 6 + o + TextLen
      /\ \A p \in 1..(o + TextLen) : Msgs[s].payload[p].v # 0
  BY <1>1, TextPlaced
<1>3. TAKE p \in 7..Len(m)
<1>4. PICK k \in Nat \ {0} : p = 6 + k /\ 6 + k <= Own(s) /\ k \in 1..(o + TextLen)
  <2>1. TextLen \in Nat /\ p \in Nat /\ p >= 7 /\ p <= 6 + o + TextLen
    BY <1>2, MessagesAssumption
  <2>2. p - 6 \in Nat \ {0} /\ p = 6 + (p - 6) /\ p - 6 <= o + TextLen
    BY <1>2, <2>1
  <2>3. QED
    BY <1>2, <2>1, <2>2
<1>5. QED
  BY <1>2, <1>4, CellAs

\* It is printed, from its first byte to its last; the body of a PUSH with two bytes
\* of the distance in front of it.
LEMMA AlsoText ==
  ASSUME NEW s \in DOMAIN TextOf, NEW m, NEW g, Arrived(m, s, g), Len(m) = Own(s),
         Len(m) < BUFFER_SIZE
  PROVE  Also(s, m) = {Shown(TextOf[s][1],
           IF s = "push_user" THEN SubSeq(Cells(s, "distance"), 3, 4) \o Text("body")
                              ELSE Text(TextOf[s][1]))}
<1>1. PICK f, o : f = TextOf[s][1] /\ o = TextOf[s][2]
  OBVIOUS
<1>2. /\ s \in Loaded /\ o \in Nat /\ o >= 4 /\ Own(s) = 6 + o + TextLen /\ TextLen \in Nat
      /\ m \in Row /\ Len(m) = 6 + o + TextLen /\ Number(m, o, TextLen) = Text(f)
  BY <1>1, TextPlaced, TextReceived, MessagesAssumption DEF Arrived
<1>3. ASSUME NEW q \in Nat, 6 + q <= Len(m), NEW name
      PROVE  Str(name, m, q) = Shown(name, Number(m, q, Len(m) - 6 - q))
  <2>1. \A p \in (7 + q)..Len(m) : m[p].v # 0
    <3>1. \A p \in (7 + q)..Len(m) : p \in 7..Len(m)
      BY <1>2
    <3>2. QED
      BY <3>1, TextNotZero
  <2>2. QED
    BY <1>2, <1>3, <2>1, StrAs
<1>4. CASE s # "push_user"
  <2>1. Also(s, m) = {Str(f, m, o)}
    BY <1>1, <1>4 DEF Also, TextOf
  <2>2. 6 + o <= Len(m) /\ Len(m) - 6 - o = TextLen
    BY <1>2
  <2>3. QED
    BY <1>1, <1>2, <1>3, <1>4, <2>1, <2>2
<1>5. CASE s = "push_user"
  <2>1. o = 22 /\ f = "body"
    BY <1>1, <1>5 DEF TextOf
  <2>2. Also(s, m) = {Str("body", m, 20)}
    BY <1>5 DEF Also
  <2>3. 20 \in Nat /\ 6 + 20 <= Len(m) /\ Len(m) - 6 - 20 = TextLen + 2
    BY <1>2, <2>1
  <2>4. Str("body", m, 20) = Shown("body", Number(m, 20, TextLen + 2))
    BY <1>3, <2>3
  <2> DEFINE d == Cells(s, "distance")
             t == Text("body")
             r == Number(m, 20, TextLen + 2)
  <2>5. d = Part(Bytes(s, 0), 18, 4)
    <3>1. <<"distance", 18, 4>> \in Shows(s)
      BY <1>5 DEF Shows, Where
    <3> DEFINE x == <<"distance", 18, 4>>
    <3>2. x[1] = "distance" /\ x[2] = 18 /\ x[3] = 4 /\ x \in Shows(s)
      BY <3>1
    <3> HIDE DEF x
    <3>3. QED
      BY <1>2, <3>2, PlacesAre
  <2>6. ASSUME NEW i \in 1..4 PROVE d[i] = At(m, 24 + i)
    <3>1. PICK p \in Nat : p = 24 + i /\ p \in 1..Own(s) /\ p \in 1..Len(m) /\ p >= 2
      BY <1>2, <2>1
    <3>2. Len(Bytes(s, 0)) \in Nat /\ Own(s) <= Len(Bytes(s, 0)) /\ p \in 2..Len(Bytes(s, 0))
      <4>1. s \in Species
        BY <1>2 DEF Loaded
      <4>2. Len(Bytes(s, 0)) \in Nat /\ Own(s) <= Len(Bytes(s, 0))
        BY <4>1, BytesRow, OwnRow, RowCells
      <4>3. QED
        BY <3>1, <4>2
    <3>3. Bytes(s, g)[p] = Bytes(s, 0)[p]
      BY <1>2, <3>2, BytesSame
    <3>4. At(m, p) = m[p] /\ m[p] = Bytes(s, g)[p]
      BY <1>2, <3>1, AtCell DEF Arrived
    <3>5. d[i] = Bytes(s, 0)[6 + 18 + i] /\ 6 + 18 + i = p
      BY <2>5, <3>1 DEF Part
    <3>6. QED
      BY <3>1, <3>3, <3>4, <3>5
  <2>7. d \in Row /\ Len(d) = 4
    <3>1. \A i \in 1..4 : d[i] \in CellType
      <4>1. TAKE i \in 1..4
      <4>2. PICK p \in Nat : p = 24 + i /\ p \in 1..Len(m)
        BY <1>2, <2>1
      <4>3. At(m, p) = m[p] /\ m[p] \in CellType
        <5>1. p \in Int /\ m \in Row
          BY <1>2
        <5>2. At(m, p) = m[p]
          BY <4>2, <5>1, AtCell
        <5>3. m[p] \in CellType
          BY <4>2, <5>1, RowCells
        <5>4. QED
          BY <5>2, <5>3
      <4>4. QED
        BY <2>6, <4>2, <4>3
    <3>2. DOMAIN d = 1..4 /\ d = [i \in 1..4 |-> d[i]]
      BY <2>5 DEF Part
    <3>3. d \in [1..4 -> CellType] /\ 4 \in Nat
      BY <3>1, <3>2
    <3> HIDE DEF d
    <3>4. Len(d) = 4 /\ d \in Seq(CellType)
      BY <3>2, <3>3
    <3>5. QED
      BY <3>4 DEF Row
  <2> HIDE DEF d
  <2> DEFINE e == SubSeq(d, 3, 4)
  <2>8. e \in Row /\ Len(e) = 2 /\ e[1] = d[3] /\ e[2] = d[4]
    <3>1. /\ SubSeq(d, 3, 4) \in Row /\ Len(SubSeq(d, 3, 4)) = 4 - 3 + 1
          /\ \A p \in 1..(4 - 3 + 1) : SubSeq(d, 3, 4)[p] = d[3 + p - 1]
      <4>1. d \in Row /\ 3 \in Nat \ {0} /\ 4 \in Nat /\ 3 <= 4 + 1 /\ 4 <= Len(d)
        BY <2>7
      <4>2. QED
        BY <4>1, SubRow
    <3>2. QED
      BY <3>1
  <2>9. t \in Row /\ Len(t) = TextLen
    BY TextRow DEF Letters, Piece, FieldNames
  <2>10. \A i \in 1..TextLen : t[i] = At(m, 28 + i)
    <3>1. TAKE i \in 1..TextLen
    <3>2. Number(m, 22, TextLen)[i] = At(m, 6 + 22 + i) /\ 6 + 22 + i = 28 + i
      BY <1>2 DEF Number
    <3>3. QED
      BY <1>2, <2>1, <3>2
  <2> HIDE DEF e, t
  <2>11. Stack2(e \o t, e, t)
    BY <2>8, <2>9, Rows2
  <2>12. e \o t \in Row /\ Len(e \o t) = TextLen + 2 /\ Follows(e \o t, 0, e) /\ Follows(e \o t, 2, t)
    BY <1>2, <2>8, <2>9, <2>11 DEF Stack2
  <2>13. ASSUME NEW i \in 1..(TextLen + 2) PROVE (e \o t)[i] = At(m, 26 + i)
    <3>1. CASE i = 1
      BY <2>6, <2>8, <2>12, <3>1 DEF Follows
    <3>2. CASE i = 2
      BY <2>6, <2>8, <2>12, <3>2 DEF Follows
    <3>3. CASE i >= 3
      <4>1. PICK k \in 1..TextLen : k = i - 2 /\ i \in (2 + 1)..(2 + Len(t)) /\ 28 + k = 26 + i
        BY <1>2, <2>9, <3>3
      <4>2. (e \o t)[i] = t[i - 2]
        BY <2>12, <4>1 DEF Follows
      <4>3. QED
        BY <2>10, <4>1, <4>2
    <3>4. i = 1 \/ i = 2 \/ i >= 3
      OBVIOUS
    <3>5. QED
      BY <3>1, <3>2, <3>3, <3>4
  <2>14. e \o t = [i \in 1..(TextLen + 2) |-> (e \o t)[i]]
    BY <2>12, RowFunction
  <2>15. r = [i \in 1..(TextLen + 2) |-> At(m, 26 + i)]
    BY DEF Number
  <2>16. r = e \o t
    BY <2>13, <2>14, <2>15
  <2>17. QED
    BY <1>1, <1>5, <2>1, <2>2, <2>4, <2>16 DEF e, d, t
<1>6. QED
  BY <1>4, <1>5

\* Each of the messages with a text, but for a SYNC-ACK, has one, and the others none.
LEMMA TextFields ==
  ASSUME NEW s \in Loaded, s # "sync_ack"
  PROVE  Fields(s) \cap Strings = IF s \in DOMAIN TextOf THEN {TextOf[s][1]} ELSE {}
<1> DEFINE b == Bytes(s, 0)
           pl == Msgs[s].payload
           target == IF s \in DOMAIN TextOf THEN {TextOf[s][1]} ELSE {}
           bounded == \E names : ListedIn(pl, names) /\ names \cap Strings \subseteq target
<1>1. ASSUME s = "connect" PROVE bounded
  <2>1. ListedIn(pl, {"uid", "token"})
    BY <1>1, connect_Fields DEF Spaced
  <2>2. target = {"token"}
    BY <1>1 DEF TextOf
  <2>3. {"uid", "token"} \cap Strings \subseteq {"token"}
    BY DEF Strings
  <2>4. QED
    BY <2>1, <2>2, <2>3
<1>2. ASSUME s = "ping" PROVE bounded
  <2>1. ListedIn(pl, {"heart_interval"})
    BY <1>2, ping_Fields DEF Spaced
  <2>2. target = {}
    BY <1>2 DEF TextOf
  <2>3. {"heart_interval"} \cap Strings \subseteq {}
    BY DEF Strings
  <2>4. QED
    BY <2>1, <2>2, <2>3
<1>3. ASSUME s = "send_user" PROVE bounded
  <2>1. ListedIn(pl, {"session_id", "local_id", "body"})
    BY <1>3, send_user_Fields DEF Spaced
  <2>2. target = {"body"}
    BY <1>3 DEF TextOf
  <2>3. {"session_id", "local_id", "body"} \cap Strings \subseteq {"body"}
    BY DEF Strings
  <2>4. QED
    BY <2>1, <2>2, <2>3
<1>4. ASSUME s = "send_recvack" PROVE bounded
  <2>1. ListedIn(pl, {"session_id", "ack_msg_id"})
    BY <1>4, send_recvack_Fields DEF Spaced
  <2>2. target = {}
    BY <1>4 DEF TextOf
  <2>3. {"session_id", "ack_msg_id"} \cap Strings \subseteq {}
    BY DEF Strings
  <2>4. QED
    BY <2>1, <2>2, <2>3
<1>5. ASSUME s = "send_readack" PROVE bounded
  <2>1. ListedIn(pl, {"session_id", "ack_msg_id"})
    BY <1>5, send_readack_Fields DEF Spaced
  <2>2. target = {}
    BY <1>5 DEF TextOf
  <2>3. {"session_id", "ack_msg_id"} \cap Strings \subseteq {}
    BY DEF Strings
  <2>4. QED
    BY <2>1, <2>2, <2>3
<1>6. ASSUME s = "send_ack" PROVE bounded
  <2>1. ListedIn(pl, {"local_id", "msg_timestamp"})
    BY <1>6, send_ack_Fields DEF Spaced
  <2>2. target = {}
    BY <1>6 DEF TextOf
  <2>3. {"local_id", "msg_timestamp"} \cap Strings \subseteq {}
    BY DEF Strings
  <2>4. QED
    BY <2>1, <2>2, <2>3
<1>7. ASSUME s = "push_user" PROVE bounded
  <2>1. ListedIn(pl, {"session_id", "msg_id", "msg_timestamp", "distance", "body"})
    BY <1>7, push_user_Fields DEF Spaced
  <2>2. target = {"body"}
    BY <1>7 DEF TextOf
  <2>3. {"session_id", "msg_id", "msg_timestamp", "distance", "body"} \cap Strings \subseteq {"body"}
    BY DEF Strings
  <2>4. QED
    BY <2>1, <2>2, <2>3
<1>8. ASSUME s = "push_readack" PROVE bounded
  <2>1. ListedIn(pl, {"session_id", "msg_id"})
    BY <1>8, push_readack_Fields DEF Spaced
  <2>2. target = {}
    BY <1>8 DEF TextOf
  <2>3. {"session_id", "msg_id"} \cap Strings \subseteq {}
    BY DEF Strings
  <2>4. QED
    BY <2>1, <2>2, <2>3
<1>9. ASSUME s = "delete_all" PROVE bounded
  <2>1. ListedIn(pl, {"local_id"})
    BY <1>9, delete_all_Fields DEF Spaced
  <2>2. target = {}
    BY <1>9 DEF TextOf
  <2>3. {"local_id"} \cap Strings \subseteq {}
    BY DEF Strings
  <2>4. QED
    BY <2>1, <2>2, <2>3
<1>10. ASSUME s = "delete_session" PROVE bounded
  <2>1. ListedIn(pl, {"local_id", "session_id"})
    BY <1>10, delete_session_Fields DEF Spaced
  <2>2. target = {}
    BY <1>10 DEF TextOf
  <2>3. {"local_id", "session_id"} \cap Strings \subseteq {}
    BY DEF Strings
  <2>4. QED
    BY <2>1, <2>2, <2>3
<1>11. ASSUME s = "delete_message" PROVE bounded
  <2>1. ListedIn(pl, {"local_id", "session_id", "message_id"})
    BY <1>11, delete_message_Fields DEF Spaced
  <2>2. target = {}
    BY <1>11 DEF TextOf
  <2>3. {"local_id", "session_id", "message_id"} \cap Strings \subseteq {}
    BY DEF Strings
  <2>4. QED
    BY <2>1, <2>2, <2>3
<1>12. ASSUME s = "delete_ack" PROVE bounded
  <2>1. ListedIn(pl, {"local_id"})
    BY <1>12, delete_ack_Fields DEF Spaced
  <2>2. target = {}
    BY <1>12 DEF TextOf
  <2>3. {"local_id"} \cap Strings \subseteq {}
    BY DEF Strings
  <2>4. QED
    BY <2>1, <2>2, <2>3
<1>13. ASSUME s = "req" PROVE bounded
  <2>1. ListedIn(pl, {"local_id", "msgpack"})
    BY <1>13, req_Fields DEF Spaced
  <2>2. target = {"msgpack"}
    BY <1>13 DEF TextOf
  <2>3. {"local_id", "msgpack"} \cap Strings \subseteq {"msgpack"}
    BY DEF Strings
  <2>4. QED
    BY <2>1, <2>2, <2>3
<1>14. ASSUME s = "req_ack" PROVE bounded
  <2>1. ListedIn(pl, {"local_id", "msgpack"})
    BY <1>14, req_ack_Fields DEF Spaced
  <2>2. target = {"msgpack"}
    BY <1>14 DEF TextOf
  <2>3. {"local_id", "msgpack"} \cap Strings \subseteq {"msgpack"}
    BY DEF Strings
  <2>4. QED
    BY <2>1, <2>2, <2>3
<1>15. ASSUME s = "sync_new" PROVE bounded
  <2>1. ListedIn(pl, {"local_id", "sync_local_id"})
    BY <1>15, sync_new_Fields DEF Spaced
  <2>2. target = {}
    BY <1>15 DEF TextOf
  <2>3. {"local_id", "sync_local_id"} \cap Strings \subseteq {}
    BY DEF Strings
  <2>4. QED
    BY <2>1, <2>2, <2>3
<1>16. ASSUME s = "sync_session" PROVE bounded
  <2>1. ListedIn(pl, {"local_id", "session_id", "start_message_id", "end_message_id"})
    BY <1>16, sync_session_Fields DEF Spaced
  <2>2. target = {}
    BY <1>16 DEF TextOf
  <2>3. {"local_id", "session_id", "start_message_id", "end_message_id"} \cap Strings \subseteq {}
    BY DEF Strings
  <2>4. QED
    BY <2>1, <2>2, <2>3
<1>17. ASSUME s = "sync_last" PROVE bounded
  <2>1. ListedIn(pl, {"local_id", "session_id"})
    BY <1>17, sync_last_Fields DEF Spaced
  <2>2. target = {}
    BY <1>17 DEF TextOf
  <2>3. {"local_id", "session_id"} \cap Strings \subseteq {}
    BY DEF Strings
  <2>4. QED
    BY <2>1, <2>2, <2>3
<1>18. ASSUME s = "disconnect" PROVE bounded
  <2>1. ListedIn(pl, {})
    BY <1>18, disconnect_Fields DEF Spaced
  <2>2. target = {}
    BY <1>18 DEF TextOf
  <2>3. {} \cap Strings \subseteq {}
    BY DEF Strings
  <2>4. QED
    BY <2>1, <2>2, <2>3
<1>19. bounded
  BY <1>1, <1>2, <1>3, <1>4, <1>5, <1>6, <1>7, <1>8, <1>9, <1>10, <1>11, <1>12, <1>13, <1>14, <1>15, <1>16, <1>17, <1>18, SpeciesAre DEF Loaded
<1>20. Framed(b, s, 0) /\ Len(pl) \in Nat /\ s \in Species
  BY BytesFramed, PayloadSized, RowCells DEF Sized, Loaded
<1> HIDE DEF b, bounded
<1>21. /\ Len(b) = 6 + Len(pl) /\ DOMAIN b = 1..Len(b)
       /\ \A p \in 1..6 : b[p].f \in {s, "byte", "length"}
       /\ \A p \in 7..(6 + Len(pl)) : b[p] = pl[p - 6]
  <2>1. /\ b \in Row /\ Len(b) = 6 + Len(pl) /\ b[1].f = s /\ b[2].f = "byte"
        /\ \A p \in 3..6 : b[p].f = "length"
        /\ \A p \in 7..(6 + Len(pl)) : b[p] = pl[p - 6]
    BY <1>20 DEF Framed
  <2>2. QED
    BY <2>1, RowCells
<1>22. Fields(s) \cap Strings \subseteq target
  <2>1. PICK names : ListedIn(pl, names) /\ names \cap Strings \subseteq target
    BY <1>19 DEF bounded
  <2>2. SUFFICES ASSUME NEW p \in DOMAIN b, b[p].f \in Strings, b[p].f \notin {"byte", s}
                 PROVE  b[p].f \in target
    BY DEF Fields, FieldsIn, b
  <2>3. b[p].f \notin {s, "byte", "length"}
    BY <1>20, <2>2, NamesApart
  <2>4. PICK q \in 1..Len(pl) : b[p] = pl[q]
    <3>1. p \in 7..(6 + Len(pl))
      BY <1>20, <1>21, <2>3
    <3>2. p - 6 \in 1..Len(pl)
      BY <1>20, <3>1
    <3>3. QED
      BY <1>21, <3>1, <3>2
  <2>5. b[p].f \in names
    BY <2>1, <2>2, <2>3, <2>4 DEF ListedIn
  <2>6. QED
    BY <2>1, <2>2, <2>5
<1>23. ASSUME s \in DOMAIN TextOf PROVE TextOf[s][1] \in Fields(s) \cap Strings
  <2>1. PICK f, o : f = TextOf[s][1] /\ o = TextOf[s][2]
    OBVIOUS
  <2>2. /\ f \in Strings /\ o \in Nat /\ Own(s) = 6 + o + TextLen
        /\ \A k \in 1..TextLen : pl[o + k] = Cell(f, k, LETTER)
    BY <1>23, <2>1, TextPlaced
  <2>3. pl[o + 1] = Cell(f, 1, LETTER)
    <3>1. 1 \in 1..TextLen
      BY MessagesAssumption
    <3>2. QED
      BY <2>2, <3>1
  <2>4. Own(s) <= Len(b)
    BY <1>20, OwnRow DEF b
  <2>5. PICK p \in Nat : p = 6 + o + 1 /\ p - 6 = o + 1 /\ p \in 7..(6 + Len(pl))
    BY <1>20, <1>21, <2>2, <2>4, MessagesAssumption
  <2>6. b[p].f = f /\ p \in DOMAIN b
    BY <1>20, <1>21, <2>3, <2>5 DEF Cell
  <2>7. f \notin {"byte", s}
    BY <1>20, <2>2, NamesApart
  <2>8. QED
    BY <2>1, <2>2, <2>6, <2>7 DEF Fields, FieldsIn, b
<1>24. QED
  BY <1>22, <1>23


\* Everything that is printed of a message, sorted.
LEMMA ParseSorted ==
  ASSUME NEW s \in Loaded, NEW m, NEW n, NEW g, Arrived(m, s, g), s # "sync_ack"
  PROVE  \E words, numbers :
           /\ Parse(m, n) = words \cup numbers \cup Also(s, m)
           /\ \A y \in words : y[1] \in Kinds \cup {"header", "version"}
           /\ \A y \in numbers : y[1] \in (FieldNames \ Strings) \cup {"length"}
<1> DEFINE words == Heading(m) \cup Details[s]
           numbers == {Shown("length", Number(m, -4, 4))} \cup Read(s, m)
<1>1. HeadOf(m, s) /\ s \in Species
  BY DEF Arrived, Loaded
<1>2. Value(m, 0) = Msgs[s].payload[1].v
  <2>1. 0 \in Nat /\ 7 + 0 <= Own(s) /\ 0 + 1 = 1
    BY OwnLong
  <2>2. QED
    BY <2>1, ValueAs
<1>3. Parse(m, n) = words \cup numbers \cup Also(s, m)
  <2>1. Parse(m, n) = Heading(m) \cup numbers \cup Rest(s, m, n)
    BY <1>1, <1>2, ParseAs
  <2>2. Rest(s, m, n) = Details[s] \cup Also(s, m)
    BY RestSays
  <2>3. QED
    BY <2>1, <2>2
<1>4. \A y \in Heading(m) : y[1] \in Kinds \cup {"header", "version"}
  <2>1. Wording("type", type_string, At(m, 1).v \div 16) = Told("type", Title(s))
    BY <1>1, TypeSaid DEF HeadOf
  <2>2. QED
    BY <2>1, TagOf DEF Heading, Kinds
<1>5. \A y \in words : y[1] \in Kinds \cup {"header", "version"}
  BY <1>1, <1>4, DetailsTags DEF Kinds
<1>6. \A y \in Read(s, m) : y[1] \in FieldNames \ Strings
  <2>1. TAKE y \in Read(s, m)
  <2>2. PICK x \in Where[s] : y = Shown(x[1], Number(m, x[2], x[3]))
    BY DEF Read
  <2>3. y[1] = x[1] /\ x[1] \in FieldNames \ Unprinted(s)
    BY <2>2, WhereAre, TagOf
  <2>4. QED
    BY <2>3 DEF Unprinted
<1>7. \A y \in numbers : y[1] \in (FieldNames \ Strings) \cup {"length"}
  BY <1>6, TagOf
<1>8. QED
  BY <1>3, <1>5, <1>7

\* Nothing undefined is used for a message with room behind it.
LEMMA NothingUndefined ==
  ASSUME NEW s \in Loaded, NEW m, NEW n, NEW g, Arrived(m, s, g), s # "sync_ack",
         Len(m) < BUFFER_SIZE
  PROVE  UNDEFINED \notin Parse(m, n)
<1>1. PICK words, numbers :
        /\ Parse(m, n) = words \cup numbers \cup Also(s, m)
        /\ \A y \in words : y[1] \in Kinds \cup {"header", "version"}
        /\ \A y \in numbers : y[1] \in (FieldNames \ Strings) \cup {"length"}
  BY ParseSorted
<1>2. \A name, o : Str(name, m, o)[1] = name
  BY TagOf DEF Str
<1>3. \A y \in Also(s, m) : y[1] \in Strings \cup {"completely"}
  BY <1>2, TagOf DEF Also, Strings
<1>4. "undefined" \notin Kinds \cup {"header", "version", "length", "completely"} \cup FieldNames \cup Strings
  BY DEF Kinds, FieldNames, Strings
<1>5. UNDEFINED[1] = "undefined"
  BY TagOf
<1>6. QED
  BY <1>1, <1>3, <1>4, <1>5

\* Two things put in front of a sequence move it by two places.
LEMMA TwoInFront ==
  ASSUME NEW S, NEW d \in Seq(S), NEW t \in Seq(S), Len(d) = 2
  PROVE  Len(d \o t) = Len(t) + 2 /\ \A k \in 1..Len(t) : (d \o t)[k + 2] = t[k]
<1>1. Len(t) \in Nat
  BY LenProperties
<1>2. /\ Len(d \o t) = Len(d) + Len(t)
      /\ \A i \in 1..(Len(d) + Len(t)) : (d \o t)[i] = IF i <= Len(d) THEN d[i] ELSE t[i - Len(d)]
  BY ConcatProperties
<1>3. ASSUME NEW k \in 1..Len(t) PROVE (d \o t)[k + 2] = t[k]
  <2>1. k + 2 \in 1..(Len(d) + Len(t)) /\ ~(k + 2 <= Len(d)) /\ (k + 2) - Len(d) = k
    BY <1>1
  <2>2. QED
    BY <1>2, <2>1
<1>4. QED
  BY <1>1, <1>2, <1>3

\* What has a text behind two cells ends with the text.
LEMMA EndsInText ==
  ASSUME NEW c, NEW f
  PROVE  IsSuffix(Text(f), SubSeq(c, 3, 4) \o Text(f))
<1> DEFINE d == SubSeq(c, 3, 4)
           t == Text(f)
           e == d \o t
<1>1. TextLen \in Nat
  BY MessagesAssumption
<1>2. DOMAIN t = 1..TextLen /\ Len(t) = TextLen
  BY <1>1 DEF Text
<1>3. DOMAIN d = 1..2 /\ Len(d) = 2
  OBVIOUS
<1> HIDE DEF d, t
<1>4. PICK S : t \in Seq(S) /\ d \in Seq(S)
  <2> DEFINE cells == {d[1], d[2]} \cup {t[k] : k \in 1..TextLen}
  <2>1. t \in Seq(cells)
    BY <1>1, <1>2 DEF Text, t
  <2>2. d \in Seq(cells)
    BY <1>3 DEF d
  <2>3. QED
    BY <2>1, <2>2
<1>5. Len(e) = TextLen + 2 /\ \A k \in 1..TextLen : e[k + 2] = t[k]
  BY <1>2, <1>3, <1>4, TwoInFront
<1> HIDE DEF e
<1>6. \A i \in 1..TextLen : Reverse(e)[i] = Reverse(t)[i]
  BY <1>1, <1>2, <1>5 DEF Reverse
<1>7. Len(Reverse(t)) = TextLen /\ Len(Reverse(e)) = TextLen + 2
  BY <1>1, <1>2, <1>5 DEF Reverse
<1>8. QED
  BY <1>1, <1>6, <1>7 DEF IsSuffix, IsPrefix, d, t, e

\* The text of a message that has arrived alone is printed, and nothing else as one.
LEMMA TextsAs ==
  ASSUME NEW s \in Loaded, NEW m, NEW n, NEW g, Arrived(m, s, g), s # "sync_ack",
         s \in Textual => Len(m) = Own(s) /\ Len(m) < BUFFER_SIZE
  PROVE  TextsPrinted(s, Parse(m, n))
<1>1. PICK words, numbers :
        /\ Parse(m, n) = words \cup numbers \cup Also(s, m)
        /\ \A y \in words : y[1] \in Kinds \cup {"header", "version"}
        /\ \A y \in numbers : y[1] \in (FieldNames \ Strings) \cup {"length"}
  BY ParseSorted
<1>2. \A t \in Strings : t \notin Kinds \cup {"header", "version", "length", "completely"}
  BY DEF Strings, Kinds
<1>3. Texts(Parse(m, n)) = {y \in Also(s, m) : y[1] \in Strings}
  BY <1>1, <1>2 DEF Texts
<1>4. CASE s \in DOMAIN TextOf
  <2>1. s \in Textual
    BY <1>4 DEF TextOf, Textual
  <2>2. TextOf[s][1] \in Strings
    BY <1>4, TextPlaced
  <2>3. PICK t : /\ Also(s, m) = {Shown(TextOf[s][1], t)}
                 /\ t = IF s = "push_user" THEN SubSeq(Cells(s, "distance"), 3, 4) \o Text("body")
                                           ELSE Text(TextOf[s][1])
    BY <1>4, <2>1, AlsoText
  <2>4. Texts(Parse(m, n)) = {Shown(TextOf[s][1], t)}
    BY <1>3, <2>2, <2>3, TagOf
  <2>5. CASE s = "push_user"
    <3>1. TextOf[s][1] = "body"
      BY <2>5 DEF TextOf
    <3>2. Texts(Parse(m, n)) = {Shown("body", t)} /\ Shown("body", t)[3] = t
      BY <2>4, <3>1 DEF Shown
    <3>3. IsSuffix(Text("body"), t)
      BY <2>3, <2>5, EndsInText
    <3>4. QED
      BY <2>5, <3>2, <3>3 DEF TextsPrinted
  <2>6. CASE s # "push_user"
    <3>1. Fields(s) \cap Strings = {TextOf[s][1]}
      BY <1>4, TextFields
    <3>2. {Shown(f, Text(f)) : f \in Fields(s) \cap Strings} = {Shown(TextOf[s][1], t)}
      BY <2>3, <2>6, <3>1
    <3>3. QED
      BY <2>4, <2>6, <3>2 DEF TextsPrinted
  <2>7. QED
    BY <2>5, <2>6
<1>5. CASE s \notin DOMAIN TextOf
  <2>1. s \notin {"connect", "send_user", "push_user", "req", "req_ack"}
    BY <1>5 DEF TextOf
  <2>2. \A y \in Also(s, m) : y[1] = "completely"
    BY <2>1, TagOf DEF Also
  <2>3. Texts(Parse(m, n)) = {}
    BY <1>2, <1>3, <2>2
  <2>4. Fields(s) \cap Strings = {}
    BY <1>5, TextFields
  <2>5. {Shown(f, Text(f)) : f \in Fields(s) \cap Strings} = {}
    BY <2>4
  <2>6. QED
    BY <2>1, <2>3, <2>5 DEF TextsPrinted
<1>6. QED
  BY <1>4, <1>5

-----------------------------------------------------------------------------
(* The texts of a SYNC-ACK. *)

\* What remains when a number of whole turns is taken away.
LEMMA TurnOf ==
  ASSUME NEW w \in Nat \ {0}, NEW j \in Nat, NEW r \in 0..(w - 1)
  PROVE  (j * w + r) % w = r
<1> DEFINE x == j * w + r
<1>1. PICK d \in Int, e \in Int : d = x \div w /\ e = x % w /\ x = w * d + e /\ 0 <= e /\ e < w
  <2>1. x \in Int
    OBVIOUS
  <2> HIDE DEF x
  <2>2. x \div w \in Int /\ x % w \in 0..(w - 1) /\ x = w * (x \div w) + (x % w)
    BY <2>1
  <2>3. QED
    BY <2>2
<1>2. w * d + e = j * w + r
  BY <1>1
<1>3. ~(d >= j + 1)
  <2>1. SUFFICES ASSUME d >= j + 1 PROVE FALSE
    OBVIOUS
  <2>2. w * d >= w * (j + 1)
    BY <2>1
  <2>3. w * (j + 1) = j * w + w
    OBVIOUS
  <2>4. QED
    BY <1>1, <1>2, <2>2, <2>3
<1>4. ~(d + 1 <= j)
  <2>1. SUFFICES ASSUME d + 1 <= j PROVE FALSE
    OBVIOUS
  <2>2. w * (d + 1) <= w * j
    BY <2>1
  <2>3. w * (d + 1) = w * d + w /\ w * j = j * w
    OBVIOUS
  <2>4. QED
    BY <1>1, <1>2, <2>2, <2>3
<1>5. d = j
  BY <1>3, <1>4
<1>6. e = r
  BY <1>2, <1>5
<1>7. QED
  BY <1>1, <1>6

\* Where the packed messages lie, and what is printed of them.
Turn(j) == 10 + j * Width
PackedText(j, n) ==
  <<"body", Turn(j), Text("body") \o (IF j = 0 THEN Junk(n) ELSE <<>>)>>

\* A SYNC-ACK consists of its own fields and the packed messages.
LEMMA SyncLong ==
  /\ "sync_ack" \in Loaded /\ Packed * Width \in Nat /\ Own("sync_ack") = 16 + Packed * Width
  /\ \A j \in Nat : Turn(j) \in Nat /\ Turn(j) >= 10 /\ Turn(j + 1) = Turn(j) + Width
  /\ \A j \in 0..(Packed - 1) : Turn(j + 1) <= Turn(Packed)
  /\ Turn(0) = 10 /\ Turn(Packed) = 10 + Packed * Width
<1>1. "sync_ack" \in Loaded
  BY SpeciesAre DEF Loaded
<1>2. PICK w \in Nat, k \in Nat, q \in Nat : w = Width /\ k = Packed /\ q = k * w /\ w >= 29
  BY Turns
<1>3. Own("sync_ack") = 16 + q
  <2>1. PICK l \in Nat : l = Len(Msgs["sync_ack"].payload) /\ l = 11 + q
    BY <1>2, sync_ack_Row
  <2>2. Own("sync_ack") = 6 + l - 1
    BY <2>1 DEF Own, Textual
  <2>3. QED
    BY <2>1, <2>2
<1>4. ASSUME NEW j \in Nat PROVE Turn(j) \in Nat /\ Turn(j) >= 10 /\ Turn(j + 1) = Turn(j) + w
  <2>1. j * w \in Nat /\ (j + 1) * w = j * w + w
    BY <1>2
  <2>2. Turn(j) = 10 + j * w /\ Turn(j + 1) = 10 + (j + 1) * w
    BY <1>2 DEF Turn
  <2>3. QED
    BY <2>1, <2>2
<1>5. ASSUME NEW j \in 0..(k - 1) PROVE Turn(j + 1) <= Turn(k)
  <2>1. j + 1 \in Nat /\ j + 1 <= k
    BY <1>2
  <2>2. (j + 1) * w <= k * w
    BY <1>2, <2>1
  <2>3. Turn(j + 1) = 10 + (j + 1) * w /\ Turn(k) = 10 + k * w
    BY <1>2 DEF Turn
  <2>4. (j + 1) * w \in Nat /\ k * w \in Nat
    BY <1>2, <2>1
  <2>5. QED
    BY <2>2, <2>3, <2>4
<1>6. Turn(0) = 10 /\ Turn(k) = 10 + q
  BY <1>2 DEF Turn
<1>7. QED
  BY <1>1, <1>2, <1>3, <1>4, <1>5, <1>6

\* They lie there.
LEMMA PackedCell ==
  ASSUME NEW m, NEW g, Arrived(m, "sync_ack", g), NEW j \in 0..(Packed - 1), NEW k \in 1..Width
  PROVE  At(m, 6 + Turn(j) + k) = PackedPush[k]
<1> DEFINE pl == Msgs["sync_ack"].payload
<1>1. PICK w \in Nat, q \in Nat, t \in Nat :
        /\ w = Width /\ q = Packed * Width /\ t = Turn(j) /\ w >= 29 /\ t + w <= 10 + q /\ t >= 10
        /\ t = 10 + j * w
  <2>1. Packed \in Nat /\ j \in Nat
    BY Turns
  <2>2. Turn(j) \in Nat /\ Turn(j) >= 10 /\ Turn(j) + Width <= 10 + Packed * Width
    BY <2>1, SyncLong
  <2>3. Turn(j) = 10 + j * Width
    BY DEF Turn
  <2>4. QED
    BY <2>2, <2>3, Turns
<1>2. PICK c \in Nat \ {0} : c = t + k /\ c \in 11..(10 + q) /\ c - 11 = j * w + (k - 1)
  <2>1. j * w \in Nat /\ k \in 1..w
    BY <1>1
  <2>2. QED
    BY <1>1, <2>1
<1>3. (c - 11) % w = k - 1
  <2>1. w \in Nat \ {0} /\ j \in Nat /\ k - 1 \in 0..(w - 1)
    BY <1>1
  <2>2. (j * w + (k - 1)) % w = k - 1
    BY <2>1, TurnOf
  <2>3. QED
    BY <1>2, <2>2
<1>4. pl[c] = PackedPush[((c - 11) % w) + 1]
  BY <1>1, <1>2, sync_ack_Row
<1>5. ((c - 11) % w) + 1 = k
  BY <1>3
<1>6. At(m, 6 + c) = pl[c]
  <2>1. 6 + c <= Own("sync_ack")
    BY <1>1, <1>2, SyncLong
  <2>2. QED
    BY <2>1, SyncLong, CellAs
<1>7. 6 + Turn(j) + k = 6 + c
  BY <1>1, <1>2
<1>8. QED
  BY <1>4, <1>5, <1>6, <1>7

\* The declared length of each is read as it was built.
LEMMA PackedLength ==
  ASSUME NEW m, NEW g, Arrived(m, "sync_ack", g), NEW j \in 0..(Packed - 1),
         Literal(TextLen + 22), TextLen + 22 < 256 * 256
  PROVE  LengthAt(m, Turn(j) + 2) = TextLen + 22
<1>1. PICK l \in Nat, t \in Nat : l = TextLen + 22 /\ t = Turn(j) /\ l < 256 * 256
  <2>1. TextLen \in Nat /\ j \in Nat
    BY MessagesAssumption, Turns
  <2>2. TextLen + 22 \in Nat /\ Turn(j) \in Nat
    BY <2>1, SyncLong
  <2>3. QED
    BY <2>2
<1>2. PICK a \in 0..255, b \in 0..255 : a = l \div 256 /\ b = l % 256 /\ a * 256 + b = l
  <2>1. PICK q \in Int, r \in 0..255 : q = l \div 256 /\ r = l % 256 /\ l = 256 * q + r
    <3>1. l \div 256 \in Int /\ l % 256 \in 0..255 /\ l = 256 * (l \div 256) + (l % 256)
      OBVIOUS
    <3>2. QED
      BY <3>1
  <2>2. q >= 0 /\ q <= 255 /\ q * 256 + r = l
    BY <1>1, <2>1, SMT
  <2>3. q \in 0..255 /\ l \div 256 = q /\ l % 256 = r
    BY <2>1, <2>2, SMT
  <2>4. QED
    <3>1. q = l \div 256 /\ r = l % 256 /\ q * 256 + r = l
      BY <2>1, <2>2
    <3>2. QED
      BY <2>3, <3>1, Zenon
<1>3. Digit(l, 3) = 0 /\ Digit(l, 2) = 0 /\ Digit(l, 1) = a /\ Digit(l, 0) = b
  <2>1. l < 65536 /\ l < 16777216
    BY <1>1, SMT
  <2>2. l \div 65536 = 0 /\ l \div 16777216 = 0 /\ 0 % 256 = 0
    BY <2>1, SMT
  <2>3. a % 256 = a /\ l \div 1 = l
    BY SMT
  <2>4. /\ Digit(l, 3) = (l \div 16777216) % 256 /\ Digit(l, 2) = (l \div 65536) % 256
        /\ Digit(l, 1) = (l \div 256) % 256 /\ Digit(l, 0) = (l \div 1) % 256
    BY SMT DEF Digit
  <2>5. QED
    BY <1>2, <2>2, <2>3, <2>4, SMT
<1>4. a # 255 /\ b # 255
  <2>1. Digit(l, 1) # 255 /\ Digit(l, 0) # 255
    BY <1>1 DEF Literal
  <2>2. QED
    BY <1>3, <2>1
<1>5. /\ PackedPush[3].v = PLUSONE(Digit(l, 3)) /\ PackedPush[4].v = PLUSONE(Digit(l, 2))
      /\ PackedPush[5].v = PLUSONE(Digit(l, 1)) /\ PackedPush[6].v = PLUSONE(Digit(l, 0))
  <2>1. \A p \in 3..6 : PackedPush[p].v = PLUSONE(Digit(TextLen + 22, 6 - p))
    BY PackedPushRow
  <2>2. 3 \in 3..6 /\ 4 \in 3..6 /\ 5 \in 3..6 /\ 6 \in 3..6 /\ 6 - 3 = 3 /\ 6 - 4 = 2 /\ 6 - 5 = 1 /\ 6 - 6 = 0
    OBVIOUS
  <2>3. QED
    BY <1>1, <2>1, <2>2
<1>6. PackedPush[3].v = 1 /\ PackedPush[4].v = 1 /\ PackedPush[5].v = a + 1 /\ PackedPush[6].v = b + 1
  <2>1. PLUSONE(0) = 1 /\ PLUSONE(a) = a + 1 /\ PLUSONE(b) = b + 1
    BY <1>2, <1>4 DEF PLUSONE
  <2>2. QED
    BY <1>3, <1>5, <2>1
<1>7. ASSUME NEW i \in 0..3 PROVE Value(m, t + 2 + i) = PackedPush[3 + i].v
  <2>1. PICK k \in 1..Width : k = 3 + i
    BY Turns
  <2>2. At(m, 6 + t + k) = PackedPush[k]
    BY <1>1, <2>1, PackedCell
  <2>3. 6 + (t + 2 + i) + 1 = 6 + t + k
    BY <1>1, <2>1
  <2>4. QED
    BY <2>1, <2>2, <2>3 DEF Value
<1>8. /\ Value(m, t + 2 + 0) = 1 /\ Value(m, t + 2 + 1) = 1
      /\ Value(m, t + 2 + 2) = a + 1 /\ Value(m, t + 2 + 3) = b + 1
  <2>1. /\ Value(m, t + 2 + 0) = PackedPush[3 + 0].v /\ Value(m, t + 2 + 1) = PackedPush[3 + 1].v
        /\ Value(m, t + 2 + 2) = PackedPush[3 + 2].v /\ Value(m, t + 2 + 3) = PackedPush[3 + 3].v
    BY <1>7
  <2>2. QED
    BY <1>6, <2>1
<1>9. LengthAt(m, t + 2) = a * 256 + b
  <2>1. /\ Value(m, t + 2 + 0) - 1 = 0 /\ Value(m, t + 2 + 1) - 1 = 0
        /\ Value(m, t + 2 + 2) - 1 = a /\ Value(m, t + 2 + 3) - 1 = b
    BY <1>2, <1>8
  <2>2. QED
    BY <2>1 DEF LengthAt
<1>10. QED
  BY <1>1, <1>2, <1>9

\* Its body is copied, and what the buffer held before behind the first.
LEMMA PackedBodyOf ==
  ASSUME NEW m, NEW g, Arrived(m, "sync_ack", g), NEW j \in 0..(Packed - 1), NEW behind
  PROVE  PackedBody(m, Turn(j) + 28, TextLen, behind) = Text("body") \o behind
<1> DEFINE o == Turn(j) + 28
           cells == Number(m, o, Min({TextLen, Len(m)}))
<1>1. TextLen \in Nat /\ Len(m) \in Nat /\ TextLen <= Len(m)
  <2>1. Len(m) \in Nat /\ Own("sync_ack") <= Len(m)
    BY RowCells DEF Arrived
  <2>2. TextLen \in Nat /\ Packed \in Nat /\ Packed >= 1 /\ Width = TextLen + 28
    BY MessagesAssumption DEF Width
  <2>3. Turn(1) = 10 + Width /\ Turn(1) <= Turn(Packed) /\ Turn(Packed) = 10 + Packed * Width
    <3>1. 0 \in 0..(Packed - 1) /\ 0 + 1 = 1 /\ 0 \in Nat
      BY <2>2
    <3>2. Turn(0 + 1) = Turn(0) + Width /\ Turn(0 + 1) <= Turn(Packed)
      BY <3>1, SyncLong
    <3>3. QED
      BY <3>1, <3>2, SyncLong
  <2>4. Own("sync_ack") = 16 + Packed * Width /\ Packed * Width \in Nat
    BY SyncLong
  <2>5. QED
    BY <2>1, <2>2, <2>3, <2>4
<1>2. Min({TextLen, Len(m)}) = TextLen
  <2> DEFINE set == {TextLen, Len(m)}
  <2>1. TextLen \in set /\ \A y \in set : TextLen <= y
    BY <1>1
  <2>2. \A x \in set : (\A y \in set : x <= y) => x = TextLen
    BY <1>1
  <2>3. Min(set) = CHOOSE x \in set : \A y \in set : x <= y
    BY DEF Min
  <2> HIDE DEF set
  <2>4. Min(set) = TextLen
    BY <2>1, <2>2, <2>3, Zenon
  <2>5. QED
    BY <2>4 DEF set
<1>3. ASSUME NEW i \in 1..TextLen PROVE At(m, 6 + o + i) = Cell("body", i, LETTER)
  <2>1. PICK k \in 1..Width : k = 28 + i /\ k \in 29..Width /\ k - 28 = i
    BY <1>1 DEF Width
  <2>2. PICK t \in Nat : t = Turn(j)
    BY Turns, SyncLong
  <2>3. At(m, 6 + t + k) = PackedPush[k]
    BY <2>2, PackedCell
  <2>4. PackedPush[k] = Cell("body", k - 28, LETTER)
    BY <2>1, PackedPushRow
  <2>5. 6 + o + i = 6 + t + k
    BY <2>1, <2>2
  <2>6. QED
    BY <2>1, <2>3, <2>4, <2>5
<1> HIDE DEF o
<1>4. cells = Text("body")
  BY <1>2, <1>3 DEF Number, Text
<1>5. {i \in DOMAIN cells : cells[i].v = 0} = {}
  <2>1. \A i \in 1..TextLen : Text("body")[i].v # 0
    BY DEF Text, Cell, LETTER
  <2>2. DOMAIN Text("body") = 1..TextLen
    BY DEF Text
  <2>3. QED
    BY <1>4, <2>1, <2>2
<1> HIDE DEF cells
<1>6. PackedBody(m, o, TextLen, behind) = cells \o behind
  BY <1>5 DEF PackedBody, cells
<1>7. QED
  BY <1>4, <1>6 DEF o

\* The parser goes from one packed message to the next.
LEMMA PackedStep ==
  ASSUME NEW m, NEW g, Arrived(m, "sync_ack", g), Len(m) = Own("sync_ack"), Len(m) < BUFFER_SIZE,
         Literal(TextLen + 22), NEW n, NEW f, NEW j \in 0..(Packed - 1)
  PROVE  BodiesFrom(m, 10, n, Turn(j), f) = {PackedText(j, n)} \cup f[Turn(j + 1)]
<1>1. PICK q \in Nat : q = Packed * Width /\ Len(m) = 16 + q /\ Turn(Packed) = 10 + q
  <2>1. Packed * Width \in Nat
    BY SyncLong
  <2>2. QED
    BY <2>1, SyncLong
<1>2. PICK o \in Nat, l \in Nat, t \in Nat :
        /\ o = Turn(j) /\ l = TextLen + 22 /\ t = TextLen
        /\ o + 6 + l = Turn(j + 1) /\ o + 6 + l <= 10 + q /\ o >= 10
        /\ l >= 22 /\ l - 22 = t
  <2>1. j \in Nat
    BY Turns
  <2>2. PICK t \in Nat : t = TextLen /\ Width = t + 28
    BY MessagesAssumption DEF Width
  <2>3. PICK o \in Nat : o = Turn(j) /\ o >= 10 /\ Turn(j + 1) = o + Width
    BY <2>1, SyncLong
  <2>4. Turn(j + 1) <= 10 + q
    BY <1>1, SyncLong
  <2>5. o + 6 + (t + 22) = o + (t + 28)
    OBVIOUS
  <2>6. /\ t + 22 \in Nat /\ t + 22 >= 22 /\ (t + 22) - 22 = t
        /\ o + 6 + (t + 22) = Turn(j + 1) /\ o + 6 + (t + 22) <= 10 + q
    BY <2>2, <2>3, <2>4, <2>5
  <2>7. QED
    BY <2>2, <2>3, <2>6
<1>3. PICK b \in Nat : b = BUFFER_SIZE /\ 6 + o + 6 + l < b /\ b <= 65536
  <2>1. PICK b \in Nat : b = BUFFER_SIZE /\ b <= 65536
    BY MessagesAssumption
  <2>2. 16 + q < b
    BY <1>1, <2>1
  <2>3. 6 + o + 6 + l <= 16 + q
    BY <1>2
  <2>4. 6 + o + 6 + l < b
    BY <2>2, <2>3
  <2>5. QED
    BY <2>1, <2>4
<1>4. LengthAt(m, o + 2) = l
  <2>1. l < 256 * 256
    BY <1>2, <1>3, SMT
  <2>2. TextLen + 22 < 256 * 256
    BY <1>2, <2>1
  <2>3. QED
    BY <1>2, <2>2, PackedLength
<1>5. Value(m, o) = 72
  <2>1. 1 \in 1..Width /\ 6 + o + 1 = 6 + Turn(j) + 1
    BY <1>2, Turns
  <2>2. At(m, 6 + Turn(j) + 1) = PackedPush[1]
    BY <2>1, PackedCell
  <2>3. QED
    BY <2>1, <2>2, PackedPushRow DEF Value
<1>6. o = 10 <=> j = 0
  <2>1. j = 0 => o = 10
    BY <1>2, SyncLong
  <2>2. ASSUME j # 0 PROVE o # 10
    <3>1. j - 1 \in Nat /\ (j - 1) + 1 = j
      BY <2>2, Turns
    <3>2. Turn(j) = Turn(j - 1) + Width /\ Turn(j - 1) \in Nat /\ Turn(j - 1) >= 10
      BY <3>1, SyncLong
    <3>3. QED
      BY <1>2, <3>2, Turns
  <2>3. QED
    BY <2>1, <2>2
<1> DEFINE behind == IF o = 10 THEN Junk(n) ELSE <<>>
<1>7. PackedBody(m, o + 28, l - 22, behind) = Text("body") \o behind
  <2> HIDE DEF behind
  <2>1. QED
    BY <1>2, PackedBodyOf
<1>8. <<"body", o, PackedBody(m, o + 28, l - 22, behind)>> = PackedText(j, n)
  BY <1>2, <1>6, <1>7 DEF PackedText
<1>9. ~(l < 22 \/ 6 + o + 6 + l >= BUFFER_SIZE)
  <2>1. ~(l < 22) /\ ~(6 + o + 6 + l >= b)
    BY <1>2, <1>3
  <2>2. QED
    BY <1>3, <2>1
<1>10. BodiesFrom(m, 10, n, o, f)
         = {<<"body", o, PackedBody(m, o + 28, l - 22, behind)>>} \cup f[o + 6 + l]
  BY <1>4, <1>5, <1>9 DEF BodiesFrom
<1>11. QED
  BY <1>2, <1>8, <1>10

\* ... and stops behind the last.
LEMMA PackedEnd ==
  ASSUME NEW m, NEW g, Arrived(m, "sync_ack", g), Len(m) = Own("sync_ack"), NEW n, NEW f
  PROVE  BodiesFrom(m, 10, n, Turn(Packed), f) = {}
<1>1. PICK p \in Int : p = 6 + Turn(Packed) + 1 /\ p > Len(m)
  <2>1. PICK q \in Nat : q = Packed * Width /\ Len(m) = 16 + q /\ Turn(Packed) = 10 + q
    <3>1. Packed * Width \in Nat
      BY SyncLong
    <3>2. QED
      BY <3>1, SyncLong
  <2>2. QED
    BY <2>1
<1>2. At(m, p).v = 0
  BY <1>1, AtCell, NulRow DEF Arrived
<1>3. Value(m, Turn(Packed)) = 0
  BY <1>1, <1>2 DEF Value
<1>4. QED
  BY <1>3 DEF BodiesFrom

\* Every packed message is found, and nothing else.
LEMMA SyncBodies ==
  ASSUME NEW m, NEW g, Arrived(m, "sync_ack", g), Len(m) = Own("sync_ack"), Len(m) < BUFFER_SIZE,
         Literal(TextLen + 22), NEW n
  PROVE  PackedBodies(m, 10, n) = {PackedText(j, n) : j \in 0..(Packed - 1)}
<1>1. PICK k \in Nat, q \in Nat : k = Packed /\ q = k * Width /\ Len(m) = 16 + q
  BY SyncLong, Turns
<1>2. BUFFER_SIZE \in Nat /\ 16 + q < BUFFER_SIZE
  BY <1>1, MessagesAssumption
<1>3. PICK f : IsWalk(f, m, 10, n) /\ PackedBodies(m, 10, n) = f[10]
  <2>1. m \in Row /\ 10 \in Nat /\ 10 <= BUFFER_SIZE
    BY <1>1, <1>2 DEF Arrived
  <2>2. QED
    BY <2>1, WalkOf
<1>4. \A o \in 10..BUFFER_SIZE : f[o] = BodiesFrom(m, 10, n, o, f)
  BY <1>3 DEF IsWalk
<1>5. \A j \in 0..k : Turn(j) \in 10..BUFFER_SIZE
  <2>1. TAKE j \in 0..k
  <2>2. Turn(j) \in Nat /\ Turn(j) >= 10 /\ Turn(k) = 10 + q
    <3>1. j \in Nat
      OBVIOUS
    <3>2. Turn(j) \in Nat /\ Turn(j) >= 10
      BY <3>1, SyncLong
    <3>3. Turn(k) = 10 + q
      BY <1>1, SyncLong
    <3>4. QED
      BY <3>2, <3>3
  <2>3. CASE j = k
    BY <1>2, <2>2, <2>3
  <2>4. CASE j # k
    <3>1. j \in 0..(k - 1) /\ j \in Nat
      BY <1>1, <2>4
    <3>2. Turn(j + 1) <= 10 + q /\ Turn(j + 1) = Turn(j) + Width
      BY <1>1, <3>1, SyncLong
    <3>3. QED
      BY <1>2, <2>2, <3>2, Turns
  <2>5. QED
    BY <2>3, <2>4
<1> DEFINE From(j) == {PackedText(i, n) : i \in j..(k - 1)}
           Found(d) == \A j \in 0..k : j + d = k => f[Turn(j)] = From(j)
           bad == {d \in Nat : ~Found(d)}
<1>6. Found(0)
  <2>1. TAKE j \in 0..k
  <2>2. HAVE j + 0 = k
  <2>3. j = k /\ j..(k - 1) = {}
    BY <2>2
  <2>4. f[Turn(k)] = {}
    BY <1>1, <1>4, <1>5, PackedEnd
  <2>5. QED
    BY <2>3, <2>4
<1>7. ASSUME NEW d \in Nat, Found(d) PROVE Found(d + 1)
  <2>1. TAKE j \in 0..k
  <2>2. HAVE j + (d + 1) = k
  <2>3. j \in 0..(k - 1) /\ j + 1 \in 0..k /\ (j + 1) + d = k
    BY <2>2
  <2>4. f[Turn(j)] = {PackedText(j, n)} \cup f[Turn(j + 1)]
    BY <1>1, <1>4, <1>5, <2>3, PackedStep
  <2>5. f[Turn(j + 1)] = From(j + 1)
    BY <1>7, <2>3
  <2>6. j..(k - 1) = {j} \cup (j + 1)..(k - 1)
    BY <2>3
  <2>7. QED
    BY <2>4, <2>5, <2>6
<1> HIDE DEF Found
<1>8. bad = {}
  <2> SUFFICES ASSUME bad # {} PROVE FALSE
    OBVIOUS
  <2>1. bad \in SUBSET Nat
    OBVIOUS
  <2>2. PICK d \in bad : \A e \in bad : d <= e
    BY <2>1, LeastOf
  <2>3. d \in Nat /\ ~Found(d) /\ d # 0
    BY <1>6, <2>2
  <2>4. PICK e \in Nat : d = e + 1
    <3>1. d - 1 \in Nat /\ d = (d - 1) + 1
      BY <2>3
    <3>2. QED
      BY <3>1
  <2>5. Found(e)
    <3>1. e \notin bad
      BY <2>2, <2>4
    <3>2. QED
      BY <3>1
  <2>6. QED
    BY <1>7, <2>3, <2>4, <2>5
<1>9. Found(k)
  BY <1>8
<1>10. f[Turn(0)] = From(0)
  <2>1. 0 \in 0..k /\ 0 + k = k
    OBVIOUS
  <2>2. QED
    BY <1>9, <2>1 DEF Found
<1>11. QED
  BY <1>1, <1>3, <1>10, SyncLong

\* Junk is a row.
LEMMA JunkRow ==
  ASSUME NEW n \in Nat
  PROVE  Junk(n) \in Row
<1>1. "junk" \in Names
  BY DEF Names
<1>2. \A i \in 1..n : Cell("junk", i, 1) \in CellType
  BY <1>1 DEF Cell, CellType
<1>3. Junk(n) \in [1..n -> CellType]
  BY <1>2 DEF Junk
<1>4. QED
  BY <1>3 DEF Row

\* No two packed messages lie at the same place.
LEMMA TurnsApart ==
  ASSUME NEW i \in Nat, NEW j \in Nat, Turn(i) = Turn(j)
  PROVE  i = j
<1>1. PICK w \in Nat : w = Width /\ w >= 29
  BY Turns
<1>2. ASSUME NEW a \in Nat, NEW b \in Nat, a + 1 <= b PROVE Turn(a) # Turn(b)
  <2>1. w * (a + 1) <= w * b
    BY <1>1, <1>2
  <2>2. w * (a + 1) = a * w + w /\ w * b = b * w
    OBVIOUS
  <2>3. a * w \in Nat /\ b * w \in Nat
    OBVIOUS
  <2>4. Turn(a) = 10 + a * w /\ Turn(b) = 10 + b * w
    BY <1>1 DEF Turn
  <2>5. QED
    BY <1>1, <2>1, <2>2, <2>3, <2>4
<1>3. ~(i + 1 <= j) /\ ~(j + 1 <= i)
  BY <1>2
<1>4. QED
  BY <1>3

\* The texts of the packed messages.
LEMMA PackedTexts ==
  ASSUME NEW n \in Nat
  PROVE  LET T == {PackedText(j, n) : j \in 0..(Packed - 1)} IN
         /\ Cardinality(T) = Packed
         /\ \A x \in T : x[1] = "body" /\ IsPrefix(Text("body"), x[3])
         /\ Cardinality({x \in T : x[3] # Text("body")}) <= 1
<1> DEFINE T == {PackedText(j, n) : j \in 0..(Packed - 1)}
           t == Text("body")
<1>1. Packed \in Nat
  BY Turns
<1>2. \A j : /\ PackedText(j, n)[1] = "body" /\ PackedText(j, n)[2] = Turn(j)
             /\ PackedText(j, n)[3] = t \o (IF j = 0 THEN Junk(n) ELSE <<>>)
  BY DEF PackedText
<1>3. t \in Row /\ Len(t) = TextLen /\ TextLen \in Nat /\ TextLen \in Nat \ {0}
  BY TextRow, MessagesAssumption DEF Letters, Piece, FieldNames
<1> HIDE DEF t
<1>4. t \o <<>> = t
  BY <1>3 DEF Row
<1>5. Cardinality(T) = Packed
  <2> DEFINE f == [j \in 0..(Packed - 1) |-> PackedText(j, n)]
  <2>1. \A j \in 0..(Packed - 1) : f[j] = PackedText(j, n)
    OBVIOUS
  <2>2. f \in [0..(Packed - 1) -> T]
    OBVIOUS
  <2>3. \A y \in T : \E j \in 0..(Packed - 1) : f[j] = y
    OBVIOUS
  <2>4. \A i, j \in 0..(Packed - 1) : f[i] = f[j] => i = j
    <3>1. TAKE i, j \in 0..(Packed - 1)
    <3>2. HAVE f[i] = f[j]
    <3>3. Turn(i) = Turn(j)
      BY <1>2, <2>1, <3>2
    <3>4. QED
      BY <3>3, TurnsApart
  <2> HIDE DEF f, T
  <2>5. f \in Surjection(0..(Packed - 1), T)
    BY <2>2, <2>3 DEF Surjection
  <2>6. f \in Injection(0..(Packed - 1), T)
    BY <2>2, <2>4 DEF Injection, IsInjective
  <2>7. IsFiniteSet(0..(Packed - 1)) /\ Cardinality(0..(Packed - 1)) = Packed
    <3>1. 0 \in Int /\ Packed - 1 \in Int
      BY <1>1
    <3>2. IsFiniteSet(0..(Packed - 1)) /\ Cardinality(0..(Packed - 1)) =
            IF 0 > Packed - 1 THEN 0 ELSE (Packed - 1) - 0 + 1
      BY <3>1, FS_Interval
    <3>3. QED
      BY <1>1, <3>2
  <2>8. QED
    BY <2>5, <2>6, <2>7, FS_Surjection
<1>6. ASSUME NEW x \in T PROVE x[1] = "body" /\ IsPrefix(t, x[3])
  <2>1. PICK j \in 0..(Packed - 1) : x = PackedText(j, n)
    OBVIOUS
  <2>2. PICK r \in Row : r = IF j = 0 THEN Junk(n) ELSE <<>>
    <3>1. <<>> \in Row
      BY DEF Row
    <3>2. QED
      BY <3>1, JunkRow
  <2>3. x[1] = "body" /\ x[3] = t \o r
    BY <1>2, <2>1, <2>2
  <2>4. PICK u : u = t \o r /\ u \in Row /\ Len(u) = Len(t) + Len(r) /\ Follows(u, 0, t)
    BY <1>3, <2>2, Rows2 DEF Stack2
  <2>5. u \in Row /\ Len(r) \in Nat /\ Len(u) \in Nat /\ Len(t) <= Len(u)
    BY <1>3, <2>2, <2>4, RowCells
  <2>6. /\ SubSeq(t, 1, Len(t)) \in Row /\ Len(SubSeq(t, 1, Len(t))) = Len(t)
        /\ \A p \in 1..Len(t) : SubSeq(t, 1, Len(t))[p] = t[p]
    <3>1. PICK k \in Nat : k = Len(t)
      BY <1>3
    <3>2. k <= Len(t)
      BY <3>1
    <3>3. /\ SubSeq(t, 1, k) \in Row /\ Len(SubSeq(t, 1, k)) = k - 1 + 1
          /\ \A p \in 1..(k - 1 + 1) : SubSeq(t, 1, k)[p] = t[1 + p - 1]
      BY <3>2, <1>3, SubRow
    <3>4. k - 1 + 1 = k /\ \A p \in 1..k : 1 + p - 1 = p
      OBVIOUS
    <3>5. QED
      BY <3>1, <3>3, <3>4
  <2>7. /\ SubSeq(u, 1, Len(t)) \in Row /\ Len(SubSeq(u, 1, Len(t))) = Len(t)
        /\ \A p \in 1..Len(t) : SubSeq(u, 1, Len(t))[p] = u[p]
    <3>1. PICK k \in Nat : k = Len(t)
      BY <1>3
    <3>2. k <= Len(u)
      BY <3>1, <2>5
    <3>3. /\ SubSeq(u, 1, k) \in Row /\ Len(SubSeq(u, 1, k)) = k - 1 + 1
          /\ \A p \in 1..(k - 1 + 1) : SubSeq(u, 1, k)[p] = u[1 + p - 1]
      BY <3>2, <2>5, SubRow
    <3>4. k - 1 + 1 = k /\ \A p \in 1..k : 1 + p - 1 = p
      OBVIOUS
    <3>5. QED
      BY <3>1, <3>3, <3>4
  <2>8. \A p \in 1..Len(t) : u[p] = t[p]
    <3>1. \A p \in 1..Len(t) : p \in (0 + 1)..(0 + Len(t)) /\ p - 0 = p
      BY <1>3
    <3>2. QED
      BY <2>4, <3>1 DEF Follows
  <2>9. SubSeq(t, 1, Len(t)) = SubSeq(u, 1, Len(t))
    <3>1. SubSeq(t, 1, Len(t)) = [p \in 1..Len(t) |-> t[p]]
      BY <2>6, RowFunction
    <3>2. SubSeq(u, 1, Len(t)) = [p \in 1..Len(t) |-> u[p]]
      BY <2>7, RowFunction
    <3>3. QED
      BY <2>8, <3>1, <3>2
  <2>10. QED
    BY <2>3, <2>4, <2>5, <2>9 DEF IsPrefix
<1>7. Cardinality({x \in T : x[3] # t}) <= 1
  <2> DEFINE odd == {x \in T : x[3] # t}
             zero == PackedText(0, n)
  <2>1. odd \subseteq {zero}
    <3>1. SUFFICES ASSUME NEW j \in 0..(Packed - 1), PackedText(j, n)[3] # t PROVE j = 0
      OBVIOUS
    <3>2. QED
      BY <1>2, <1>4, <3>1
  <2> HIDE DEF odd, zero
  <2>2. IsFiniteSet({zero}) /\ Cardinality({zero}) = 1
    BY FS_Singleton
  <2>3. odd \in SUBSET {zero}
    BY <2>1
  <2>4. Cardinality(odd) <= Cardinality({zero})
    BY <2>2, <2>3, FS_Subset
  <2>5. QED
    BY <2>2, <2>4 DEF odd
<1>8. QED
  BY <1>5, <1>6, <1>7 DEF t

\* What is printed besides the texts: words and numbers.
Sorted(printed_of, texts) == \E words, numbers :
  /\ printed_of = words \cup numbers \cup texts
  /\ \A y \in words : y[1] \in Kinds \cup {"header", "version"}
  /\ \A y \in numbers : y[1] \in (FieldNames \ Strings) \cup {"length"}

\* What is printed of a SYNC-ACK that has arrived alone.
LEMMA SyncSorted ==
  ASSUME NEW m, NEW n, NEW g, Arrived(m, "sync_ack", g), Len(m) = Own("sync_ack"),
         Len(m) < BUFFER_SIZE, Literal(TextLen + 22)
  PROVE  Sorted(Parse(m, n), {PackedText(j, n) : j \in 0..(Packed - 1)})
<1> DEFINE s == "sync_ack"
           done == {Wording("description", sync_ack_error, 0)}
           bodies == {PackedText(j, n) : j \in 0..(Packed - 1)}
           words == Heading(m) \cup done
           numbers == {Shown("length", Number(m, -4, 4))} \cup Read(s, m)
<1>1. HeadOf(m, s) /\ s \in Species /\ s \in Loaded
  BY SpeciesAre DEF Arrived, Loaded
<1>2. Value(m, 0) = Msgs[s].payload[1].v
  <2>1. 0 \in Nat /\ 7 + 0 <= Own(s) /\ 0 + 1 = 1
    BY <1>1, OwnLong
  <2>2. QED
    BY <1>1, <2>1, ValueAs
<1>3. Parse(m, n) = words \cup numbers \cup bodies
  <2>1. Parse(m, n) = Heading(m) \cup numbers \cup Rest(s, m, n)
    BY <1>1, <1>2, ParseAs
  <2>2. Rest(s, m, n) = done \cup PackedBodies(m, 10, n)
    BY DEF Rest
  <2>3. PackedBodies(m, 10, n) = bodies
    BY SyncBodies
  <2> HIDE DEF done, bodies, numbers
  <2>4. QED
    BY <2>1, <2>2, <2>3
<1>4. \A y \in Heading(m) : y[1] \in Kinds \cup {"header", "version"}
  <2>1. Wording("type", type_string, At(m, 1).v \div 16) = Told("type", Title(s))
    BY <1>1, TypeSaid DEF HeadOf
  <2>2. QED
    BY <2>1, TagOf DEF Heading, Kinds
<1>5. \A y \in done : y[1] \in Kinds
  <2>1. 0 \in DOMAIN sync_ack_error
    BY DEF sync_ack_error
  <2>2. Wording("description", sync_ack_error, 0) = Told("description", sync_ack_error[0])
    BY <2>1, WordingOf
  <2>3. QED
    BY <2>2, TagOf DEF Kinds
<1>6. \A y \in words : y[1] \in Kinds \cup {"header", "version"}
  BY <1>4, <1>5
<1>7. \A y \in Read(s, m) : y[1] \in FieldNames \ Strings
  <2>1. TAKE y \in Read(s, m)
  <2>2. PICK x \in Where[s] : y = Shown(x[1], Number(m, x[2], x[3]))
    BY DEF Read
  <2>3. y[1] = x[1] /\ x[1] \in FieldNames \ Unprinted(s)
    BY <1>1, <2>2, WhereAre, TagOf
  <2>4. QED
    BY <2>3 DEF Unprinted
<1>8. \A y \in numbers : y[1] \in (FieldNames \ Strings) \cup {"length"}
  BY <1>7, TagOf
<1> HIDE DEF words, numbers, bodies
<1>9. Sorted(Parse(m, n), bodies)
  BY <1>3, <1>6, <1>8 DEF Sorted
<1>10. QED
  BY <1>9 DEF bodies

\* Nothing undefined is used for a SYNC-ACK that has arrived alone, and what is
\* printed as texts are those of its packed messages.
LEMMA SyncTextsAs ==
  ASSUME NEW m, NEW n \in Nat, NEW g, Arrived(m, "sync_ack", g), Len(m) = Own("sync_ack"),
         Len(m) < BUFFER_SIZE, Literal(TextLen + 22)
  PROVE  TextsPrinted("sync_ack", Parse(m, n)) /\ UNDEFINED \notin Parse(m, n)
<1> DEFINE bodies == {PackedText(j, n) : j \in 0..(Packed - 1)}
<1>1. PICK words, numbers :
        /\ Parse(m, n) = words \cup numbers \cup bodies
        /\ \A y \in words : y[1] \in Kinds \cup {"header", "version"}
        /\ \A y \in numbers : y[1] \in (FieldNames \ Strings) \cup {"length"}
  <2>1. Sorted(Parse(m, n), bodies)
    BY SyncSorted
  <2> HIDE DEF bodies
  <2>2. QED
    BY <2>1 DEF Sorted
<1>2. /\ Cardinality(bodies) = Packed
      /\ \A x \in bodies : x[1] = "body" /\ IsPrefix(Text("body"), x[3])
      /\ Cardinality({x \in bodies : x[3] # Text("body")}) <= 1
  BY PackedTexts
<1> HIDE DEF bodies
<1>3. \A t \in Strings \cup {"undefined"} : t \notin Kinds \cup {"header", "version", "length"}
  BY DEF Strings, Kinds
<1>4. "body" \in Strings /\ "undefined" \notin FieldNames \cup Strings
  BY DEF Strings, FieldNames
<1>5. Texts(Parse(m, n)) = bodies
  BY <1>1, <1>2, <1>3, <1>4 DEF Texts
<1>6. UNDEFINED \notin Parse(m, n)
  <2>1. UNDEFINED[1] = "undefined"
    BY TagOf
  <2>2. QED
    BY <1>1, <1>2, <1>3, <1>4, <2>1
<1>7. QED
  BY <1>2, <1>5, <1>6 DEF TextsPrinted

-----------------------------------------------------------------------------
(* What is sent and what has arrived of it. *)

\* The block of memory that strlen is given.
LEMMA MemoryRow ==
  ASSUME NEW s \in Species, NEW g, NEW rest \in Row, Len(rest) \in Nat \ {0},
         rest[Len(rest)] = Nul
  PROVE  LET m == Bytes(s, g) \o rest IN
         /\ Stack2(m, Bytes(s, g), rest)
         /\ strlen(m) \in 0..(Len(m) - 1) /\ m[strlen(m) + 1].v = 0
         /\ \A k \in 1..strlen(m) : m[k].v # 0
<1> DEFINE b == Bytes(s, g)
           m == b \o rest
<1>1. b \in Row /\ Len(b) \in Nat
  BY BytesRow, RowCells
<1>2. Stack2(m, b, rest)
  BY <1>1, Rows2
<1> HIDE DEF m
<1>3. m \in Row /\ Len(b) + Len(rest) \in 1..Len(m) /\ m[Len(b) + Len(rest)] = rest[Len(rest)]
  BY <1>1, <1>2 DEF Stack2, Follows
<1>4. Nul.v = 0
  BY NulRow
<1>5. QED
  BY <1>2, <1>3, <1>4, StrlenOf DEF m

\* m begins with the bytes of s.
OwnFirst(m, s, g) == \A p \in 1..Own(s) : m[p] = Bytes(s, g)[p]

\* strlen finds every byte of a message, and none behind a text.
LEMMA SentOwn ==
  ASSUME LengthsFit, NEW s \in Species, NEW g, NEW rest \in Row, Len(rest) \in Nat \ {0},
         rest[Len(rest)] = Nul, NEW m, m = Bytes(s, g) \o rest
  PROVE  /\ m \in Row /\ strlen(m) \in 0..(Len(m) - 1) /\ Own(s) <= strlen(m)
         /\ s \in Textual => strlen(m) = Own(s)
         /\ OwnFirst(m, s, g)
<1> DEFINE b == Bytes(s, g)
           n == strlen(m)
<1>1. Stack2(m, b, rest) /\ n \in 0..(Len(m) - 1) /\ m[n + 1].v = 0 /\ \A k \in 1..n : m[k].v # 0
  BY MemoryRow
<1>2. b \in Row /\ Len(b) \in Nat /\ Own(s) \in Nat /\ Own(s) <= Len(b)
      /\ (s \in Textual => Len(b) = Own(s) + 1 /\ b[Own(s) + 1] = Nul)
  BY BytesRow, RowCells, OwnRow
<1>3. \A p \in 1..Own(s) : b[p].v # 0
  BY OwnNotZero
<1> HIDE DEF b, n
<1>4. m \in Row /\ Len(m) \in Nat /\ n \in Nat /\ \A p \in 1..Len(b) : m[p] = b[p]
  <2>1. m \in Row /\ Len(m) \in Nat /\ Follows(m, 0, b)
    BY <1>1, RowCells DEF Stack2
  <2>2. \A p \in 1..Len(b) : p \in (0 + 1)..(0 + Len(b)) /\ p - 0 = p
    BY <1>2
  <2>3. \A p \in 1..Len(b) : m[p] = b[p]
    BY <2>1, <2>2 DEF Follows
  <2>4. n \in Nat
    BY <1>1, <2>1
  <2>5. QED
    BY <2>1, <2>3, <2>4
<1>5. \A p \in 1..Own(s) : m[p] = b[p]
  <2>1. \A p \in 1..Own(s) : p \in 1..Len(b)
    BY <1>2
  <2>2. QED
    BY <1>4, <2>1
<1>6. ~(n + 1 <= Own(s))
  <2>1. n + 1 \in 1..Own(s) => m[n + 1].v # 0
    BY <1>3, <1>5
  <2>2. QED
    BY <1>1, <1>2, <1>4, <2>1
<1>7. ASSUME s \in Textual PROVE ~(Own(s) + 1 <= n)
  <2>1. m[Own(s) + 1] = Nul
    <3>1. Own(s) + 1 \in 1..Len(b)
      BY <1>2, <1>7
    <3>2. QED
      BY <1>2, <1>4, <1>7, <3>1
  <2>2. Nul.v = 0
    BY NulRow
  <2>3. Own(s) + 1 \in 1..n => m[Own(s) + 1].v # 0
    BY <1>1
  <2>4. QED
    BY <1>2, <1>4, <2>1, <2>2, <2>3
<1>8. Own(s) <= n /\ (s \in Textual => n = Own(s))
  BY <1>2, <1>4, <1>6, <1>7
<1>9. OwnFirst(m, s, g)
  BY <1>5 DEF OwnFirst, b
<1>10. QED
  BY <1>1, <1>4, <1>8, <1>9 DEF n

\* Of a message that has arrived the numbers are printed, each as it was built, and
\* no others.
LEMMA FiguresArrived ==
  ASSUME NEW s \in Loaded, NEW m, NEW n, NEW g, Arrived(m, s, g),
         s = "sync_ack" => BUFFER_SIZE >= 10
  PROVE  FiguresPrinted(s, Parse(m, n)) /\ NoOtherFigure(s, Parse(m, n))
<1>1. m \in Row /\ Len(m) \in Nat /\ Own(s) <= Len(m) /\ HeadOf(m, s)
  BY RowCells DEF Arrived
<1>2. Own(s) \in Nat /\ Own(s) >= 7
  BY OwnLong
<1>3. Value(m, 0) = Msgs[s].payload[1].v
  <2>1. 0 \in Nat /\ 7 + 0 <= Own(s) /\ 0 + 1 = 1
    BY <1>2
  <2>2. QED
    BY <2>1, ValueAs
<1>4. Figures(Parse(m, n)) = {Shown("length", Number(m, -4, 4))} \cup Read(s, m)
  BY <1>1, <1>3, FiguresAs
<1>5. ASSUME NEW x \in Shows(s) PROVE Number(m, x[2], x[3]) = Cells(s, x[1])
  <2>1. PICK k \in Int : k = 6 + x[2] + x[3] /\ k <= Own(s)
    BY PlacesAre
  <2>2. k <= Len(m) /\ \A p \in 1..k : m[p] = Bytes(s, g)[p]
    <3>1. k <= Len(m) /\ \A p \in 1..k : p \in 1..Own(s)
      BY <1>1, <1>2, <2>1
    <3>2. QED
      BY <3>1 DEF Arrived
  <2>3. QED
    BY <1>1, <2>1, <2>2, NumberAs
<1>6. {Shown("length", Number(m, -4, 4))} \cup Read(s, m)
        = {Shown(x[1], Number(m, x[2], x[3])) : x \in Shows(s)}
  <2> DEFINE first == <<"length", -4, 4>>
  <2>1. first[1] = "length" /\ first[2] = -4 /\ first[3] = 4
    OBVIOUS
  <2> HIDE DEF first
  <2>2. QED
    BY <2>1 DEF Shows, Read, first
<1>7. {Shown(x[1], Number(m, x[2], x[3])) : x \in Shows(s)}
        = {Shown(x[1], Cells(s, x[1])) : x \in Shows(s)}
  BY <1>5
<1>8. {Shown(x[1], Cells(s, x[1])) : x \in Shows(s)} = {Shown(f, Cells(s, f)) : f \in Printed(s)}
  BY PrintedAre
<1>9. Figures(Parse(m, n)) = {Shown(f, Cells(s, f)) : f \in Printed(s)}
  BY <1>4, <1>6, <1>7, <1>8
<1>10. FiguresPrinted(s, Parse(m, n))
  BY <1>9 DEF FiguresPrinted, Figures
<1>11. NoOtherFigure(s, Parse(m, n))
  <2>1. Printed(s) \subseteq Numbers(s)
    BY DEF Printed
  <2>2. QED
    BY <1>9, <2>1 DEF NoOtherFigure
<1>12. QED
  BY <1>10, <1>11

\* A RECONNECT is its first byte, which says that there is no payload.
LEMMA BareHeading ==
  ASSUME NEW m, ~Has(At(m, 1).v, 8), NEW n
  PROVE  /\ Parse(m, n) \subseteq Heading(m)
         /\ Wording("type", type_string, At(m, 1).v \div 16) \in Parse(m, n)
         /\ \A y \in Parse(m, n) :
              \/ y = Wording("type", type_string, At(m, 1).v \div 16)
              \/ y = Told("header", Masks(At(m, 1).v, {NEED_ACK, ACK_TYPE, SYNC_TYPE, HAS_PAYLOAD}))
              \/ y[1] = "version"
  BY TagOf DEF Parse, Heading, HAS_PAYLOAD

\* It is described as the menu offered it, and nothing else is printed of it.
LEMMA BareReport ==
  ASSUME NEW m, ~Has(At(m, 1).v, 8), At(m, 1).v \div 16 = Msgs["reconnect"].fixed \div 16, NEW n
  PROVE  Faithful("reconnect", Parse(m, n))
<1> DEFINE type == Wording("type", type_string, At(m, 1).v \div 16)
           p == Parse(m, n)
<1>1. "reconnect" \in Species
  BY SpeciesAre
<1>2. type = Told("type", Title("reconnect")) /\ type[1] = "type"
  BY <1>1, TypeSaid, TagOf
<1>3. type \in p /\ \A y \in p : y = type \/ y[1] \in {"header", "version"}
  BY BareHeading, TagOf
<1> HIDE DEF p, type
<1>4. Words(p) = Meaning("reconnect")
  <2>1. Words(p) = {type}
    BY <1>2, <1>3 DEF Words, Kinds
  <2>2. Details["reconnect"] = {}
    BY DEF Details
  <2>3. QED
    BY <1>2, <2>1, <2>2 DEF Meaning
<1>5. FiguresPrinted("reconnect", p) /\ NoOtherFigure("reconnect", p)
  <2>1. Figures(p) = {}
    BY <1>2, <1>3 DEF Figures, Kinds
  <2>2. QED
    BY <2>1, NoneOfReconnect DEF FiguresPrinted, NoOtherFigure
<1>6. Texts(p) = {} /\ UNDEFINED \notin p
  BY <1>2, <1>3, TagOf DEF Texts, Strings
<1>7. Fields("reconnect") \cap Strings = {}
  <2> DEFINE b == Bytes("reconnect", 0)
  <2>1. b \in Row /\ Len(b) = 1 /\ b[1].f = "reconnect"
    BY BytesReconnect
  <2> HIDE DEF b
  <2>2. DOMAIN b = 1..1
    BY <2>1 DEF Row
  <2>3. \A q \in DOMAIN b : b[q].f = "reconnect"
    BY <2>1, <2>2
  <2>4. QED
    BY <2>3 DEF Fields, FieldsIn, b
<1>8. TextsPrinted("reconnect", p)
  BY <1>6, <1>7 DEF TextsPrinted
<1>9. QED
  BY <1>4, <1>5, <1>6, <1>8 DEF Faithful, p

\* The length of a packed message holds no '\0' either.
LEMMA PackedFits ==
  ASSUME LengthsFit
  PROVE  Literal(TextLen + 22)
<1>1. "push_user" \in Species /\ Msgs["push_user"].length = TextLen + 22
  BY SpeciesAre, push_user_Row
<1>2. TextLen + 22 \in Nat
  BY MessagesAssumption
<1>3. QED
  BY <1>1, <1>2 DEF LengthsFit, Literal

-----------------------------------------------------------------------------
(* A message that has arrived alone, in memory that held nothing. *)

\* A byte is the sum of its bits.
LEMMA BitsOf ==
  ASSUME NEW b \in 0..255
  PROVE  Flag({m \in {1, 2, 4, 8, 16, 32, 64, 128} : Has(b, m)}) = b
<1> DEFINE S == {m \in {1, 2, 4, 8, 16, 32, 64, 128} : Has(b, m)}
           bit(m) == IF m \in S THEN m ELSE 0
<1>1. PICK q1 \in Nat : q1 = b \div 2 /\ b = 2 * q1 + (b % 2)
  OBVIOUS
<1>2. PICK q2 \in Nat : q2 = b \div 4 /\ q1 = 2 * q2 + (q1 % 2)
  BY <1>1
<1>3. PICK q3 \in Nat : q3 = b \div 8 /\ q2 = 2 * q3 + (q2 % 2)
  BY <1>1, <1>2
<1>4. PICK q4 \in Nat : q4 = b \div 16 /\ q3 = 2 * q4 + (q3 % 2)
  BY <1>1, <1>2, <1>3
<1>5. PICK q5 \in Nat : q5 = b \div 32 /\ q4 = 2 * q5 + (q4 % 2)
  BY <1>1, <1>2, <1>3, <1>4
<1>6. PICK q6 \in Nat : q6 = b \div 64 /\ q5 = 2 * q6 + (q5 % 2)
  BY <1>1, <1>2, <1>3, <1>4, <1>5
<1>7. PICK q7 \in 0..1 : q7 = b \div 128 /\ q6 = 2 * q7 + (q6 % 2)
  BY <1>1, <1>2, <1>3, <1>4, <1>5, <1>6
<1>8. b \div 1 = b /\ q7 % 2 = q7
  OBVIOUS
<1>9. /\ bit(1) = b % 2 /\ bit(2) = 2 * (q1 % 2) /\ bit(4) = 4 * (q2 % 2) /\ bit(8) = 8 * (q3 % 2)
      /\ bit(16) = 16 * (q4 % 2) /\ bit(32) = 32 * (q5 % 2) /\ bit(64) = 64 * (q6 % 2)
      /\ bit(128) = 128 * (q7 % 2)
  <2>1. ASSUME NEW m \in {1, 2, 4, 8, 16, 32, 64, 128}, NEW q \in Nat, q = b \div m
        PROVE  bit(m) = m * (q % 2)
    <3>1. CASE q % 2 = 1
      BY <2>1, <3>1 DEF Has
    <3>2. CASE q % 2 = 0
      BY <2>1, <3>2 DEF Has
    <3>3. QED
      BY <2>1, <3>1, <3>2
  <2> HIDE DEF bit
  <2>2. bit(1) = 1 * (b % 2) /\ 1 * (b % 2) = b % 2
    BY <1>8, <2>1
  <2>3. QED
    BY <1>1, <1>2, <1>3, <1>4, <1>5, <1>6, <1>7, <2>1, <2>2
<1>10. Flag(S) = bit(1) + bit(2) + bit(4) + bit(8) + bit(16) + bit(32) + bit(64) + bit(128)
  BY DEF Flag
<1> HIDE DEF S, bit
<1>11. Flag(S) = b
  BY <1>1, <1>2, <1>3, <1>4, <1>5, <1>6, <1>7, <1>8, <1>9, <1>10
<1>12. QED
  BY <1>11 DEF S

\* Nothing is added to the first byte of a message by a byte that holds 0.
LEMMA OrZero ==
  ASSUME NEW b \in 0..255
  PROVE  Or(0, b) = b
<1>1. \A m \in {1, 2, 4, 8, 16, 32, 64, 128} : ~Has(0, m)
  BY DEF Has
<1>2. {m \in {1, 2, 4, 8, 16, 32, 64, 128} : Has(0, m) \/ Has(b, m)}
        = {m \in {1, 2, 4, 8, 16, 32, 64, 128} : Has(b, m)}
  BY <1>1
<1>3. QED
  BY <1>2, BitsOf DEF Or

\* What is sent of s when its memory held nothing: its own bytes, and no text has
\* anything behind it.
Clean(c, s) ==
  /\ c \in Row /\ Len(c) \in Nat /\ Own(s) \in Nat \ {0} /\ Own(s) <= Len(c)
  /\ s \in Textual => Len(c) = Own(s)
  /\ OwnFirst(c, s, 0)

\* That is what strlen finds.
LEMMA CleanSent ==
  ASSUME LengthsFit, NEW s \in Species, NEW rest \in Row, Len(rest) \in Nat \ {0},
         rest[Len(rest)] = Nul
  PROVE  LET m == Bytes(s, 0) \o rest IN
         /\ Clean(SubSeq(m, 1, strlen(m)), s)
         /\ Len(SubSeq(m, 1, strlen(m))) < Len(Bytes(s, 0)) + Len(rest)
<1>1. PICK m : m = Bytes(s, 0) \o rest
  OBVIOUS
<1> DEFINE k == strlen(m)
           c == SubSeq(m, 1, k)
<1>2. /\ m \in Row /\ k \in 0..(Len(m) - 1) /\ Own(s) <= k
      /\ s \in Textual => k = Own(s)
      /\ OwnFirst(m, s, 0)
  <2>1. m \in Row /\ k \in 0..(Len(m) - 1) /\ Own(s) <= k
    BY <1>1, SentOwn
  <2>2. s \in Textual => k = Own(s)
    BY <1>1, SentOwn
  <2>3. OwnFirst(m, s, 0)
    BY <1>1, SentOwn
  <2>4. QED
    BY <2>1, <2>2, <2>3
<1>3. Own(s) \in Nat \ {0}
  BY OwnRow
<1>4. Len(m) = Len(Bytes(s, 0)) + Len(rest)
  BY <1>1, MemoryRow DEF Stack2
<1> HIDE DEF k
<1>5. Len(m) \in Nat /\ k \in Nat /\ k <= Len(m) /\ k < Len(m)
  <2>1. Len(m) \in Nat
    BY <1>2, RowCells
  <2>2. QED
    BY <1>2, <2>1
<1>6. c \in Row /\ Len(c) = k /\ \A p \in 1..k : c[p] = m[p]
  <2>1. /\ c \in Row /\ Len(c) = k - 1 + 1 /\ \A p \in 1..(k - 1 + 1) : c[p] = m[1 + p - 1]
    BY <1>2, <1>5, SubRow
  <2>2. k - 1 + 1 = k /\ \A p \in 1..k : 1 + p - 1 = p
    BY <1>5
  <2>3. QED
    BY <2>1, <2>2
<1> HIDE DEF c
<1>7. OwnFirst(c, s, 0)
  <2>1. \A p \in 1..Own(s) : p \in 1..k
    BY <1>2, <1>3, <1>5
  <2>2. QED
    BY <1>2, <1>6, <2>1 DEF OwnFirst
<1>8. Clean(c, s)
  BY <1>2, <1>3, <1>5, <1>6, <1>7 DEF Clean
<1>9. Len(c) < Len(m)
  BY <1>5, <1>6
<1>10. QED
  BY <1>1, <1>4, <1>8, <1>9 DEF c, k

\* It arrives as it was built.
LEMMA CleanArrives ==
  ASSUME NEW s \in Loaded, NEW c, Clean(c, s)
  PROVE  Arrived(c, s, 0)
<1>1. c \in Row /\ Len(c) \in Nat /\ Own(s) \in Nat /\ Own(s) >= 7 /\ Own(s) <= Len(c)
  BY OwnLong DEF Clean
<1>2. 1 \in 1..Own(s) /\ 2 \in 1..Own(s) /\ 1 \in 1..Len(c) /\ 2 \in 1..Len(c)
  BY <1>1
<1>3. Framed(Bytes(s, 0), s, 0) /\ Or(0, Msgs[s].fixed) = Msgs[s].fixed
  BY BytesFramed, FixedBytes, OrZero
<1>4. c[1] = Bytes(s, 0)[1] /\ c[2] = Bytes(s, 0)[2]
  BY <1>2 DEF Clean, OwnFirst
<1>5. c[1].v = Msgs[s].fixed /\ c[2].v = 3
  BY <1>3, <1>4 DEF Framed
<1>6. At(c, 1) = c[1] /\ At(c, 2) = c[2]
  <2>1. 1 \in Int /\ 2 \in Int
    OBVIOUS
  <2>2. QED
    BY <1>1, <1>2, <2>1, AtCell
<1>7. HeadOf(c, s)
  BY <1>5, <1>6 DEF HeadOf
<1>8. QED
  BY <1>1, <1>7 DEF Arrived, Clean, OwnFirst

\* Its report is printed and nothing else, if there is room behind it.
LEMMA CleanReport ==
  ASSUME LengthsFit, NEW s \in Species, NEW c, Clean(c, s), Len(c) < BUFFER_SIZE, NEW n \in Tails
  PROVE  Faithful(s, Parse(c, n))
<1>1. CASE s = "reconnect"
  <2>1. Own(s) = 1 /\ Msgs[s].fixed = 208 /\ Or(0, 208) = 208
    <3>1. 208 \in 0..255
      OBVIOUS
    <3>2. QED
      BY <1>1, <3>1, reconnect_Row, OrZero DEF Own
  <2>2. Bytes(s, 0)[1].v = 208
    BY <1>1, <2>1, BytesReconnect
  <2>3. c \in Row /\ Len(c) \in Nat /\ 1 <= Len(c) /\ c[1] = Bytes(s, 0)[1]
    BY <2>1 DEF Clean, OwnFirst
  <2>4. At(c, 1) = c[1]
    <3>1. 1 \in 1..Len(c) /\ 1 \in Int
      BY <2>3
    <3>2. QED
      BY <2>3, <3>1, AtCell
  <2>5. ~Has(208, 8)
    BY DEF Has
  <2>6. QED
    BY <1>1, <2>1, <2>2, <2>3, <2>4, <2>5, BareReport
<1>2. CASE s \in Loaded
  <2>1. Arrived(c, s, 0)
    BY <1>2, CleanArrives
  <2>2. s \in Textual => Len(c) = Own(s)
    BY DEF Clean
  <2>3. s = "sync_ack" => BUFFER_SIZE >= 10
    <3>1. Own(s) \in Nat /\ Own(s) <= Len(c) /\ Len(c) \in Nat /\ (s = "sync_ack" => Own(s) >= 10)
      BY <1>2, OwnLong DEF Clean
    <3>2. QED
      BY <3>1, MessagesAssumption
  <2>4. /\ FiguresPrinted(s, Parse(c, n)) /\ NoOtherFigure(s, Parse(c, n))
        /\ Words(Parse(c, n)) = Meaning(s)
    BY <1>2, <2>1, <2>3, FiguresArrived, WordsAs
  <2>5. TextsPrinted(s, Parse(c, n)) /\ UNDEFINED \notin Parse(c, n)
    <3>1. n \in Nat
      BY MessagesAssumption
    <3>2. CASE s = "sync_ack"
      <4>1. Len(c) = Own("sync_ack")
        BY <2>2, <3>2 DEF Textual
      <4>2. QED
        BY <2>1, <3>1, <3>2, <4>1, PackedFits, SyncTextsAs
    <3>3. CASE s # "sync_ack"
      BY <1>2, <2>1, <2>2, <3>3, TextsAs, NothingUndefined
    <3>4. QED
      BY <3>2, <3>3
  <2>6. QED
    BY <2>4, <2>5 DEF Faithful
<1>3. QED
  BY <1>1, <1>2 DEF Loaded

=============================================================================
