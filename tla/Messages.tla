------------------------------ MODULE Messages ------------------------------
(***************************************************************************)
(* The messages of the Hermes protocol as hippie.c builds and reads them:  *)
(* the builders, the menus of message.c that choose one, the parsers and   *)
(* the names they print.  There is no state here; Wire sends one message   *)
(* after another, Session has the threads of main.c do it.                 *)
(*                                                                         *)
(* A message is a sequence of cells.  A cell is one byte: v is its value,  *)
(* f and i say of which field it is which byte, so that a field that is    *)
(* read at the wrong place is seen to be another.                          *)
(***************************************************************************)
EXTENDS Integers, FiniteSets, SequencesExt, FiniteSetsExt

CONSTANTS
  TextLen,      \* the length of every string in a message
  Packed,       \* the PUSH messages in a SYNC-ACK (8 in the code)
  BUFFER_SIZE,  \* the size of the receive buffer
  Tails         \* how many bytes that are not 0 uninitialised memory may begin with

ASSUME MessagesAssumption ==
  /\ TextLen \in Nat \ {0} /\ Packed \in Nat
  /\ BUFFER_SIZE \in Nat \ {0} /\ BUFFER_SIZE <= 65536 /\ Tails \subseteq Nat

-----------------------------------------------------------------------------
(* Bytes. *)

Cell(f, i, v) == [f |-> f, i |-> i, v |-> v]
Byte(v)       == <<Cell("byte", 1, v)>>
Nul           == Cell("byte", 1, 0)
Junk(n)       == [i \in 1..n |-> Cell("junk", i, 1)]

\* Every string consists of letters; one of them will do.
LETTER  == 104
Text(f) == [i \in 1..TextLen |-> Cell(f, i, LETTER)]

PLUSONE(x)  == (x + 1) % 256
MINUSONE(y) == (y - 1) % 256

\* A number is sent from its highest byte to its lowest, each incremented (see
\* Codec).  No literal of the code has more than four bytes.
Digit(n, k)  == IF k > 3 THEN 0 ELSE (n \div <<1, 256, 65536, 16777216>>[k + 1]) % 256
Num(f, w, n) == [i \in 1..w |-> Cell(f, i, PLUSONE(Digit(n, w - i)))]
Length(n)    == Num("length", 4, n)

HERMES_VERSION == 3
NEED_ACK    == 1
ACK_TYPE    == 2
SYNC_TYPE   == 4
HAS_PAYLOAD == 8
MSG_FLAG_NEED_RECEIPTS == 1
MSG_FLAG_IS_RECEIPTS   == 2
MSG_FLAG_IS_READ       == 4
MSG_FLAG_IS_USERMSG    == 8
MSG_FLAG_IS_DELETE     == 16
MSG_TYPE_PRIVATE_CHAT  == 2

Has(b, mask)    == (b \div mask) % 2 = 1
Masks(b, masks) == {m \in masks : Has(b, m)}
Flag(masks)     == LET bit(m) == IF m \in masks THEN m ELSE 0
                   IN bit(1) + bit(2) + bit(4) + bit(8) + bit(16) + bit(32) + bit(64) + bit(128)
Or(a, b)        == Flag({m \in {1, 2, 4, 8, 16, 32, 64, 128} : Has(a, m) \/ Has(b, m)})

CONNECT_TYPE_UID  == 16843009
LOCAL_ID          == 9
SYNC_LOCAL_ID     == 66
MESSAGE_TIMESTAMP == 1590378633
MESSAGE_DISTANCE  == 22
MESSAGE_ID        == 1314

-----------------------------------------------------------------------------
(* The builders: first byte, declared length of the payload, payload. *)

Msg(fixed_byte, length, payload) ==
  [fixed |-> fixed_byte, length |-> length, payload |-> payload]

PrivateChat == Byte(MSG_TYPE_PRIVATE_CHAT) \o Num("session_id", 4, CONNECT_TYPE_UID)
LocalId     == Num("local_id", 4, LOCAL_ID)
SyncLocalId == Num("sync_local_id", 4, SYNC_LOCAL_ID)
Timestamp   == Num("msg_timestamp", 4, MESSAGE_TIMESTAMP)

ConnectMsgs == [
  connect |-> Msg(\h10 + NEED_ACK + HAS_PAYLOAD, 4 + TextLen,
                  Num("uid", 4, CONNECT_TYPE_UID) \o Text("token") \o <<Nul>>),
  ping    |-> Msg(\h20 + NEED_ACK + HAS_PAYLOAD, 2, Num("heart_interval", 2, 6)) ]

Receipt(masks, id) == Byte(Flag({MSG_FLAG_IS_RECEIPTS} \cup masks)) \o PrivateChat \o id

SendMsgs == [
  send_user    |-> Msg(\h30 + NEED_ACK + HAS_PAYLOAD, TextLen + 10,
                       Byte(Flag({MSG_FLAG_NEED_RECEIPTS, MSG_FLAG_IS_USERMSG}))
                         \o PrivateChat \o LocalId \o Text("body") \o <<Nul>>),
  send_recvack |-> Msg(\h30 + HAS_PAYLOAD, 14, Receipt({}, Num("ack_msg_id", 8, LOCAL_ID))),
  send_readack |-> Msg(\h30 + HAS_PAYLOAD, 14,
                       Receipt({MSG_FLAG_IS_READ}, Num("ack_msg_id", 8, LOCAL_ID))),
  send_ack     |-> Msg(\h30 + ACK_TYPE + HAS_PAYLOAD, 9, Byte(13) \o LocalId \o Timestamp) ]

PushMsgs == [
  push_user    |-> Msg(\h40 + HAS_PAYLOAD, TextLen + 22,
                       Byte(Flag({MSG_FLAG_IS_USERMSG})) \o PrivateChat
                         \o Num("msg_id", 8, MESSAGE_ID) \o Timestamp
                         \o Num("distance", 4, MESSAGE_DISTANCE) \o Text("body") \o <<Nul>>),
  push_readack |-> Msg(\h40 + HAS_PAYLOAD, 14,
                       Receipt({MSG_FLAG_IS_READ}, Num("msg_id", 8, MESSAGE_ID))) ]

\* Mutant: the kind is not shifted into the upper half.
DeleteFlag_Low(type, completely) == Byte(type + completely * 16)

\* The kind of the deletion in the upper half, "completely" in the lowest bit.
DeleteFlag(type, completely) == Byte(type * 16 + completely)

DeleteMsgs == [
  delete_all     |-> Msg(\h60 + NEED_ACK + HAS_PAYLOAD, 5, DeleteFlag(1, 0) \o LocalId),
  delete_session |-> Msg(\h60 + NEED_ACK + HAS_PAYLOAD, 10,
                         DeleteFlag(2, 1) \o LocalId \o PrivateChat),
  delete_message |-> Msg(\h60 + NEED_ACK + HAS_PAYLOAD, 10,
                         DeleteFlag(3, 0) \o LocalId \o PrivateChat
                           \o Num("message_id", 8, MESSAGE_ID)),
  delete_ack     |-> Msg(\h60 + ACK_TYPE + HAS_PAYLOAD, 5, Byte(255) \o LocalId) ]

\* Mutant: the error number 0 is written as it is.
ReqMsgs_NoPlusOne == [
  req     |-> Msg(\h70 + NEED_ACK + HAS_PAYLOAD, 5 + TextLen,
                  Byte(1) \o LocalId \o Text("msgpack") \o <<Nul>>),
  req_ack |-> Msg(\h70 + ACK_TYPE + HAS_PAYLOAD, 5 + TextLen,
                  Byte(0) \o LocalId \o Text("msgpack") \o <<Nul>>) ]

ReqMsgs == [
  req     |-> Msg(\h70 + NEED_ACK + HAS_PAYLOAD, 5 + TextLen,
                  Byte(PLUSONE(1)) \o LocalId \o Text("msgpack") \o <<Nul>>),
  req_ack |-> Msg(\h70 + ACK_TYPE + HAS_PAYLOAD, 5 + TextLen,
                  Byte(PLUSONE(0)) \o LocalId \o Text("msgpack") \o <<Nul>>) ]

\* A PUSH message as strcpy copies it, and Packed of them in a row.
Copied(m)    == Byte(m.fixed) \o Byte(HERMES_VERSION) \o Num("packed_length", 4, m.length)
                  \o Front(m.payload)
PackedPush   == Copied(PushMsgs.push_user)
InARow(b)    == [i \in 1..(Packed * Len(b)) |-> b[((i - 1) % Len(b)) + 1]]
PackedPushes == InARow(PackedPush)

SyncMsgs == [
  sync_new     |-> Msg(\h50 + NEED_ACK + SYNC_TYPE + HAS_PAYLOAD, 9,
                       Byte(PLUSONE(2)) \o LocalId \o SyncLocalId),
  sync_session |-> Msg(\h50 + NEED_ACK + SYNC_TYPE + HAS_PAYLOAD, 26,
                       Byte(PLUSONE(3)) \o LocalId \o PrivateChat
                         \o Num("start_message_id", 8, 88) \o Num("end_message_id", 8, 99)),
  sync_last    |-> Msg(\h50 + NEED_ACK + SYNC_TYPE + HAS_PAYLOAD, 10,
                       Byte(PLUSONE(4)) \o LocalId \o PrivateChat),
  sync_ack     |-> Msg(\h50 + ACK_TYPE + SYNC_TYPE + HAS_PAYLOAD, 10 + Len(PackedPushes),
                       Byte(PLUSONE(0)) \o LocalId \o Byte(PLUSONE(1)) \o SyncLocalId
                         \o PackedPushes \o <<Nul>>) ]

\* Mutant: the declared length leaves out the reason.
DisconnectMsgs_Empty == [disconnect |-> Msg(\he0 + HAS_PAYLOAD, 0, Byte(PLUSONE(4)))]

DisconnectMsgs == [disconnect |-> Msg(\he0 + HAS_PAYLOAD, 1, Byte(PLUSONE(4)))]

\* RECONNECT is one byte, with no version and no payload.
ReconnectMsgs == [reconnect |-> Msg(\hd0, 0, <<>>)]

Builders == {ConnectMsgs, SendMsgs, PushMsgs, DeleteMsgs, ReqMsgs, SyncMsgs,
             DisconnectMsgs, ReconnectMsgs}
Species  == UNION {DOMAIN b : b \in Builders}
Msgs     == [s \in Species |-> (CHOOSE b \in Builders : s \in DOMAIN b)[s]]

\* _set_fixed_bytes_ and the writes after it, to a byte that holds g.
Written(s, g, m) ==
  LET first == <<Cell(s, 1, Or(g, m.fixed))>> IN
  IF s = "reconnect" THEN first
  ELSE first \o Byte(HERMES_VERSION) \o Length(m.length) \o m.payload
Bytes(s, g) == Written(s, g, Msgs[s])

\* Without the '\0' that strcpy has left behind a text.
WithoutNul(b)  == IF Last(b) = Nul THEN Front(b) ELSE b
OwnBytes(s, g) == WithoutNul(Bytes(s, g))

\* No byte of a declared length is 255, which the increment would make a '\0'; the
\* texts of the code are too short for that.
LengthsFit == \A s \in Species : \A k \in 0..3 : Digit(Msgs[s].length, k) # 255

-----------------------------------------------------------------------------
(* The memory of a message. *)

\* What lies behind b in its block: memory that was never used, or the block of
\* an earlier message t as free and malloc have left it, which is t from byte 17
\* on.  RECONNECT has a small block of its own.
Unused == {Junk(n) \o <<Nul>> : n \in Tails}
LeftBy(t, b) ==
  Junk(Max({0, 16 - Len(b)})) \o SubSeq(Bytes(t, 0), Max({17, Len(b) + 1}), Len(Bytes(t, 0)))
    \o <<Nul>>
Behind(s, b) ==
  Unused \cup (IF s = "reconnect" THEN {} ELSE {LeftBy(t, b) : t \in Species \ {"reconnect"}})

strlen(m) == CHOOSE n \in 0..(Len(m) - 1) : m[n + 1].v = 0 /\ \A k \in 1..n : m[k].v # 0

\* recv writes to the beginning of the receive buffer.
Filled(old, new) == new \o SubSeq(old, Len(new) + 1, Len(old))

-----------------------------------------------------------------------------
(* The menus of message.c: the message for an option and an answer. *)

Simple == [o \in {1, 2, 8, 9} |->
  CASE o = 1 -> "connect"   [] o = 2 -> "ping"
    [] o = 8 -> "reconnect" [] o = 9 -> "disconnect"]

Submenu == [o \in 3..7 |->
  CASE o = 3 -> <<"send_user", "send_recvack", "send_readack", "send_ack">>
    [] o = 4 -> <<"push_user", "push_readack">>
    [] o = 5 -> <<"sync_new", "sync_session", "sync_last", "sync_ack">>
    [] o = 6 -> <<"delete_all", "delete_session", "delete_message", "delete_ack">>
    [] o = 7 -> <<"req", "req_ack">>]

\* An answer that is not in the submenu: the first species, but for PUSH none.
Default(o) == IF o = 4 THEN "unset" ELSE Submenu[o][1]

Selected(o, a) == IF a \in DOMAIN Submenu[o] THEN Submenu[o][a] ELSE Default(o)

-----------------------------------------------------------------------------
(* What is printed: the name of a field with the bytes under it and, for a   *)
(* packed message, its place; or the wording for a code.  UNDEFINED stands   *)
(* for a use of a pointer that was not set or of memory out of bounds.       *)

Shown(name, cells) == <<name, 0, cells>>
Told(kind, what)   == <<kind, 0, <<what>>>>
UNDEFINED          == <<"undefined", 0, <<>>>>

\* A switch without a default leaves the pointer to the wording unset.
Wording(kind, words, code) ==
  IF code \in DOMAIN words THEN Told(kind, words[code]) ELSE UNDEFINED

type_string == [c \in 1..7 \cup {13, 14} |->
  CASE c = 13 -> "RECONNECT" [] c = 14 -> "DISCONNECT"
    [] OTHER  -> <<"CONNECT", "PING", "SEND", "PUSH", "SYNC", "DELETE", "REQ">>[c]]
session_type_string == <<"system", "private", "group">>
delete_type_string  == <<"all sessions", "single session", "single message">>
sync_type_string    == <<"new messages", "new messages", "single session", "last message">>
delete_error == [c \in {1, 2, 3, 255} |->
  IF c = 255 THEN "failed" ELSE <<"unsupported", "illegal", "not allowed">>[c]]
\* Mutant: the status of success is forgotten.
sync_ack_error_NoSuccess == [c \in {1, 2, 3, 255} |->
  IF c = 255 THEN "failed" ELSE <<"unsupported", "illegal", "limit exceeded">>[c]]

sync_ack_error == [c \in {0, 1, 2, 3, 255} |->
  CASE c = 0 -> "success" [] c = 255 -> "failed"
    [] OTHER -> <<"unsupported", "illegal", "limit exceeded">>[c]]

-----------------------------------------------------------------------------
(* The parsers, on the m bytes received.  The buffer was zeroed before recv, *)
(* so that what lies behind them reads as 0.  Offsets begin at the payload.  *)

At(m, p)        == IF p \in DOMAIN m THEN m[p] ELSE Nul
Value(m, o)     == At(m, 6 + o + 1).v
Number(m, o, w) == [i \in 1..w |-> At(m, 6 + o + i)]

\* printf("%s"): from an offset to the next '\0', which must lie in the buffer.
Str(name, m, o) ==
  LET ends == {n \in 0..Len(m) : At(m, 6 + o + n + 1).v = 0} IN
  IF Len(m) < BUFFER_SIZE \/ \E n \in ends : 6 + o + n < Len(m)
  THEN Shown(name, Number(m, o, Min(ends)))
  ELSE UNDEFINED

\* Mutant: the session's number is read from where its type is.
session_Early(m, o) ==
  {Wording("chat", session_type_string, Value(m, o)), Shown("session_id", Number(m, o, 4))}

session(m, o) ==
  {Wording("chat", session_type_string, Value(m, o)),
   Shown("session_id", Number(m, o + 1, 4))}

parse_connect(m) == {Shown("uid", Number(m, 0, 4)), Str("token", m, 4)}

parse_ping(m) == {Shown("heart_interval", Number(m, 0, 2))}

FlagsOf(flag) == Told("flags", Masks(flag, {MSG_FLAG_NEED_RECEIPTS, MSG_FLAG_IS_RECEIPTS,
                                MSG_FLAG_IS_READ, MSG_FLAG_IS_USERMSG, MSG_FLAG_IS_DELETE}))

\* _get_send_error does not look at the number.
parse_send(m, is_ack_type) ==
  LET flag == Value(m, 0) IN
  {FlagsOf(flag)} \cup
  IF is_ack_type
  THEN {Shown("local_id", Number(m, 1, 4)), Told("code", flag),
        Shown("msg_timestamp", Number(m, 5, 4))}
         \cup (IF flag = 0 THEN {Shown("message_id", Number(m, 9, 4))} ELSE {})
  ELSE session(m, 1)
         \cup (IF Has(flag, MSG_FLAG_IS_USERMSG)
               THEN {Shown("local_id", Number(m, 6, 4)), Str("body", m, 10)} ELSE {})
         \cup (IF is_ack_type \/ Has(flag, MSG_FLAG_IS_READ)
               THEN {Shown("ack_msg_id", Number(m, 6, 8))} ELSE {})

\* Mutant: the flag of a user message is not looked at.
parse_push_Always(m) ==
  {FlagsOf(Value(m, 0)), Shown("msg_id", Number(m, 6, 8)),
   Shown("msg_timestamp", Number(m, 14, 4)), Shown("distance", Number(m, 18, 4)),
   Str("body", m, 20)} \cup session(m, 1)

parse_push(m) ==
  LET flag == Value(m, 0) IN
  {FlagsOf(flag), Shown("msg_id", Number(m, 6, 8))} \cup session(m, 1)
    \cup (IF Has(flag, MSG_FLAG_IS_USERMSG)
          THEN {Shown("msg_timestamp", Number(m, 14, 4)), Shown("distance", Number(m, 18, 4)),
                Str("body", m, 20)}
          ELSE {})

parse_delete(m, is_ack_type) ==
  LET delete_flag == Value(m, 0)
      delete_type == delete_flag \div 16 IN
  {Shown("local_id", Number(m, 1, 4))} \cup
  IF is_ack_type
  THEN IF delete_flag = 0 THEN {Told("description", "deleted")}
       ELSE {Told("code", delete_flag), Wording("description", delete_error, delete_flag)}
  ELSE {Wording("description", delete_type_string, delete_type),
        Told("completely", Has(delete_flag, 1))}
         \cup (IF delete_type \in {2, 3} THEN session(m, 5) ELSE {})
         \cup (IF delete_type = 3 THEN {Shown("message_id", Number(m, 10, 8))} ELSE {})

parse_req(m, is_ack_type) ==
  LET flag_byte == MINUSONE(Value(m, 0)) IN
  {IF ~is_ack_type THEN Told("request", flag_byte)
   ELSE IF flag_byte = 0 THEN Told("description", "succeeded") ELSE Told("code", flag_byte),
   Shown("local_id", Number(m, 1, 4)), Str("msgpack", m, 5)}

\* _get_offline_reason does not look at its number either.
parse_disconnect(m) == {Told("description", "logged in elsewhere")}

\* The declared length of a packed message; one of 65536 and more, or below 0,
\* points out of the buffer like any other that is too large.
LengthAt(m, o) ==
  LET digit(i) == Value(m, o + i) - 1 IN
  IF digit(0) = 0 /\ digit(1) = 0 THEN digit(2) * 256 + digit(3) ELSE -1

\* The bodies of the packed PUSH messages, each found behind the one before it
\* with the help of the declared length.  strncpy copies a body without a '\0' to
\* a buffer that is cleared only after the first: n bytes may follow that one.
PackedBody(m, o, width, behind) ==
  LET cells == Number(m, o, Min({width, Len(m)}))
      ends  == {i \in DOMAIN cells : cells[i].v = 0}
  IN IF ends # {} THEN SubSeq(cells, 1, Min(ends) - 1) ELSE cells \o behind

\* The loop from the offset o on; rest is what it does from a later one on.
BodiesFrom(m, start, n, o, rest) ==
  LET length == LengthAt(m, o + 2) IN
  IF Value(m, o) = 0 THEN {}
  ELSE IF length < 22 \/ 6 + o + 6 + length >= BUFFER_SIZE THEN {UNDEFINED}
  ELSE {<<"body", o, PackedBody(m, o + 28, length - 22, IF o = start THEN Junk(n) ELSE <<>>)>>}
         \cup rest[o + 6 + length]

PackedBodies(m, start, n) ==
  LET from[o \in start..BUFFER_SIZE] == BodiesFrom(m, start, n, o, from) IN from[start]

parse_sync(m, is_ack_type, n) ==
  LET sync_type == MINUSONE(Value(m, 0)) IN
  {Shown("local_id", Number(m, 1, 4))} \cup
  IF is_ack_type
  THEN {Wording("description", sync_ack_error, sync_type),
        Shown("sync_local_id", Number(m, 6, 4))} \cup PackedBodies(m, 10, n)
  ELSE {Wording("description", sync_type_string, sync_type)} \cup
       IF sync_type \in {1, 2} THEN {Shown("sync_local_id", Number(m, 5, 4))}
       ELSE session(m, 5)
              \cup (IF sync_type = 3 THEN {Shown("start_message_id", Number(m, 10, 8)),
                                           Shown("end_message_id", Number(m, 18, 8))}
                                     ELSE {})

\* Without a version byte or without a payload only the first byte is printed.
Parse(m, n) ==
  LET fixed_byte  == At(m, 1).v
      type        == fixed_byte \div 16
      is_ack_type == Has(fixed_byte, ACK_TYPE)
  IN {Wording("type", type_string, type),
      Told("header", Masks(fixed_byte, {NEED_ACK, ACK_TYPE, SYNC_TYPE, HAS_PAYLOAD}))} \cup
     IF At(m, 2).v = 0 THEN {}
     ELSE {Told("version", At(m, 2).v)} \cup
     IF ~Has(fixed_byte, HAS_PAYLOAD) THEN {}
     ELSE {Shown("length", Number(m, -4, 4))} \cup
          CASE type = 1  -> parse_connect(m)
            [] type = 2  -> parse_ping(m)
            [] type = 3  -> parse_send(m, is_ack_type)
            [] type = 4  -> parse_push(m)
            [] type = 5  -> parse_sync(m, is_ack_type, n)
            [] type = 6  -> parse_delete(m, is_ack_type)
            [] type = 7  -> parse_req(m, is_ack_type)
            [] type = 14 -> parse_disconnect(m)
            [] OTHER     -> {}

-----------------------------------------------------------------------------
(* What the receiver should print for each message: its numbers under their  *)
(* names, its strings, and the wording by which the menus offer it.          *)

Strings      == {"token", "body", "msgpack"}
PlacesIn(b, f) == {p \in DOMAIN b : b[p].f = f}
Extent(b, f)   == SubSeq(b, Min(PlacesIn(b, f)), Max(PlacesIn(b, f)))
FieldsIn(b)    == {b[p].f : p \in DOMAIN b}
Places(s, f)   == PlacesIn(Bytes(s, 0), f)
Cells(s, f)    == Extent(Bytes(s, 0), f)
Fields(s)      == FieldsIn(Bytes(s, 0)) \ {"byte", s}
\* The numbers of the packed messages are not printed.
Numbers(s)   == IF s = "sync_ack" THEN {"length", "local_id", "sync_local_id"}
                ELSE Fields(s) \ Strings

\* The numbers a report is held to: not to the message id of a receive receipt,
\* which the code does not print (ReportedExactly in Wire says that it should).
Printed(s)   == Numbers(s) \ (IF s = "send_recvack" THEN {"ack_msg_id"} ELSE {})

Title(s) ==
  LET titles == <<"CONNECT", "PING", "SEND", "PUSH", "SYNC", "DELETE", "REQ",
                  "RECONNECT", "DISCONNECT">>
  IN titles[CHOOSE o \in 1..9 :
       IF o \in DOMAIN Submenu THEN s \in ToSet(Submenu[o]) ELSE s = Simple[o]]

Flagged(masks)    == Told("flags", masks)
Described(what)   == Told("description", what)
InPrivate         == Told("chat", "private")

\* The flags of a SEND-ACK are bits of its error number, 13 (hippie.c:60).
Details == [
  connect |-> {}, ping |-> {}, reconnect |-> {},
  send_user      |-> {Flagged({MSG_FLAG_NEED_RECEIPTS, MSG_FLAG_IS_USERMSG}), InPrivate},
  send_recvack   |-> {Flagged({MSG_FLAG_IS_RECEIPTS}), InPrivate},
  send_readack   |-> {Flagged({MSG_FLAG_IS_RECEIPTS, MSG_FLAG_IS_READ}), InPrivate},
  send_ack       |-> {Flagged({1, 4, 8}), Told("code", 13)},
  push_user      |-> {Flagged({MSG_FLAG_IS_USERMSG}), InPrivate},
  push_readack   |-> {Flagged({MSG_FLAG_IS_RECEIPTS, MSG_FLAG_IS_READ}), InPrivate},
  sync_new       |-> {Described("new messages")},
  sync_session   |-> {Described("single session"), InPrivate},
  sync_last      |-> {Described("last message"), InPrivate},
  sync_ack       |-> {Described("success")},
  delete_all     |-> {Described("all sessions")},
  delete_session |-> {Described("single session"), InPrivate},
  delete_message |-> {Described("single message"), InPrivate},
  delete_ack     |-> {Described("failed"), Told("code", 255)},
  req            |-> {Told("request", 1)},
  req_ack        |-> {Described("succeeded")},
  disconnect     |-> {Described("logged in elsewhere")} ]
Meaning(s) == {Told("type", Title(s))} \cup Details[s]

Kinds == {"type", "flags", "chat", "description", "code", "request"}
Words(printed) == {x \in printed : x[1] \in Kinds}
Texts(printed) == {x \in printed : x[1] \in Strings}
Figures(printed) ==
  {x \in printed : x[1] \notin Kinds \cup Strings \cup {"header", "version", "completely", "undefined"}}

\* The strings of a message that nothing follows: each once, from its first byte to
\* its last and no further.  There are two exceptions, in which no byte is missing,
\* but some may be too many: of the body of a PUSH only the end is fixed, and of
\* those packed in a SYNC-ACK every beginning is, and every end but one.
\* ReportedExactly in Wire is without them.
TextsPrinted(s, printed) ==
  CASE s = "sync_ack" ->
         /\ Cardinality(Texts(printed)) = Packed
         /\ \A x \in Texts(printed) : IsPrefix(Text("body"), x[3])
         /\ Cardinality({x \in Texts(printed) : x[3] # Text("body")}) <= 1
    [] s = "push_user" ->
         \E x \in Texts(printed) : Texts(printed) = {x} /\ IsSuffix(Text("body"), x[3])
    [] OTHER -> Texts(printed) = {Shown(f, Text(f)) : f \in Fields(s) \cap Strings}

\* The numbers that are printed are those of the message, under their names.
FiguresPrinted(s, printed) == {Shown(f, Cells(s, f)) : f \in Printed(s)} \subseteq printed
NoOtherFigure(s, printed)  == Figures(printed) \subseteq {Shown(f, Cells(s, f)) : f \in Numbers(s)}

\* The report of one message and of nothing else.
Faithful(s, printed) ==
  /\ FiguresPrinted(s, printed) /\ NoOtherFigure(s, printed)
  /\ TextsPrinted(s, printed)
  /\ Words(printed) = Meaning(s)
  /\ UNDEFINED \notin printed

=============================================================================
