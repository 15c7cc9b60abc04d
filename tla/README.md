# A verification of Hippie in TLA+

Hippie is a C program of one process and three threads that shows the Hermes
chat protocol at work: a client thread offers a menu, builds the message the
user asks for and sends it over a TCP connection to its own process; a receiver
thread prints the message field by field; the main thread is the server that
starts and ends the two. A hash table (`map.c`) lies beside it and is not called
from the program yet. The repository has no tests and one line of documentation,
so that what the program promises has to be read from its prompts, its comments
and its structure.

This directory holds TLA+ modules that model the program, configurations that
check them with TLC on small instances, and proofs that TLAPS checks for every
instance.

## 1. The system

| Component | State | Operations |
|---|---|---|
| Threads (`main.c`) | two mutexes, two condition variables, `client_wait`, a thread-specific-data key with its `tsd_destructor_counter`, the connection, the terminal | `main`, `client_f`, `dispatch_f`, `tsd_destructor`, `pthread_once_f` |
| Menu and sender (`message.c`, `message.h`) | the option and the answer typed | a submenu for each of five message types, `_send_msg_2_fd` |
| Builders (`hippie.c:286-676`) | the memory of one message | one builder for each of 20 messages (RECONNECT in `message.c:134-142`) |
| Number codec (`hippie.c:235-284`, `hippie.h:18-31`) | the bytes of one number | `_int_padded_to_charbytes`, three parsers |
| Parsers (`hippie.c:3-233`, `678-689`) | the receive buffer | one parser for each message type |
| Hash table (`map.c`, `map.h`) | buckets with chains, an index sorted by hash value, `element_num` | `init`, `insert` (with `resize`), `get_value`, `delete`, `hgetall`, `get_all_by_index_sort` |
| Flags and wording (`hippie.c:691-839`, `hippie.h:17`, `51-86`) | none | flag bytes of SEND, PUSH and DELETE; codes to descriptions |

How they interact. `main` creates `client_f`, accepts its connection, creates
`dispatch_f` and wakes the client through `s_to_c_cond`; it then sleeps on `g_cond`
until the client quits. `client_f` waits on `s_to_c_cond`, reads an option from the
terminal, and has a builder make a message, which `_send_msg_2_fd` sends up to the
first `'\0'`. `dispatch_f` receives it, sleeps a second, has the parsers print it,
waits for Enter *on the same terminal*, and wakes the client through `s_to_c_cond`.
On `q` the client closes the connection and signals `g_cond`; `main` cancels
`dispatch_f`, destroys mutexes and condition variables, and exits, while the
destructors of the three threads count down to the deletion of the key.

What is hard here:

* **The wakeups.** Neither wait is in a loop, the predicate of one is a flag that
  only the waiter writes, the other has none. `sleep(1)` stands in front of two
  of the three signals, nothing in front of the third. What must be true is that the two sides take turns
  (`OneTurn`), that a wakeup is not lost where the sleeps are long enough
  (`SignalsArrive`), and that quitting ends the process (`QuitEnds`).
* **The shared terminal.** Two threads read `stdin`; one of them holds
  `s_to_c_mutex`, the other does not. Only the turns keep two reads from being under way at
  once (`OneTurn`). They do not keep the characters apart: a line with an option typed
  at the prompt of `dispatch_f` leaves its Enter to the menu, which rejects it. What is checked is
  that the turns survive any input.
* **The end.** `main` destroys what others may be using (`IdleWhenDestroyed`), a
  thread is cancelled that may hold a mutex, and the decrements of the counter
  race once their mutex is destroyed (`CounterInv`, `KeyDeletedLast`).
* **Bytes.** A message ends at its first 0 byte, so every number is sent with its
  bytes incremented; offsets, lengths and codes are literals on both sides
  (`RoundTrip`, `SentWhole`, `NumbersRead`, `NamesRead`, `LengthsDeclared`).
* **No end of a message.** Nothing on the connection says where a message ends. The
  block it is built in still holds an earlier one, `send` may take a part, `recv` may
  return a part, or two; a text ends where the cleared receive buffer begins
  (`NoNumberInvented`, `TextRead`, `WholeIsDefined`).
* **A table that damages itself.** A deletion takes the wrong element out of its chain and
  leaves freed ones in the index, a resize uses pointers nobody has set, and the count of the
  elements wraps around. The runs `table_delete_wrong` and `table_memory` fail by the first three; `ChainsOK`, `LinkInv` and `LostOnlyByDelete` say what is left.
* **One conversation.** The turns of the threads and the bytes they hand over have to
  fit: what is reported must be what was chosen, once, before the next menu
  (`KeepsDialogue`, `BytesWithThreads`).
* **Undefined behaviour.** The control word of `pthread_once`, the first byte of a
  message, the pointer after an unknown PUSH species, the buckets of a grown
  table and freed index nodes are all read in a state nobody set.

## 2. The modules

| Module | Models | Properties stated in it |
|---|---|---|
| `Console` | what the person at the terminal is promised: one side speaks at a time | the abstract specification of `Threads` |
| `Threads` | the three threads, every pthread call, read, send, recv, accept, connect and sleep | safety, action and liveness properties, refinement of `Console`, inductive invariants |
| `ThreadsProofs` | | the proofs of its safety and action properties |
| `ConsoleProofs` | | the proof that `Threads` implements `Console` |
| `TimingProofs` | | the proofs of what holds under the timing of `Timely` |
| `KeyValue` | a store with a list of its keys in the order of their hash values | the abstract specification of `HashTable` |
| `HashTable` | `map.c` | structure of chains and index, load, refinement of `KeyValue`, inductive invariants |
| `HashTableProofs` | | the proofs about `HashTable`, the refinement included |
| `Codec` | the number codec, a byte at a time | which numbers survive |
| `CodecProofs` | | the proofs about `Codec` |
| `Messages` | menus, builders, memory of a message, parsers, wording: operators without state | what each message should be printed as (`Faithful`) |
| `MessageProofs` | | lemmas about the operators of `Messages`: where each field lies, what `strlen` finds, what each parser prints |
| `Wire` | one message after another through `send` and `recv`, whole, in parts and run together | what is sent is what is printed |
| `WireProofs` | | the proofs of the invariants of `Wire` |
| `Dialogue` | what `Console` leaves out: each message that is said is heard, rightly and once | the abstract specification of `Session` |
| `Session` | `Threads` with the bytes of `Messages` | refinement of `Dialogue`, agreement of bytes and threads |
| `SessionProofs` | | the proofs that `Session` refines `Threads` and implements `Dialogue`, and that every message is legible |
| `MCThreads`, `MCHashTable`, `MCCodec`, `MCWire`, `MCSession` | | the values TLC uses for the constants |

`Threads` counts the pieces of messages on the connection and leaves out what they
contain; `Messages` has the bytes and no threads. `Session` is both: it extends each
of the two, every step of `Threads` is a step of `Session`, and those that send,
receive, print and begin the loop again move the bytes as well. `Wire` has the
bytes without the threads, so that what the connection may do to them (parts, merged
messages, garbage in the first byte, the memory of earlier messages) can be
tried for every pair of messages. `Messages` takes each byte of a number to be
incremented alone and to come back (`PLUSONE`, cells with their values); `Codec` says for which numbers that is so, and the
values in `Messages` are the literals of `hippie.h`, so that a byte 0 that one of
them produced would break `SentWhole`.

### Threads

`pc[t]` is the call thread `t` is about to make: `"s_lock"`, `"s_signal"` and
`"s_unlock"` are `main.c:234-237`, `"g_lock"` to `"close"` 239-243, `"destroy_1"` to
`"destroy_4"` 246-249; `"lock"` to `"prompt"` of the client are 86-91, `"option"` and
`"option_nl"` its two reads in line 93, `"q_lock"` to `"q_unlock"` 96-98; `"recv"` to
`"unlock"` of the receiver are 128-140; `"exit"` and `"d_lock"` to `"d_unlock"` the end of
a thread and `tsd_destructor`. One action is one call that other threads can see,
together with the local work up to the next one. The library is modelled as glibc
does it: a signal without a waiter is lost, a mutex that was destroyed lets
everybody pass (callers ignore the error), `pthread_cond_destroy` waits for the
waiters, destructors run for values that are not NULL while the key exists.
`tsd_destructor_counter--` is a load and a store.

The constants say what the surroundings may do: `Lines` what the user types,
`Pieces` into how many parts TCP cuts a message, `Spurious` which condition
variables wake without a signal, `Failures` which system calls fail,
`OnceOutcomes` what the uninitialised `pthread_once_t` amounts to, and `Timely` which
delays are long compared with a few steps of a thread. The end of the input
needs no constant: every read returns `EOF`, which the code treats as any other
character it does not know (`"junk"`). Cancellation takes
effect at the cancellation points of `dispatch_f`: `recv`, `sleep`, and the
writes and reads of the terminal. What a parser does with bytes that are no message of the menu is not in
`Threads`: `DispatchCrashes` lets it end the process, and `Session` takes that step
(`ReportCrashes`) exactly where the bytes lead the parser to `UNDEFINED`.

### HashTable

A chain is a sequence of keys, `val` the value of each key, `wild` the set of buckets
that `malloc` left uninitialised, `index` the list from `index_first` on, with what has
become of each node. An insertion is a call, the moves of the resize it may
begin (`CallResize`, `MoveElement`, `MoveNextBucket`: the recursive `insert` of
`resize` counts and links like any other), and the insertion proper. `delete` does what the
code does: a match at the end of its chain empties the whole bucket, a match
elsewhere unlinks the element behind it. Reading a freed node or an
uninitialised bucket leads to the status `"ub"`, of which nothing is claimed but that it
should not come (`ReadsOwnMemory`, which fails). The properties that hold therefore speak of a table up to its
first such read.
`RoundUp` takes the least of the powers of two up to 128, as `MAX_HASH_TABLE_SIZE` is 100.

### Codec

`Codec` writes a number from the lowest byte (`PadByte`, one iteration of
`_int_padded_to_charbytes`) and reads it back as the macros of `hippie.h` do, with a byte 0 as
-1.

### Messages and Wire

A message is a sequence of cells, each a byte with its value that knows its field
and its place in it: `Builders` has the messages that each group of builders makes,
`Msgs` one entry for each of them, `Selected` is the switch of each submenu. `Behind` is what may follow a message in its block: memory never
used, or the block as `free` and `malloc` leave it, with any earlier message from byte 17 on
(the allocator writes over the first 16).
`strlen` finds the first 0. A parser takes cells at the offsets of
the code and tests the flags in the order of the code; what it prints is a set of
fields with the cells under them, and of wordings. A wording that a switch does not
assign, a text without an end in the buffer, and a packed message that leads out of the
buffer are `UNDEFINED`. What should be printed (`Printed`, `Meaning`,
`TextsPrinted`) is written down apart from the parsers. It demands nothing that the code gets wrong, nor
the wrong itself: the id of a receive receipt may be printed or not, the body of a PUSH may have bytes before it,
and one packed body may have bytes behind it. What is left open there is what `ReportedExactly` demands, in a run that fails.

`Wire` goes from the menu (`ChooseOption`, `ChooseSpecies`) through `Build`, `Send` and
`Receive` to `Report` and `Again`, which clears the buffer as the head of the loop of `dispatch_f`
does. `send` is called once and may take less than it is given; `recv` returns
what is there, or a part, up to `BUFFER_SIZE`. `GoAhead` lets the menu come back while a message is
unread, which happens when a wakeup comes too early: then two messages share a
buffer. The properties speak of whatever message the buffer begins with, and of as much
of it as has arrived (`Begins`, `Whole`, `Alone`). They claim nothing if the uninitialised first
byte has changed the type of the message or one of the two flags the parsers
look at.

### Session

`chosen` is the message under way, `wire` the bytes on the connection, `buffer` and
`printed` those of `dispatch_f`. `SendsMessage`, `ReceivesMessage`, `ReportsMessage` and `ForgetsMessage` are
`ClientSends`, `DispatchReceives`, `DispatchParses` and `DispatchUnlock` of `Threads` with their bytes,
`ReportCrashes` is `DispatchCrashes`; `Silent` is every other step. `Threads` has one character for each way the code can go, `CharOf` gives
the digits it stands for. `Dialogue` is implemented with `topic` as the
chosen message while it is the server's turn and `heard` as what has been printed of it.
Its `Report` demands that the report is `Faithful` to the topic; its `Menu` and its `Stall`
that the report has been made before. `Legible` is what the proofs take from `Messages`:
whatever `send` may be given of a message fits the buffer and is reported rightly when it
is alone in it. That is itself proved (`LegibleHolds`), from two facts about the sizes, `LengthsFit` and
`MemoryFits`; `MCSession` has TLC evaluate all three.

## 3. What is checked

| Run | Question | Result |
|---|---|---|
| `threads_orderly` | Do the three threads take turns at any relative speed, if messages arrive whole and no wakeup is spurious, and is every message of the menu reported rightly? Every failure, every outcome of `pthread_once` and lines typed ahead included. A run of `Session`. | Yes: at worst the conversation stalls (`KeepsOrder`), and it never stalls, ends or goes on with a message sent and not reported (`KeepsDialogue`). `OrderInv`, `CounterInv` and `BytesWithThreads` are the inductive invariants of the proofs. |
| `threads_hostile` | What is left if messages are cut in two and the client wakes spuriously? | The server shuts down only after the client has left, and the key outlives its values. |
| `threads_timely` | Does everything happen that should, if the sleeps and the user are slow? | Yes: no signal is lost, the menu comes back, a quit ends the process (`KeepsPromise`, liveness included). `ArrivalInv` and `HeldInv` are the invariants of the proofs. |
| `threads_spurious` | Is the wait of `main.c:240` safe without a loop? | No: a spurious wakeup makes the server announce that the client has left, and shut down. |
| `threads_quit_race` | Does a quit end the process whatever the user's speed? | No: a `q` typed before `main` waits is never noticed. |
| `table_store` | Is the table a key-value store with a sorted list, without deletions and with zeroed memory? | Yes, through collisions, new values for old keys and two resizes, none of which begins another (`CountInv`). |
| `table_delete` | What do deletions and uninitialised buckets leave intact, up to the first read of memory that is not the table's? | Chains, the order of the index, and a count that is never too small; the index links every element once, in the middle of a resize too (`LinkInv`); only a deletion loses elements, and only from its own chain. Not that it loses the right one. |
| `table_delete_wrong` | Does a deletion take out the element with its key, and no other? (`DeletesItsKey`) | No: inside a chain it is the element behind it, at the end of a chain all of them. |
| `table_memory` | Does the table read its own memory only? (`ReadsOwnMemory`) | No: the next insertion walks over a deleted element in the index. Without deletions (`Ops = {}`, or the run continued) a resize, which clears the first bucket only, moves elements into others, whose pointer nobody has set. |
| `codec_roundtrip` | Which numbers come back? | Exactly those with no byte of all ones below the highest. |
| `wire_roundtrip` | Is every message printed field by field and under its right names, whatever was in its memory before, whatever `send` and `recv` cut off, whatever follows it? | What has arrived, yes: every number but one, and no text with a byte missing (`wire_exact` has the exceptions); one declared length is wrong. A SYNC-ACK that something follows, or a text that fills the buffer, may lead out of it (`WholeIsDefined`). |
| `wire_exact` | Is every message that arrives alone printed as the comments in `hippie.c:95`, `131` and the announcement in `212` say? (`ReportedExactly`) | No, three of 20: a receive receipt has no message id, as `hippie.c:96` tests `is_ack_type`, which is always false there; the body of a PUSH is read from payload offset 20 and was written at 22; the first body of a SYNC-ACK is copied without a `'\0'` into an uninitialised buffer (`hippie.c:681-685`). The run stops at the first of them; `tlc -continue` shows the three, and that there is no other. |

Six things are known from the code and stated in the models, without a run of
their own that fails:

* `hippie.c:245` says that the increment avoids a `'\0'`; it makes one of a byte
  0xFF. No literal that is written now has such a byte (`SentWhole` would fail);
  a `local_id` that counted would meet it at 255. `RoundTrip` says exactly which
  numbers are damaged when nothing cuts the message.
* `hippie.c:60` prints the flags of a SEND-ACK before it looks whether the message is an ACK, whose
  first byte is the error number and no flags (`Details` in `Messages`).
* `hippie.c:512` declares 10 of 18 bytes (`LengthsDeclared`).
* `map.c:124`: a deletion does not decrement `element_num` (`NeverUndercounts` is
  what remains true), and `index_last` is the first element ever inserted, not
  "last element of hastable" as `map.h:83` says; nothing reads it.
* `map.c:92`: at 65536 elements `element_num` is 0 again. `hgetall` then prints "hashtable empty" for a full
  table (`map.c:162`), the sorted list ends the process (184), and the next insertion begins a new index. The
  counter wraps around in the model as well (`Append_`); `table_delete` with `NumMod = 4` violates `NeverUndercounts` there.
* `message.c:62`: the prompt of PUSH (`message.h:14`) promises species 1 as the default, but any answer except 1
  and 2 leaves `send_msg` uninitialised (`Unset` and `ClientCrashes` in `Threads`, `"unset"` in `Messages` and `Wire`).

### Bounds, and why they are enough

* `Lines`: every character of the menu's alphabet with an Enter, and an empty line.
  The alphabet has one character for each way the code can go (`Char`). Lines
  of one character keep the reads in step with the lines; the empty line puts them
  out of step. One line is typed ahead at most; its characters stay until someone reads them.
* `Pieces` and `MaxStream`: a message cut in two is enough for a `recv` that takes a
  part, one that takes all, and one that takes the end of one and the beginning of
  the next. With whole messages `TurnInv`, which is proved without a bound, says
  that there is never more than one on the connection.
* `Keys`: three or four keys, of which two have the same hash value and others meet
  only modulo the size; enough for a chain of three, and for resizes from 1 to 4 buckets, the
  second of which comes with a new value for an old key when there are four keys.
  `MaxBuckets` stops the table from growing further. `table_store` has two values, so that one can
  replace another.
* `NumMod = 64` and `16` are large enough for every table the bound `MaxBuckets` allows (`NoWrap`), as 2^16 is
  for every table of up to 2^14 buckets. No passing run goes
  beyond, and nothing is claimed of a counter that wraps around.
* `Base = 3` stands for 256: 0, one ordinary value, and all ones. Every number of eight
  such bytes is tried. `RoundTripHolds` is proved for 256.
* `TextLen = 3` and `Packed = 2` stand for 15 to 85 characters and 8 messages: the
  offsets before a text do not depend on its length, and the third packed message
  is to the second what the second is to the first, except that only the first
  finds the buffer uncleared. `BUFFER_SIZE = 90` stands for 1024: every message fits, as 904
  bytes do, a long one with another behind it does not. `Legible` does not depend on these
  bounds: TLC finds it true as well for `BUFFER_SIZE = 1024` and `Packed = 8`, with texts of 3, 15 and 85 characters.
* `Uninit` is a garbage first byte of 0, or one with a bit of the type and a flag set, which
  changes the type of some messages and not of others; `Tails` is how many bytes
  that are not 0 unused memory begins with: none and two, fewer and more than the one byte a missing end needs.
* `Accepted` and `Cuts`: a `send` cut after 4 bytes ends inside the declared length, a
  `recv` cut after 12 inside the fields of every payload. `Ahead`: the messages that may
  follow another before it is read are the one of one byte, a short one,
  and one each without and with a text; two are unread at most.
* `Session` takes a message as one piece and its first byte as it was meant; the rest is in `Wire`.

### Deadlock and fairness

`threads_timely` and the table, codec and wire runs check for deadlock. The other runs of
`Threads` do not: with failures, and with signals that come too early, the
program really stops for ever.

`FairSpec` is weak fairness of each thread, that is, the scheduler runs a thread
that can take a step, and of `UserTypes`, that is, the user answers a prompt.
Strong fairness of a lock is not needed: in `threads_timely` nobody can take
`s_to_c_mutex` from a waiter for ever, because the threads take turns. `Timely` is not fairness
but an assumption on delays: `"sleep"` lets a `sleep(1)` end only when the
client waits, is at its menu or has ended, `"typing"` lets the user answer only at a prompt
and only when `main` is not in the middle of its calls; without it a line may be typed ahead at any time. The code has the sleeps for the first; nothing in it
provides the second, and `threads_quit_race` shows what happens without it.

## 4. What is proved

TLAPS checks these for every value of the constants that the assumption of the module allows
(`ThreadsAssumption`, `SessionAssumption`, `HashTableAssumption`, `CodecAssumption`,
`MessagesAssumption`, `WireAssumption`).

| Theorem | Says | Further assumptions |
|---|---|---|
| `TypeCorrect`, `CounterHolds` | `TypeOK` and `CounterInv` always hold | none |
| `KeyDeletedLastHolds` | `KeyDeletedLast`: the key is deleted after the last value | none |
| `ShutdownHolds` | `ShutdownOnlyAfterQuit` | `g_cond` never wakes spuriously |
| `OrderHolds` | `OrderInv` | *orderly*: no spurious wakeups, `Pieces` is `{1}` or empty |
| `OneTurnHolds`, `TeardownHolds` | `OneTurn`, `IdleWhenDestroyed` | orderly |
| `ConsoleImplemented` | `KeepsOrder`: the threads implement `Console`, in which the conversation may stall | orderly |
| `ArrivalHolds`, `SignalsArriveHolds` | `ArrivalInv`; `SignalsArrive`: no signal is lost | orderly, and the sleeps and the user are slow (`Timely`) |
| `HeldHolds`, `PromiseSafe` | `HeldInv`; `NeverStalls`: the safety part of `KeepsPromise` | the same, no `send` fails, `pthread_once` returns, nobody asks for PUSH |
| `TableTypeCorrect`, `ChainsHold` | `TypeOK` and `ChainsOK` of the table | none |
| `OnlyDeleteLoses` | `LostOnlyByDelete` | none |
| `CountHolds`, `LinkHolds` | `CountInv`, `LinkInv` | `NoWrap`: the counter is wide enough |
| `LoadHolds`, `CounterNeverLow`, `IndexHolds` | `LoadOK`, `NeverUndercounts`, `IndexOK` | `NoWrap`: the counter is wide enough |
| `StoreImplemented` | `KeepsStore`: the table implements `KeyValue` | no deletions; `NoWrap`, or neither `list` nor `all` is called |
| `CodecTypeCorrect` | `TypeOK` of the codec | none |
| `RoundTripHolds` | `RoundTrip`, for numbers of 2, 4 and 8 bytes | `Base = 256` |
| `LengthsDeclaredHold` | `LengthsDeclared`, for texts of any length | none |
| `SentWholeHolds` | `SentWhole` | `LengthsFit`: no byte of a declared length is 255 |
| `NumbersReadHold`, `NoNumberInventedHolds`, `NamesReadHold` | `NumbersRead`, `NoNumberInvented`, `NamesRead` | none |
| `WholeIsDefinedHolds` | `WholeIsDefined` | `LengthsFit` |
| `TextReadHolds` | `TextRead`: no text has a byte missing, and none a byte too many but the body of a PUSH (before it) and one packed body (behind it) | `LengthsFit`; `RoomForEnd`: every message leaves room for a `'\0'` |
| `LegibleHolds` | `Legible`: every message that arrives alone is reported faithfully | `LengthsFit`; `MemoryFits`: every block of memory fits into the buffer |
| `SessionThreads` | every behaviour of `Session` is one of `Threads` | none |
| `BytesHold` | `BytesWithThreads` | orderly, `Legible` |
| `DialogueImplemented` | `KeepsDialogue`: `Session` implements `Dialogue` | orderly, `Legible` |

The assumptions are those of the runs. Orderly are `threads_orderly` and `threads_timely`; what is left
without it is `threads_hostile`, and `threads_spurious` and `threads_quit_race` show that neither it nor
the timing can be dropped. `NoWrap` holds in `table_store` and `table_delete`; with a smaller `NumMod`
`NeverUndercounts` fails, and with it the answers of the store. `LengthsFit`, `RoomForEnd` and `MemoryFits` speak of the sizes alone, and TLC evaluates
them in `MCWire` and `MCSession`. None can be dropped: a declared length with a byte of 255 holds a 0 byte, at which
`strlen` ends the message (a text of 251 characters in a CONNECT), and a text that fills the buffer has no end in it.
The code is far from all three, with texts of up to 85 characters and a buffer of 1024 bytes. With
`LegibleHolds` the theorems about `Session` rest on the sizes alone as well.

*The counter.* That the key is deleted last rests on an inequality: the counter, and
every copy of it that a thread has loaded and not stored, is at least the number of
threads that have not yet stored their decrement (`Debt`). Two racing
decrements can make the counter too large, never too small, so a lost update costs at most the deletion of the key.
`BirthInv` is needed because `client_f` sets the counter to 3: it does so before any
thread can have ended.

*The way out.* `QuitInv` follows the only path that leads to `close`: `main` leaves
`waiters["g_cond"]` by a signal, a client that signals has closed. Without the
assumption that only signals remove a waiter it is false.

*The turns.* `OneTurn` is not inductive. `TurnInv` adds how `client_wait` and the
connection agree with the labels; a client at `"lock"` that need not wait has the turn,
one that must wait has not. `MutexInv` says who holds `s_to_c_mutex` where, which
keeps the woken client out of its menu until `dispatch_f` has unlocked; `QuitInv`
says that cancellation and the destruction of the mutex come only after the end of the client.
The three are inductive together (`OrderInv`).

*Threads implements Console.* `phase` is a function of the turns, so a step of a thread changes it only if it
changes a turn. `TurnStep` lists for each action which turns it can pass on, in both states of which
`OrderInv` holds; `PhaseStep` turns every entry of that list into a step of `Console` or a stutter.

*The timing.* `ArrivalInv` says who waits already when a signal is about to come: the client since
`main` has slept or `dispatch_f` has, and `main` because nothing is typed before it waits. `SignalsArrive`
follows at once. Together with `HeldInv`, that somebody has the turn, it makes the two
transitions of `Console` that stall impossible. An unknown species of PUSH is excluded since it may send nothing at all (`message.c:62`).

*The hash table.* `MoveInv` says of a resize that the buckets before `moved` are empty and no element is in
two places. With it `TypeOK` and `ChainsOK` are inductive, for any width of the counter and with
deletions and uninitialised buckets. `CountInv` is about the recursive `insert`: the elements
a resize has not moved yet fit, with those it has counted, into the new table, so that
no insertion of the resize calls for another resize; it needs that `element_num`, of 16 bits, does not
wrap around, which is so up to 2^14 buckets (`NoWrap`). `LinkInv` says that the live nodes of the
index are the elements, each once, except between the reset of `element_num` and the first element moved, when the old index is
about to be dropped. For the refinement `val` is the store, a resize leaves it as it is, and without deletions
every node of the index is live, so that the list is what `KeyValue` calls sorted.

*The codec.* `PaddingInv` is the loop invariant. What is read is the number minus
the base to the power of each position whose byte was all ones, plus what its
incremented byte would have added: each such byte costs one full turn of 256 at its place. The
lemmas put the digits together and show that no two of these debts cancel modulo the width. Eight
bytes are two halves of four: `Join8` splits a number and what was borrowed from it, as
the solver does not find its way through eight digits at once.

*The messages.* There is no recursion to unfold in a number: a message is a row of cells, and `Rows2` to `Rows7` say
where the pieces of a concatenation lie. From them each builder has a lemma that gives its bytes (`connect_Row` and so
on), and `Where` a table of what lies at which offset; that the table is right, that no name occurs twice, and that the cells found by name
(`Cells`) are those at the offsets of the parser is proved for every message (`PlacesAre`, `NumberAs`). `OwnNotZero`
says that no byte before the end is 0, the first one included whatever it held before, hence `strlen` ends at the final `'\0'`
or behind it (`SentOwn`). `ParseAs` follows the tests of each parser on the first bytes that have arrived, and gives what
is printed as heading, numbers and rest; `RestSays` and `TitleOf` compare the rest with what the menu offered.

*The packed messages.* The loop over the bodies of a SYNC-ACK is a recursive function, of which the provers know only its
equation. `WalkFrom` shows that there is such a function, from the end of the buffer backwards, since an iteration only goes
forward (`StepAhead`). The induction over natural numbers that this takes is done with a least counterexample (`LeastOf`), as
a library theorem would need an operator as a parameter. `PackedStep` is one iteration: the declared length of a packed message is read back
(`PackedLength`) and its text ends where the next begins; `SyncBodies` puts them together from the last to the
first: every packed message is taken exactly once, and the loop ends at the final 0 (`PackedEnd`).

*Wire.* `WireInv` is all that has to be inductive: the block of memory is a message and something behind it that ends with a 0, the
buffer is what `recv` has left in a buffer that was empty, and what is printed is `Parse` of it. The properties follow from
it and the lemmas about one message, with any number of bytes cut off, any messages ahead and any contents of the first byte that
keep its type and the two flags the parsers test.

*The conversation.* Each action of `Session` contains its action of `Threads`, so that `SessionThreads` and
all that is proved about `Threads` carry over. `Undisturbed` says what a silent step
leaves alone: whether a piece is on the connection, whether `dispatch_f` is reporting, and
that a client awaiting a report goes on doing so. With it and `OrderInv`, `BytesWithThreads`
is inductive. Its two halves are of use to each other: that the bytes are those of the chosen message follows from there being
one message at a time, and that the buffer holds a whole message and nothing else is what `Legible`
needs to say that its report is right. For `Dialogue` each action that moves bytes maps to `Say`,
`Report`, `Abort` or a stutter, and a silent step to what `Console` makes of it.

### What is only model-checked

* Liveness: `QuitEnds`, and the fairness in `KeepsPromise`, need `ENABLED`.
* What the sizes of the code are: that `LengthsFit`, `RoomForEnd` and `MemoryFits` hold is evaluated for the
  sizes of the runs, and follows for others by counting.
* `LostOnlyByDelete` and the others are proved from the actions of the table; that a walk along a C list does what
  `InChain`, `Link` and `RemoveAt` do is read off the code.

## 5. What is not modelled

* The texts of prompts and descriptions, and layout: a description is a name, a text a row of one letter.
* Parts of messages together with the threads: `Threads` has the pieces (`threads_hostile`), `Wire` the bytes.
* The memory that SYNC-ACK leaks with every use (`hippie.c:670`), or `_send_msg_2_fd` after a part: nothing depends on it.
* Failures of `malloc`, `socket` and `pthread_create`, none of which the code looks at.
* Several clients: the server accepts once.
* Types of values in the hash table, which are copied and printed but never decide anything.

## 6. The plan

Done: every module of section 2, its runs, and the theorems of section 4. Every safety invariant and action property that
a passing run checks is also proved. What could follow:

1. `ShutdownOnlyAfterQuit` and the turns with messages in pieces but without spurious wakeups: which
   part of `OrderInv` is left.
2. A first byte with an uninitialised bit in `Session`, where it is taken as it was meant; `Wire` has it.
