------------------------------- MODULE Codec -------------------------------
(***************************************************************************)
(* How hippie.c writes a number into 2, 4 or 8 bytes of a message and      *)
(* reads it back.  Each byte is sent incremented by one, because 0 would   *)
(* end the message for strlen; the increment wraps a byte of all ones.     *)
(***************************************************************************)
EXTENDS Integers

CONSTANTS
  Base,      \* the values of a byte: 256 in the code
  Widths,    \* the widths in use
  Numbers    \* the numbers written

ASSUME CodecAssumption ==
  /\ Base \in Nat /\ Base >= 2
  /\ Widths \subseteq {2, 4, 8}
  /\ Numbers \subseteq Nat

VARIABLES
  stage,   \* "idle", "pad", "parse" or "done"
  num,     \* the number written
  width,   \* the bytes it is written into
  j,       \* the bytes written so far, the last byte first
  bytes,   \* the bytes of the message
  value    \* the number read

vars == <<stage, num, width, j, bytes, value>>

Byte == 0..(Base - 1)

Init ==
  /\ stage = "idle"
  /\ num = 0
  /\ width = 2
  /\ j = 0
  /\ bytes = [p \in 1..8 |-> 0]
  /\ value = 0

Call ==
  /\ stage = "idle"
  /\ stage' = "pad"
  /\ num' \in Numbers
  /\ width' \in Widths
  /\ UNCHANGED <<j, bytes, value>>

\* 1 << (k * CHAR_BIT), for k <= 8.
Power(k) ==
  CASE k = 0 -> 1
    [] k = 1 -> Base
    [] k = 2 -> Base * Base
    [] k = 3 -> Base * Base * Base
    [] k = 4 -> Base * Base * Base * Base
    [] k = 5 -> Base * Base * Base * Base * Base
    [] k = 6 -> Base * Base * Base * Base * Base * Base
    [] k = 7 -> Base * Base * Base * Base * Base * Base * Base
    [] k = 8 -> Base * Base * Base * Base * Base * Base * Base * Base

\* (num >> (k * CHAR_BIT)) & 0xFF
Digit(n, k) == (n \div Power(k)) % Base

\* Mutant: the byte is not incremented.
PadByte_Plain ==
  /\ stage = "pad" /\ j < width
  /\ bytes' = [bytes EXCEPT ![width - j] = Digit(num, j)]
  /\ j' = j + 1
  /\ UNCHANGED <<stage, num, width, value>>

\* Mutant: the increment does not wrap.
PadByte_Wide ==
  /\ stage = "pad" /\ j < width
  /\ bytes' = [bytes EXCEPT ![width - j] = Digit(num, j) + 1]
  /\ j' = j + 1
  /\ UNCHANGED <<stage, num, width, value>>

\* One iteration of _int_padded_to_charbytes.
PadByte ==
  /\ stage = "pad" /\ j < width
  /\ bytes' = [bytes EXCEPT ![width - j] = (Digit(num, j) + 1) % Base]
  /\ j' = j + 1
  /\ UNCHANGED <<stage, num, width, value>>

Padded ==
  /\ stage = "pad" /\ j = width
  /\ stage' = "parse"
  /\ UNCHANGED <<num, width, j, bytes, value>>

\* The bytes put together, as (b << 8) + e and as PARSE_4BYTES_TO_INT and
\* PARSE_8BYTES_TO_LONG do; d is the byte less one, which is -1 for a byte 0.
Parse2(d) == d[1] * Base + d[2]
Parse4(d) == (Parse2(d) * Base + d[3]) * Base + d[4]
Parse8(d) == (((Parse4(d) * Base + d[5]) * Base + d[6]) * Base + d[7]) * Base + d[8]

Parse ==
  /\ stage = "parse"
  /\ LET d == [p \in 1..8 |-> bytes[p] - 1] IN
       value' = CASE width = 2 -> Parse2(d)
                  [] width = 4 -> Parse4(d)
                  [] width = 8 -> Parse8(d)
  /\ stage' = "done"
  /\ UNCHANGED <<num, width, j, bytes>>

Finished == stage = "done" /\ UNCHANGED vars

Next == Call \/ PadByte \/ Padded \/ Parse \/ Finished

Spec == Init /\ [][Next]_vars

-----------------------------------------------------------------------------
(* Properties. *)

\* Every variable has its type; a byte is never out of its range.
TypeOK ==
  /\ stage \in {"idle", "pad", "parse", "done"}
  /\ num \in Nat /\ width \in {2, 4, 8}
  /\ j \in 0..width
  /\ bytes \in [1..8 -> Byte]
  /\ value \in Int

\* A number comes back as it was written, up to what its width cuts off, exactly
\* when none of its bytes but the highest is all ones: the 0 such a byte is sent
\* as is read as -1, which borrows from the next byte, and no two borrows cancel.
\* In the highest byte the borrow falls out of the width (hippie.c:246, 254-282).
Survives == \A k \in 0..(width - 2) : Digit(num, k) # Base - 1
RoundTrip == stage = "done" => ((value - num) % Power(width) = 0 <=> Survives)

\* The loop invariant: the bytes written are those of the number, from the lowest.
Written == \A k \in 0..(j - 1) : bytes[width - k] = (Digit(num, k) + 1) % Base
PaddingInv ==
  /\ Written
  /\ stage = "idle" => j = 0
  /\ stage \in {"parse", "done"} => j = width

=============================================================================
