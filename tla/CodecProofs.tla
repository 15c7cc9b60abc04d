---------------------------- MODULE CodecProofs ----------------------------
(***************************************************************************)
(* What the number codec does to every number of two, four or eight bytes: *)
(* for bytes of any range it stays within its types, and for bytes of 256  *)
(* values it returns the numbers that Codec says it returns.               *)
(***************************************************************************)
EXTENDS Codec, TLAPS

\* A byte read back: -1 where the number had all ones, for the 0 it was sent as.
Read(d) == IF d = 255 THEN -1 ELSE d

\* Two, four and eight bytes put together.
Join2(b, e)       == b * 256 + e
Join4(b, l, u, e) == ((b * 256 + l) * 256 + u) * 256 + e

\* The values of a byte, three powers of 256 and the digits of a number, as operators: the
\* steps that combine the lemmas never see the numerals.
Octet     == 0..255
Two       == 65536
Four      == 4294967296
Eight     == 18446744073709551616
Digit0(n) == n % 256
Digit1(n) == (n \div 256) % 256
Digit2(n) == (n \div 65536) % 256
Digit3(n) == (n \div 16777216) % 256

\* The upper and the lower half of eight bytes put together, and the upper half of a number.
Join8(h, l) == h * Four + l
Upper(n)    == n \div Four

\* They are those of the codec.
LEMMA Codec256 ==
  ASSUME Base = 256
  PROVE  /\ Power(2) = Two /\ Power(4) = Four /\ Power(8) = Eight
         /\ \A n \in Nat : /\ Digit(n, 0) = Digit0(n) /\ Digit(n, 1) = Digit1(n)
                           /\ Digit(n, 2) = Digit2(n) /\ Digit(n, 3) = Digit3(n)
<1>1. Power(2) = Two /\ Power(4) = Four /\ Power(8) = Eight
  <2>1. Power(2) = Two /\ Power(4) = Four
    BY SMTT(30) DEF Power, Two, Four
  <2>2. /\ Power(5) = Power(4) * Base /\ Power(6) = Power(5) * Base
        /\ Power(7) = Power(6) * Base /\ Power(8) = Power(7) * Base
    BY SMTT(30) DEF Power
  <2>3. Power(5) = 1099511627776
    BY <2>1, <2>2, SMT DEF Four
  <2>4. Power(6) = 281474976710656
    BY <2>2, <2>3, SMT
  <2>5. Power(7) = 72057594037927936
    BY <2>2, <2>4, SMT
  <2>6. QED
    BY <2>1, <2>2, <2>5, SMT DEF Eight
<1>2. \A n \in Nat : /\ Digit(n, 0) = Digit0(n) /\ Digit(n, 1) = Digit1(n)
                      /\ Digit(n, 2) = Digit2(n) /\ Digit(n, 3) = Digit3(n)
  BY SMTT(30) DEF Power, Digit, Digit0, Digit1, Digit2, Digit3
<1>3. QED
  BY <1>1, <1>2

\* The upper four digits are the digits of the upper half.
LEMMA UpperDigits ==
  ASSUME Base = 256, NEW n \in Nat
  PROVE  /\ Upper(n) \in Nat
         /\ Digit(n, 4) = Digit0(Upper(n)) /\ Digit(n, 5) = Digit1(Upper(n))
         /\ Digit(n, 6) = Digit2(Upper(n)) /\ Digit(n, 7) = Digit3(Upper(n))
  BY SMTT(30) DEF Power, Digit, Upper, Four, Digit0, Digit1, Digit2, Digit3

\* Digits are bytes.
LEMMA DigitType ==
  ASSUME NEW n \in Nat
  PROVE  /\ Digit0(n) \in Octet /\ Digit1(n) \in Octet
         /\ Digit2(n) \in Octet /\ Digit3(n) \in Octet
  BY SMTT(30) DEF Octet, Digit0, Digit1, Digit2, Digit3

\* Bytes put together are a number.
LEMMA JoinType2 ==
  ASSUME NEW b \in Octet, NEW e \in Octet
  PROVE  Join2(Read(b), Read(e)) \in Int
  BY SMT DEF Join2, Read, Octet

\* The same for four bytes.
LEMMA JoinType4 ==
  ASSUME NEW b \in Octet, NEW l \in Octet, NEW u \in Octet, NEW e \in Octet
  PROVE  Join4(Read(b), Read(l), Read(u), Read(e)) \in Int
  BY SMT DEF Join4, Read, Octet

\* A number is its digits put together, but for what its width cuts off.
LEMMA Digits2 ==
  ASSUME NEW n \in Nat
  PROVE  n % Two = Join2(Digit1(n), Digit0(n))
  BY SMTT(30) DEF Join2, Two, Digit0, Digit1

\* The same for four bytes.
LEMMA Digits4 ==
  ASSUME NEW n \in Nat
  PROVE  n % Four = Join4(Digit3(n), Digit2(n), Digit1(n), Digit0(n))
  BY SMTT(60) DEF Join4, Four, Digit0, Digit1, Digit2, Digit3

\* The same for eight bytes.
LEMMA Digits8 ==
  ASSUME NEW n \in Nat
  PROVE  n % Eight = Join8(Upper(n) % Four, n % Four)
  BY SMTT(30) DEF Join8, Upper, Four, Eight

\* A borrow from the highest byte is lost in the width, one from another byte is
\* not, and two of them never cancel: two bytes.
LEMMA Borrow2 ==
  ASSUME NEW b \in Octet, NEW e \in Octet
  PROVE  (Join2(Read(b), Read(e)) - Join2(b, e)) % Two = 0 <=> e # 255
  BY SMTT(30) DEF Octet, Read, Join2, Two

\* The same for four bytes.
LEMMA Borrow4 ==
  ASSUME NEW b \in Octet, NEW l \in Octet, NEW u \in Octet, NEW e \in Octet
  PROVE  (Join4(Read(b), Read(l), Read(u), Read(e)) - Join4(b, l, u, e)) % Four = 0
          <=> l # 255 /\ u # 255 /\ e # 255
  BY SMTT(30) DEF Octet, Read, Join4, Four

\* Whether a byte costs the one above it a turn.
One(d) == IF d = 255 THEN 1 ELSE 0
\* Each half is read too small by one turn for each of its bytes of all ones.
LEMMA Borrowed ==
  ASSUME NEW b \in Octet, NEW l \in Octet, NEW u \in Octet, NEW e \in Octet
  PROVE  /\ Join4(Read(b), Read(l), Read(u), Read(e))
              = Join4(b, l, u, e) - 256 * Join4(One(b), One(l), One(u), One(e))
         /\ Join4(b, l, u, e) \in Int /\ Join4(One(b), One(l), One(u), One(e)) \in Int
  BY SMTT(30) DEF Octet, Read, One, Join4

\* What is borrowed from both, but for the highest byte, is no multiple of the width.
LEMMA NoneCancel ==
  ASSUME NEW b \in 0..1, NEW l \in 0..1, NEW u \in 0..1, NEW e \in 0..1,
         NEW d \in 0..1, NEW m \in 0..1, NEW v \in 0..1, NEW f \in 0..1
  PROVE  (0 - 256 * Join8(Join4(b, l, u, e), Join4(d, m, v, f))) % Eight = 0
           <=> l = 0 /\ u = 0 /\ e = 0 /\ d = 0 /\ m = 0 /\ v = 0 /\ f = 0
  BY SMTT(60) DEF Join8, Join4, Four, Eight

\* Two differences of eight bytes that are the same.
LEMMA Difference ==
  ASSUME NEW h \in Int, NEW l \in Int, NEW x \in Int, NEW y \in Int
  PROVE  Join8(h - 256 * x, l - 256 * y) - Join8(h, l) = 0 - 256 * Join8(x, y)
  BY SMT DEF Join8, Four

\* Eight bytes as they were written, and as they are read.
Join8of(b, l, u, e, d, m, v, f) == Join8(Join4(b, l, u, e), Join4(d, m, v, f))
Read8of(b, l, u, e, d, m, v, f) ==
  Join8(Join4(Read(b), Read(l), Read(u), Read(e)), Join4(Read(d), Read(m), Read(v), Read(f)))

\* A difference from a number and one from its remainder are multiples alike.
LEMMA Congruent ==
  ASSUME NEW n \in Nat, NEW v \in Int
  PROVE  /\ (v - n) % Two = 0 <=> (v - (n % Two)) % Two = 0
         /\ (v - n) % Four = 0 <=> (v - (n % Four)) % Four = 0
         /\ (v - n) % Eight = 0 <=> (v - (n % Eight)) % Eight = 0
  BY SMTT(30) DEF Two, Four, Eight

\* What is read of two bytes.
LEMMA Reading2 ==
  ASSUME NEW n \in Nat, NEW v, v = Join2(Read(Digit1(n)), Read(Digit0(n)))
  PROVE  v \in Int /\ ((v - n) % Two = 0 <=> Digit0(n) # 255)
<1>1. Digit0(n) \in Octet /\ Digit1(n) \in Octet /\ v \in Int
  BY DigitType, JoinType2, Zenon
<1>2. (v - n) % Two = 0 <=> (v - (n % Two)) % Two = 0
  BY <1>1, Congruent, Zenon
<1>3. (v - Join2(Digit1(n), Digit0(n))) % Two = 0 <=> Digit0(n) # 255
  BY <1>1, Borrow2, Zenon
<1>4. QED
  BY <1>1, <1>2, <1>3, Digits2, Zenon

\* What is read of four bytes.
LEMMA Reading4 ==
  ASSUME NEW n \in Nat,
         NEW v, v = Join4(Read(Digit3(n)), Read(Digit2(n)), Read(Digit1(n)), Read(Digit0(n)))
  PROVE  v \in Int /\ ((v - n) % Four = 0
                         <=> Digit2(n) # 255 /\ Digit1(n) # 255 /\ Digit0(n) # 255)
<1>1. /\ Digit0(n) \in Octet /\ Digit1(n) \in Octet
      /\ Digit2(n) \in Octet /\ Digit3(n) \in Octet /\ v \in Int
  BY DigitType, JoinType4, Zenon
<1>2. (v - n) % Four = 0 <=> (v - (n % Four)) % Four = 0
  BY <1>1, Congruent, Zenon
<1>3. (v - Join4(Digit3(n), Digit2(n), Digit1(n), Digit0(n))) % Four = 0
        <=> Digit2(n) # 255 /\ Digit1(n) # 255 /\ Digit0(n) # 255
  BY <1>1, Borrow4, SMT
<1>4. QED
  BY <1>1, <1>2, <1>3, Digits4, Zenon

\* No digit but the highest is all ones.
Clear8(n) ==
  /\ Digit2(Upper(n)) # 255 /\ Digit1(Upper(n)) # 255 /\ Digit0(Upper(n)) # 255
  /\ Digit3(n) # 255 /\ Digit2(n) # 255 /\ Digit1(n) # 255 /\ Digit0(n) # 255

\* What is read of eight bytes.
LEMMA Reading8 ==
  ASSUME NEW n \in Nat, Upper(n) \in Nat, NEW v,
         v = Join8(Join4(Read(Digit3(Upper(n))), Read(Digit2(Upper(n))),
                         Read(Digit1(Upper(n))), Read(Digit0(Upper(n)))),
                   Join4(Read(Digit3(n)), Read(Digit2(n)), Read(Digit1(n)), Read(Digit0(n))))
  PROVE  (v - n) % Eight = 0 <=> Clear8(n)
<1> DEFINE a == Digit3(Upper(n))
           b == Digit2(Upper(n))
           c == Digit1(Upper(n))
           d == Digit0(Upper(n))
           e == Digit3(n)
           f == Digit2(n)
           g == Digit1(n)
           h == Digit0(n)
<1>1. /\ a \in Octet /\ b \in Octet /\ c \in Octet /\ d \in Octet
      /\ e \in Octet /\ f \in Octet /\ g \in Octet /\ h \in Octet
  BY DigitType, Zenon
<1>2. v = Read8of(a, b, c, d, e, f, g, h)
  BY DEF Read8of
<1>3. n % Eight = Join8of(a, b, c, d, e, f, g, h)
  BY Digits8, Digits4, Zenon DEF Join8of
<1>4. Clear8(n) <=> b # 255 /\ c # 255 /\ d # 255 /\ e # 255 /\ f # 255 /\ g # 255 /\ h # 255
  BY DEF Clear8
<1> HIDE DEF a, b, c, d, e, f, g, h
<1>5. v \in Int
  <2>1. \A x \in Int, y \in Int : Join8(x, y) \in Int
    BY SMT DEF Join8, Four
  <2>2. /\ Join4(Read(a), Read(b), Read(c), Read(d)) \in Int
        /\ Join4(Read(e), Read(f), Read(g), Read(h)) \in Int
    BY <1>1, JoinType4
  <2>3. QED
    BY <1>2, <2>1, <2>2 DEF Read8of
<1>6. (v - n) % Eight = 0 <=> (v - (n % Eight)) % Eight = 0
  BY <1>5, Congruent, Zenon
<1>7. (Read8of(a, b, c, d, e, f, g, h) - Join8of(a, b, c, d, e, f, g, h)) % Eight = 0
        <=> b # 255 /\ c # 255 /\ d # 255 /\ e # 255 /\ f # 255 /\ g # 255 /\ h # 255
  <2>1. \A x \in Octet : One(x) \in 0..1 /\ (One(x) = 0 <=> x # 255)
    BY SMT DEF Octet, One
  <2>2. Read8of(a, b, c, d, e, f, g, h) - Join8of(a, b, c, d, e, f, g, h)
        = 0 - 256 * Join8(Join4(One(a), One(b), One(c), One(d)), Join4(One(e), One(f), One(g), One(h)))
    BY <1>1, Borrowed, Difference DEF Read8of, Join8of
  <2>3. (0 - 256 * Join8(Join4(One(a), One(b), One(c), One(d)),
                         Join4(One(e), One(f), One(g), One(h)))) % Eight = 0
          <=> /\ One(b) = 0 /\ One(c) = 0 /\ One(d) = 0
              /\ One(e) = 0 /\ One(f) = 0 /\ One(g) = 0 /\ One(h) = 0
    BY <1>1, <2>1, NoneCancel
  <2>4. QED
    BY <1>1, <2>1, <2>2, <2>3
<1>8. QED
  BY <1>2, <1>3, <1>4, <1>6, <1>7

\* Eight bytes put together one after the other: the upper half comes first.
LEMMA Horner8 ==
  ASSUME NEW x \in Int, NEW e \in Int, NEW f \in Int, NEW g \in Int, NEW h \in Int
  PROVE  (((x * 256 + e) * 256 + f) * 256 + g) * 256 + h = Join8(x, Join4(e, f, g, h))
  BY SMT DEF Join8, Join4, Four

\* A byte that was incremented modulo 256 and is decremented again.
LEMMA Incremented ==
  ASSUME NEW d \in Octet
  PROVE  ((d + 1) % 256) - 1 = Read(d)
  BY SMT DEF Octet, Read

-----------------------------------------------------------------------------
(* The loop, for bytes of any range. *)

\* A digit is a number, and incremented it is a byte.
LEMMA DigitIsByte ==
  ASSUME NEW n \in Nat, NEW k \in 0..7
  PROVE  Digit(n, k) \in Byte /\ (Digit(n, k) + 1) % Base \in Byte
<1>1. Base \in Nat \ {0}
  BY CodecAssumption, SMT
<1>2. \A a, b \in Nat \ {0} : a * b \in Nat \ {0}
  BY SMT
<1>3. Power(k) \in Nat \ {0}
  <2>1. k = 0 \/ k = 1 \/ k = 2 \/ k = 3 \/ k = 4 \/ k = 5 \/ k = 6 \/ k = 7
    BY SMT
  <2>2. 1 \in Nat \ {0}
    BY SMT
  <2>3. /\ Base * Base \in Nat \ {0}
        /\ Base * Base * Base \in Nat \ {0}
        /\ Base * Base * Base * Base \in Nat \ {0}
        /\ Base * Base * Base * Base * Base \in Nat \ {0}
        /\ Base * Base * Base * Base * Base * Base \in Nat \ {0}
        /\ Base * Base * Base * Base * Base * Base * Base \in Nat \ {0}
    BY <1>1, <1>2, Zenon
  <2>4. QED
    BY <1>1, <2>1, <2>2, <2>3, SMT DEF Power
<1>4. \A a \in Nat, b \in Nat \ {0} : a \div b \in Nat /\ a % b \in 0..(b - 1)
  BY SMT
<1>5. n \div Power(k) \in Nat
  BY <1>3, <1>4
<1>6. Digit(n, k) \in 0..(Base - 1)
  BY <1>1, <1>4, <1>5 DEF Digit
<1>7. Digit(n, k) + 1 \in Nat
  BY <1>1, <1>6
<1>8. (Digit(n, k) + 1) % Base \in 0..(Base - 1)
  BY <1>1, <1>4, <1>7
<1>9. QED
  BY <1>6, <1>8 DEF Byte

\* Whatever the bytes, what is read is an integer.
LEMMA ParseType ==
  ASSUME NEW d \in [1..8 -> Int]
  PROVE  Parse2(d) \in Int /\ Parse4(d) \in Int /\ Parse8(d) \in Int
<1>1. Base \in Int
  BY CodecAssumption, SMT
<1>2. \A a, b \in Int : a * Base + b \in Int
  BY <1>1, SMT
<1>3. /\ d[1] \in Int /\ d[2] \in Int /\ d[3] \in Int /\ d[4] \in Int
      /\ d[5] \in Int /\ d[6] \in Int /\ d[7] \in Int /\ d[8] \in Int
  BY SMT
<1>4. Parse2(d) \in Int
  BY <1>2, <1>3, Zenon DEF Parse2
<1>5. Parse2(d) * Base + d[3] \in Int
  BY <1>2, <1>3, <1>4, Zenon
<1>6. Parse4(d) \in Int
  BY <1>2, <1>3, <1>5, Zenon DEF Parse4
<1>7. Parse4(d) * Base + d[5] \in Int
  BY <1>2, <1>3, <1>6, Zenon
<1>8. (Parse4(d) * Base + d[5]) * Base + d[6] \in Int
  BY <1>2, <1>3, <1>7, Zenon
<1>9. ((Parse4(d) * Base + d[5]) * Base + d[6]) * Base + d[7] \in Int
  BY <1>2, <1>3, <1>8, Zenon
<1>10. Parse8(d) \in Int
  BY <1>2, <1>3, <1>9, Zenon DEF Parse8
<1>11. QED
  BY <1>4, <1>6, <1>10

Inv == TypeOK /\ PaddingInv

\* The initial state.
LEMMA CodecInit == Init => Inv /\ RoundTrip
  BY CodecAssumption, SMT DEF Init, Inv, TypeOK, PaddingInv, Written, RoundTrip, Byte

\* Writing one byte keeps those that are written.
LEMMA PadByteStep ==
  ASSUME Inv, PadByte
  PROVE  Inv'
<1> USE DEF Inv, TypeOK, PaddingInv, Written
<1>1. j \in 0..7 /\ width - j \in 1..8 /\ j + 1 <= width
  BY SMT DEF PadByte
<1>2. (Digit(num, j) + 1) % Base \in Byte
  BY <1>1, DigitIsByte
<1> HIDE DEF Byte
<1>3. TypeOK'
  BY <1>1, <1>2, SMT DEF PadByte
<1>4. ASSUME NEW k \in 0..j
      PROVE  bytes'[width - k] = (Digit(num, k) + 1) % Base
  <2>1. CASE k = j
    BY <1>1, <2>1, SMT DEF PadByte
  <2>2. CASE k \in 0..(j - 1)
    BY <1>1, <2>2, SMT DEF PadByte
  <2>3. QED
    BY <1>1, <1>4, <2>1, <2>2, SMT
<1>5. Written'
  <2>1. num' = num /\ width' = width /\ j' - 1 = j
    BY <1>1, SMT DEF PadByte
  <2>2. QED
    BY <1>4, <2>1, Zenon DEF Digit, Power
<1>6. QED
  BY <1>3, <1>5, SMT DEF PadByte

\* Every step keeps the invariant, for bytes of any range.
LEMMA InvStep == Inv /\ [Next]_vars => Inv'
<1> SUFFICES ASSUME Inv, [Next]_vars PROVE Inv'
  OBVIOUS
<1> USE DEF Inv, TypeOK, PaddingInv, Written
<1>1. CASE Call
  <2>1. /\ num' \in Nat /\ width' \in {2, 4, 8} /\ stage' = "pad"
        /\ j' = 0 /\ bytes' = bytes /\ value' = value
    BY <1>1, CodecAssumption, SMT DEF Call
  <2>2. QED
    BY <2>1, SMT
<1>2. CASE PadByte
  BY <1>2, PadByteStep
<1>3. CASE Padded
  BY <1>3, SMT DEF Padded, Digit
<1>4. CASE Parse
  <2> DEFINE d == [p \in 1..8 |-> bytes[p] - 1]
  <2>1. d \in [1..8 -> Int]
    BY CodecAssumption, SMT DEF Byte
  <2>2. value' = Parse2(d) \/ value' = Parse4(d) \/ value' = Parse8(d)
    BY <1>4, SMT DEF Parse
  <2> HIDE DEF d
  <2>3. value' \in Int
    BY <2>1, <2>2, ParseType, Zenon
  <2>4. /\ num' = num /\ width' = width /\ j' = j /\ bytes' = bytes
        /\ stage' = "done" /\ stage = "parse"
    BY <1>4, Zenon DEF Parse
  <2>5. QED
    BY <2>3, <2>4 DEF Digit
<1>5. CASE Finished \/ UNCHANGED vars
  <2>1. /\ stage' = stage /\ num' = num /\ width' = width
        /\ j' = j /\ bytes' = bytes /\ value' = value
    BY <1>5, SMT DEF Finished, vars
  <2>2. QED
    BY <2>1, Zenon
<1>6. QED
  BY <1>1, <1>2, <1>3, <1>4, <1>5 DEF Next

\* For bytes of any range, every number and every width: no byte that is written is out
\* of its range, and no more of them are written than the width says (hippie.c:235-251).
THEOREM CodecTypeCorrect == Spec => []TypeOK
<1>1. Inv => TypeOK
  BY DEF Inv
<1>2. QED
  BY <1>1, CodecInit, InvStep, PTL DEF Spec

-----------------------------------------------------------------------------
(* What is read, for bytes of 256 values. *)

\* What the parser makes of a byte that was written.
LEMMA BytesWritten ==
  ASSUME Base = 256, Inv, NEW k \in 0..(width - 1), stage = "parse"
  PROVE  bytes[width - k] - 1 = Read(Digit(num, k))
<1>1. bytes[width - k] = (Digit(num, k) + 1) % 256
  BY SMT DEF Inv, TypeOK, PaddingInv, Written
<1>2. Digit(num, k) \in Octet
  <2>1. num \in Nat /\ k \in 0..7
    BY SMT DEF Inv, TypeOK
  <2>2. QED
    BY <2>1, DigitIsByte, SMT DEF Byte, Octet
<1>3. QED
  BY <1>1, <1>2, Incremented, SMTT(30)

\* Reading the number back.
LEMMA ParseStep ==
  ASSUME Base = 256, Inv, Parse
  PROVE  RoundTrip'
<1>1. num \in Nat /\ num' = num /\ width' = width /\ width \in {2, 4, 8}
  BY SMT DEF Inv, TypeOK, Parse
<1>2. /\ Power(2) = Two /\ Power(4) = Four /\ Power(8) = Eight
      /\ Digit(num, 0) = Digit0(num) /\ Digit(num, 1) = Digit1(num)
      /\ Digit(num, 2) = Digit2(num) /\ Digit(num, 3) = Digit3(num)
  BY <1>1, Codec256
<1>3. CASE width = 2
  <2>1. bytes[1] - 1 = Read(Digit1(num)) /\ bytes[2] - 1 = Read(Digit0(num))
    BY <1>2, <1>3, BytesWritten, SMT DEF Parse
  <2>2. value' = (bytes[1] - 1) * 256 + (bytes[2] - 1)
    BY <1>3, SMT DEF Parse, Parse2
  <2>3. value' = Join2(Read(Digit1(num)), Read(Digit0(num)))
    BY <2>1, <2>2, Zenon DEF Join2
  <2>4. (value' - num) % Two = 0 <=> Digit0(num) # 255
    BY <1>1, <2>3, Reading2
  <2>5. Survives' <=> Digit0(num) # 255
    BY <1>1, <1>2, <1>3, SMT DEF Survives
  <2>6. QED
    BY <1>1, <1>2, <1>3, <2>4, <2>5 DEF RoundTrip
<1>4. CASE width = 4
  <2>1. /\ bytes[1] - 1 = Read(Digit3(num)) /\ bytes[2] - 1 = Read(Digit2(num))
        /\ bytes[3] - 1 = Read(Digit1(num)) /\ bytes[4] - 1 = Read(Digit0(num))
    BY <1>2, <1>4, BytesWritten, SMT DEF Parse
  <2>2. value' = (((((bytes[1] - 1) * 256 + (bytes[2] - 1)) * 256) + (bytes[3] - 1)) * 256)
                    + (bytes[4] - 1)
    BY <1>4, SMT DEF Parse, Parse2, Parse4
  <2>3. value' = Join4(Read(Digit3(num)), Read(Digit2(num)), Read(Digit1(num)), Read(Digit0(num)))
    BY <2>1, <2>2, Zenon DEF Join4
  <2>4. (value' - num) % Four = 0
          <=> Digit2(num) # 255 /\ Digit1(num) # 255 /\ Digit0(num) # 255
    BY <1>1, <2>3, Reading4
  <2>5. Survives' <=> Digit2(num) # 255 /\ Digit1(num) # 255 /\ Digit0(num) # 255
    BY <1>1, <1>2, <1>4, SMT DEF Survives
  <2>6. QED
    BY <1>1, <1>2, <1>4, <2>4, <2>5 DEF RoundTrip
<1>5. CASE width = 8
  <2> DEFINE u == Upper(num)
  <2>1. /\ u \in Nat
        /\ Digit(num, 4) = Digit0(u) /\ Digit(num, 5) = Digit1(u)
        /\ Digit(num, 6) = Digit2(u) /\ Digit(num, 7) = Digit3(u)
    BY <1>1, UpperDigits
  <2> HIDE DEF u
  <2>2. /\ bytes[1] - 1 = Read(Digit3(u)) /\ bytes[2] - 1 = Read(Digit2(u))
        /\ bytes[3] - 1 = Read(Digit1(u)) /\ bytes[4] - 1 = Read(Digit0(u))
        /\ bytes[5] - 1 = Read(Digit3(num)) /\ bytes[6] - 1 = Read(Digit2(num))
        /\ bytes[7] - 1 = Read(Digit1(num)) /\ bytes[8] - 1 = Read(Digit0(num))
    BY <1>2, <1>5, <2>1, BytesWritten, SMT DEF Parse
  <2> DEFINE d == [p \in 1..8 |-> bytes[p] - 1]
  <2>3. value' = Parse8(d)
    BY <1>5, SMT DEF Parse
  <2>4. /\ d[1] = Read(Digit3(u)) /\ d[2] = Read(Digit2(u))
        /\ d[3] = Read(Digit1(u)) /\ d[4] = Read(Digit0(u))
        /\ d[5] = Read(Digit3(num)) /\ d[6] = Read(Digit2(num))
        /\ d[7] = Read(Digit1(num)) /\ d[8] = Read(Digit0(num))
    BY <2>2
  <2>5. /\ d[1] \in Int /\ d[2] \in Int /\ d[3] \in Int /\ d[4] \in Int
        /\ d[5] \in Int /\ d[6] \in Int /\ d[7] \in Int /\ d[8] \in Int
    <3>1. bytes \in [1..8 -> Int]
      BY CodecAssumption DEF Inv, TypeOK, Byte
    <3>2. \A p \in 1..8 : d[p] \in Int
      BY <3>1
    <3> HIDE DEF d
    <3>3. QED
      BY <3>2
  <2> HIDE DEF d
  <2>6. Parse8(d) = Join8of(d[1], d[2], d[3], d[4], d[5], d[6], d[7], d[8])
    <3>1. Parse8(d) = ((((Join4(d[1], d[2], d[3], d[4]) * 256 + d[5]) * 256 + d[6]) * 256 + d[7])
                          * 256 + d[8])
      BY Zenon DEF Parse8, Parse4, Parse2, Join4
    <3>2. Join4(d[1], d[2], d[3], d[4]) \in Int
      BY <2>5, SMT DEF Join4
    <3>3. PICK x \in Int, e \in Int, f \in Int, g \in Int, h \in Int :
            x = Join4(d[1], d[2], d[3], d[4]) /\ e = d[5] /\ f = d[6] /\ g = d[7] /\ h = d[8]
      BY <2>5, <3>2
    <3>4. (((x * 256 + e) * 256 + f) * 256 + g) * 256 + h = Join8(x, Join4(e, f, g, h))
      BY Horner8
    <3>5. QED
      BY <3>1, <3>3, <3>4 DEF Join8of
  <2>7. value' = Join8(Join4(Read(Digit3(u)), Read(Digit2(u)), Read(Digit1(u)), Read(Digit0(u))),
                       Join4(Read(Digit3(num)), Read(Digit2(num)),
                             Read(Digit1(num)), Read(Digit0(num))))
    BY <2>3, <2>4, <2>6, Zenon DEF Join8of
  <2>8. (value' - num) % Eight = 0 <=> Clear8(num)
    BY <1>1, <2>1, <2>7, Reading8 DEF u
  <2>9. Survives' <=> Clear8(num)
    BY <1>1, <1>2, <1>5, <2>1, SMT DEF Survives, Clear8, u
  <2>10. QED
    BY <1>1, <1>2, <1>5, <2>8, <2>9 DEF RoundTrip
<1>6. QED
  BY <1>1, <1>3, <1>4, <1>5

\* Only the parser has to do with what is read.
LEMMA CodecStep ==
  ASSUME Base = 256, Inv, RoundTrip, [Next]_vars
  PROVE  RoundTrip'
<1>1. CASE Call \/ PadByte \/ Padded
  <2>1. stage' # "done"
    BY <1>1 DEF Call, PadByte, Padded
  <2>2. QED
    BY <2>1 DEF RoundTrip
<1>2. CASE Parse
  BY <1>2, ParseStep
<1>3. CASE Finished \/ UNCHANGED vars
  <2>1. /\ stage' = stage /\ num' = num /\ width' = width /\ value' = value
    BY <1>3 DEF Finished, vars
  <2>2. QED
    BY <2>1 DEF RoundTrip, Survives
<1>4. QED
  BY <1>1, <1>2, <1>3 DEF Next

\* For bytes of 256 values every number comes back as it was written, up to what its
\* width cuts off, if and only if none of its bytes but the highest is 0xFF; that holds
\* for two, four and eight bytes (hippie.c:235-282).
THEOREM RoundTripHolds ==
  ASSUME Base = 256
  PROVE  Spec => []RoundTrip
<1>1. Inv /\ RoundTrip /\ [Next]_vars => Inv' /\ RoundTrip'
  BY InvStep, CodecStep
<1>2. QED
  BY <1>1, CodecInit, PTL DEF Spec

=============================================================================
