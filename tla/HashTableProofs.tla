-------------------------- MODULE HashTableProofs --------------------------
(* Proofs about HashTable, for every value of its constants. *)
EXTENDS HashTable, FiniteSetTheorems, SequenceTheorems, TLAPS

-----------------------------------------------------------------------------
(* What the operators on sequences that the model is built from do. *)

\* A key appended to a chain that does not hold it.
LEMMA AppendLemma ==
  ASSUME NEW S, NEW s \in Seq(S), NEW e \in S
  PROVE  /\ Append(s, e) \in Seq(S)
         /\ ToSet(Append(s, e)) = ToSet(s) \cup {e}
         /\ IsInjective(s) /\ e \notin ToSet(s) => IsInjective(Append(s, e))
  <1>1. /\ Append(s, e) \in Seq(S) /\ DOMAIN Append(s, e) = 1..(Len(s) + 1)
        /\ \A i \in 1..Len(s) : Append(s, e)[i] = s[i]
        /\ Append(s, e)[Len(s) + 1] = e
    BY AppendProperties
  <1>2. DOMAIN s = 1..Len(s) /\ Len(s) \in Nat
    BY LenProperties
  <1>3. ToSet(Append(s, e)) = ToSet(s) \cup {e}
    BY <1>1, <1>2 DEF ToSet
  <1>4. ASSUME IsInjective(s), e \notin ToSet(s) PROVE IsInjective(Append(s, e))
    <2> SUFFICES ASSUME NEW a \in 1..(Len(s) + 1), NEW b \in 1..(Len(s) + 1),
                        Append(s, e)[a] = Append(s, e)[b]
                 PROVE  a = b
      BY <1>1 DEF IsInjective
    <2>1. \A i \in 1..Len(s) : s[i] # e
      BY <1>2, <1>4 DEF ToSet
    <2>2. \A i, j \in 1..Len(s) : s[i] = s[j] => i = j
      BY <1>2, <1>4 DEF IsInjective
    <2>3. QED
      BY <1>1, <1>2, <2>1, <2>2
  <1>5. QED
    BY <1>1, <1>3, <1>4

\* The first key taken from a bucket.
LEMMA TailLemma ==
  ASSUME NEW S, NEW s \in Seq(S), s # <<>>, IsInjective(s)
  PROVE  /\ Tail(s) \in Seq(S) /\ Head(s) \in S /\ Head(s) \in ToSet(s)
         /\ ToSet(Tail(s)) = ToSet(s) \ {Head(s)}
         /\ IsInjective(Tail(s))
  <1>1. /\ Head(s) \in S /\ Tail(s) \in Seq(S)
        /\ Len(Tail(s)) = Len(s) - 1 /\ \A i \in 1..Len(Tail(s)) : Tail(s)[i] = s[i + 1]
    BY HeadTailProperties
  <1>2. DOMAIN s = 1..Len(s) /\ Len(s) \in Nat \ {0} /\ Head(s) = s[1]
        /\ DOMAIN Tail(s) = 1..(Len(s) - 1)
    BY <1>1, LenProperties, EmptySeq
  <1>3. Head(s) \in ToSet(s)
    BY <1>2 DEF ToSet
  <1>4. \A a, b \in 1..Len(s) : s[a] = s[b] => a = b
    BY <1>2 DEF IsInjective
  <1>5. ToSet(Tail(s)) = ToSet(s) \ {Head(s)}
    <2>1. ASSUME NEW x \in ToSet(Tail(s)) PROVE x \in ToSet(s) /\ x # Head(s)
      BY <1>1, <1>2, <1>4, <2>1 DEF ToSet
    <2>2. ASSUME NEW x \in ToSet(s), x # Head(s) PROVE x \in ToSet(Tail(s))
      <3>1. PICK i \in 1..Len(s) : x = s[i]
        BY <1>2, <2>2 DEF ToSet
      <3>2. i - 1 \in 1..(Len(s) - 1) /\ Tail(s)[i - 1] = s[i]
        BY <1>1, <1>2, <2>2, <3>1
      <3>3. QED
        BY <1>2, <3>1, <3>2 DEF ToSet
    <2>3. QED
      BY <2>1, <2>2
  <1>6. IsInjective(Tail(s))
    BY <1>1, <1>2, <1>4 DEF IsInjective
  <1>7. QED
    BY <1>1, <1>3, <1>5, <1>6

\* A key unlinked from within a chain.
LEMMA RemoveLemma ==
  ASSUME NEW S, NEW s \in Seq(S), NEW p \in 1..Len(s), IsInjective(s)
  PROVE  /\ RemoveAt(s, p) \in Seq(S)
         /\ ToSet(RemoveAt(s, p)) = ToSet(s) \ {s[p]}
         /\ IsInjective(RemoveAt(s, p))
  <1> DEFINE r == RemoveAt(s, p)
  <1>1. DOMAIN s = 1..Len(s) /\ Len(s) \in Nat
    BY LenProperties
  <1>2. /\ SubSeq(s, 1, p - 1) \in Seq(S) /\ Len(SubSeq(s, 1, p - 1)) = p - 1
        /\ \A i \in 1..(p - 1) : SubSeq(s, 1, p - 1)[i] = s[i]
    BY <1>1, SubSeqProperties
  <1>3. /\ SubSeq(s, p + 1, Len(s)) \in Seq(S) /\ Len(SubSeq(s, p + 1, Len(s))) = Len(s) - p
        /\ \A i \in 1..(Len(s) - p) : SubSeq(s, p + 1, Len(s))[i] = s[i + p]
    <2>1. \A i \in (p + 1)..Len(s) : s[i] \in S
      BY <1>1, ElementOfSeq
    <2>2. /\ SubSeq(s, p + 1, Len(s)) \in Seq(S)
          /\ Len(SubSeq(s, p + 1, Len(s))) = IF p + 1 <= Len(s) THEN Len(s) - (p + 1) + 1 ELSE 0
          /\ \A i \in 1..(Len(s) - (p + 1) + 1) :
               SubSeq(s, p + 1, Len(s))[i] = s[(p + 1) + i - 1]
      BY <1>1, <2>1, SubSeqProperties
    <2>3. Len(SubSeq(s, p + 1, Len(s))) = Len(s) - p
      <3>1. CASE p + 1 <= Len(s)
        BY <1>1, <2>2, <3>1
      <3>2. CASE p = Len(s)
        BY <1>1, <2>2, <3>2
      <3>3. p + 1 <= Len(s) \/ p = Len(s)
        <4>1. p \in Nat /\ p <= Len(s) /\ Len(s) \in Nat
          BY <1>1
        <4>2. \A a, b \in Nat : a <= b => a + 1 <= b \/ a = b
          OBVIOUS
        <4>3. QED
          BY <4>1, <4>2, Zenon
      <3>4. QED
        BY <3>1, <3>2, <3>3
    <2>4. ASSUME NEW i \in 1..(Len(s) - p) PROVE SubSeq(s, p + 1, Len(s))[i] = s[i + p]
      <3>1. i \in 1..(Len(s) - (p + 1) + 1) /\ (p + 1) + i - 1 = i + p
        BY <1>1
      <3>2. QED
        BY <2>2, <3>1
    <2>5. QED
      BY <2>2, <2>3, <2>4
  <1>4. /\ r \in Seq(S) /\ DOMAIN r = 1..(Len(s) - 1)
        /\ \A i \in 1..(Len(s) - 1) : r[i] = IF i < p THEN s[i] ELSE s[i + 1]
    <2> DEFINE h == SubSeq(s, 1, p - 1)
               t == SubSeq(s, p + 1, Len(s))
    <2>1. r = h \o t
      BY DEF RemoveAt
    <2>2. /\ h \in Seq(S) /\ Len(h) = p - 1 /\ \A i \in 1..(p - 1) : h[i] = s[i]
          /\ t \in Seq(S) /\ Len(t) = Len(s) - p /\ \A i \in 1..(Len(s) - p) : t[i] = s[i + p]
      BY <1>2, <1>3
    <2> HIDE DEF r, h, t
    <2>3. /\ h \o t \in Seq(S) /\ Len(h \o t) = Len(s) - 1
          /\ \A i \in 1..(Len(s) - 1) : (h \o t)[i] = IF i <= p - 1 THEN h[i] ELSE t[i - (p - 1)]
      <3>1. /\ h \o t \in Seq(S) /\ Len(h \o t) = Len(h) + Len(t)
            /\ \A i \in 1..(Len(h) + Len(t)) :
                 (h \o t)[i] = IF i <= Len(h) THEN h[i] ELSE t[i - Len(h)]
        BY <2>2, ConcatProperties
      <3>2. Len(h) + Len(t) = Len(s) - 1 /\ Len(h) = p - 1
        BY <1>1, <2>2
      <3>3. QED
        BY <3>1, <3>2
    <2>4. ASSUME NEW i \in 1..(Len(s) - 1)
          PROVE  (h \o t)[i] = IF i < p THEN s[i] ELSE s[i + 1]
      <3>1. CASE i < p
        BY <2>2, <2>3, <3>1
      <3>2. CASE i >= p
        <4>1. i - (p - 1) \in 1..(Len(s) - p) /\ (i - (p - 1)) + p = i + 1
          BY <1>1, <3>2
        <4>2. t[i - (p - 1)] = s[i + 1]
          BY <2>2, <4>1
        <4>3. QED
          BY <1>1, <2>3, <3>2, <4>2
      <3>3. i < p \/ i >= p
        BY <1>1
      <3>4. QED
        BY <3>1, <3>2, <3>3
    <2>5. QED
      BY <2>1, <2>3, <2>4, LenProperties
  <1> HIDE DEF r
  <1>5. \A a, b \in 1..Len(s) : s[a] = s[b] => a = b
    BY <1>1 DEF IsInjective
  <1>6. ToSet(r) = ToSet(s) \ {s[p]}
    <2>1. ASSUME NEW x \in ToSet(r) PROVE x \in ToSet(s) /\ x # s[p]
      <3>1. PICK i \in 1..(Len(s) - 1) : x = r[i]
        BY <1>4 DEF ToSet
      <3>2. CASE i < p
        <4>1. x = s[i] /\ i \in 1..Len(s) /\ i # p
          BY <1>1, <1>4, <3>1, <3>2
        <4>2. QED
          BY <1>1, <1>5, <4>1 DEF ToSet
      <3>3. CASE ~(i < p)
        <4>1. x = s[i + 1] /\ i + 1 \in 1..Len(s) /\ i + 1 # p
          BY <1>1, <1>4, <3>1, <3>3
        <4>2. QED
          BY <1>1, <1>5, <4>1 DEF ToSet
      <3>4. QED
        BY <3>2, <3>3
    <2>2. ASSUME NEW x \in ToSet(s), x # s[p] PROVE x \in ToSet(r)
      <3>1. PICK i \in 1..Len(s) : x = s[i]
        BY <1>1 DEF ToSet
      <3>2. CASE i < p
        <4>1. i \in 1..(Len(s) - 1) /\ r[i] = x
          BY <1>1, <1>4, <3>1, <3>2
        <4>2. QED
          BY <1>4, <4>1 DEF ToSet
      <3>3. CASE i > p
        <4>1. i - 1 \in 1..(Len(s) - 1) /\ r[i - 1] = x
          BY <1>1, <1>4, <3>1, <3>3
        <4>2. QED
          BY <1>4, <4>1 DEF ToSet
      <3>4. QED
        BY <1>1, <2>2, <3>1, <3>2, <3>3
    <2>3. QED
      BY <2>1, <2>2
  <1>7. IsInjective(r)
    BY <1>1, <1>4, <1>5, SMTT(30) DEF IsInjective
  <1>8. QED
    BY <1>4, <1>6, <1>7 DEF r

\* A node linked into the index.
LEMMA InsertLemma ==
  ASSUME NEW S, NEW s \in Seq(S), NEW p \in 1..(Len(s) + 1), NEW e \in S
  PROVE  /\ InsertAt(s, p, e) \in Seq(S)
         /\ Len(InsertAt(s, p, e)) = Len(s) + 1
         /\ \A i \in 1..(Len(s) + 1) :
              InsertAt(s, p, e)[i] = IF i < p THEN s[i] ELSE IF i = p THEN e ELSE s[i - 1]
  <1>1. DOMAIN s = 1..Len(s) /\ Len(s) \in Nat
    BY LenProperties
  <1>2. /\ SubSeq(s, 1, p - 1) \in Seq(S) /\ Len(SubSeq(s, 1, p - 1)) = p - 1
        /\ \A i \in 1..(p - 1) : SubSeq(s, 1, p - 1)[i] = s[i]
    BY <1>1, SubSeqProperties
  <1>3. /\ SubSeq(s, p, Len(s)) \in Seq(S) /\ Len(SubSeq(s, p, Len(s))) = Len(s) - p + 1
        /\ \A i \in 1..(Len(s) - p + 1) : SubSeq(s, p, Len(s))[i] = s[i + p - 1]
    BY <1>1, SubSeqProperties
  <1>4. <<e>> \in Seq(S) /\ Len(<<e>>) = 1 /\ <<e>>[1] = e
    OBVIOUS
  <1> DEFINE h == SubSeq(s, 1, p - 1) \o <<e>>
  <1>5. /\ h \in Seq(S) /\ Len(h) = p
        /\ \A i \in 1..p : h[i] = IF i < p THEN s[i] ELSE e
    BY <1>1, <1>2, <1>4, ConcatProperties
  <1> DEFINE t == SubSeq(s, p, Len(s))
  <1>6. InsertAt(s, p, e) = h \o t
    BY DEF InsertAt
  <1>7. t \in Seq(S) /\ Len(t) = Len(s) - p + 1 /\ \A i \in 1..Len(t) : t[i] = s[i + p - 1]
    BY <1>3
  <1> HIDE DEF h, t
  <1>8. /\ h \o t \in Seq(S) /\ Len(h \o t) = Len(s) + 1
        /\ \A i \in 1..(Len(s) + 1) : (h \o t)[i] = IF i <= p THEN h[i] ELSE t[i - p]
    <2>1. /\ h \o t \in Seq(S) /\ Len(h \o t) = Len(h) + Len(t)
          /\ \A i \in 1..(Len(h) + Len(t)) : (h \o t)[i] = IF i <= Len(h) THEN h[i] ELSE t[i - Len(h)]
      BY <1>5, <1>7, ConcatProperties
    <2>2. Len(h) = p /\ Len(h) + Len(t) = Len(s) + 1
      BY <1>1, <1>5, <1>7
    <2>3. QED
      BY <2>1, <2>2
  <1>9. ASSUME NEW i \in 1..(Len(s) + 1)
        PROVE  (h \o t)[i] = IF i < p THEN s[i] ELSE IF i = p THEN e ELSE s[i - 1]
    <2>1. CASE i <= p
      BY <1>5, <1>8, <2>1
    <2>2. CASE i > p
      <3>1. i - p \in 1..Len(t) /\ (i - p) + p - 1 = i - 1
        BY <1>1, <1>7, <2>2
      <3>2. t[i - p] = s[i - 1]
        BY <1>7, <3>1
      <3>3. QED
        BY <1>8, <2>2, <3>2
    <2>3. i <= p \/ i > p
      BY <1>1
    <2>4. QED
      BY <2>1, <2>2, <2>3
  <1>10. QED
    BY <1>6, <1>8, <1>9

-----------------------------------------------------------------------------
(* Buckets, sizes and the walk along the index. *)

Nodes == [key : Keys, st : {"live", "lost", "freed"}]

\* hash & ht_mask is the number of a bucket.
LEMMA BucketType ==
  ASSUME NEW k \in Keys, ht_size \in Nat \ {0}
  PROVE  Bucket(k) \in 0..(ht_size - 1)
  <1>1. Hash[k] \in Nat
    BY HashTableAssumption
  <1>2. \A a \in Nat, n \in Nat \ {0} : a % n \in 0..(n - 1)
    OBVIOUS
  <1>3. QED
    BY <1>1, <1>2 DEF Bucket

\* The integer division of check_resize tests for two elements to a bucket.
LEMMA ResizeTest ==
  ASSUME NEW n \in Nat, NEW h \in Nat \ {0}
  PROVE  n \div h >= 2 <=> n >= 2 * h
  <1>1. n \div h \in Nat /\ h * (n \div h) <= n /\ n < h * (n \div h) + h
    OBVIOUS
  <1>2. \A q \in Nat : q >= 2 => h * q >= 2 * h
    OBVIOUS
  <1>3. \A q \in Nat : q < 2 => h * q + h <= 2 * h
    OBVIOUS
  <1>4. QED
    BY <1>1, <1>2, <1>3

\* The size of a new table is a positive number.
LEMMA RoundUpType ==
  ASSUME NEW size \in Nat, size <= MaxSize
  PROVE  RoundUp(size) \in Nat \ {0}
  <1>1. size <= 128
    BY HashTableAssumption
  <1>2. \E n \in PowersOfTwo : n >= size /\ \A m \in PowersOfTwo : m >= size => n <= m
    BY <1>1 DEF PowersOfTwo
  <1>3. RoundUp(size) \in PowersOfTwo
    BY <1>2 DEF RoundUp
  <1>4. QED
    BY <1>3 DEF PowersOfTwo

\* Every set of natural numbers that is not empty has a least element.
LEMMA LeastElement ==
  ASSUME NEW T \in SUBSET Nat, T # {}
  PROVE  \E m \in T : \A n \in T : m <= n
  <1> DEFINE R == OpToRel(<, Nat)
  <1>1. PICK m \in T : \A n \in T : ~(<<n, m>> \in R)
    <2>1. IsWellFoundedOn(R, Nat)
      BY NatLessThanWellFounded
    <2> HIDE DEF R
    <2>2. QED
      BY <2>1, WFMin, Zenon
  <1>2. \A a, b \in Nat : <<a, b>> \in R <=> a < b
    BY DEF OpToRel
  <1> HIDE DEF R
  <1>3. ASSUME NEW n \in T PROVE m <= n
    <2>1. m \in Nat /\ n \in Nat /\ ~(n < m)
      BY <1>1, <1>2
    <2>2. QED
      BY <2>1
  <1>4. QED
    BY <1>3

\* The walk along an index that has a node stops at the first node behind which the
\* key belongs.
LEMMA WalkLemma ==
  ASSUME index \in Seq(Nodes), index # <<>>, NEW k \in Keys
  PROVE  LET p == WalkStop(k) IN
         /\ p \in 1..Len(index)
         /\ p = Len(index) \/ Hash[k] <= HashAt(p + 1)
         /\ \A q \in 1..(p - 1) : Hash[k] > HashAt(q + 1)
  <1>1. PICK n \in Nat \ {0} : n = Len(index) /\ DOMAIN index = 1..n
    BY LenProperties, EmptySeq
  <1>2. \A q \in 1..n : HashAt(q) \in Nat
    <2>1. ASSUME NEW q \in 1..n PROVE index[q].key \in Keys
      <3>1. index[q] \in Nodes
        BY <1>1, ElementOfSeq
      <3>2. QED
        BY <3>1 DEF Nodes
    <2>2. QED
      BY <2>1, HashTableAssumption DEF HashAt
  <1>3. Hash[k] \in Nat
    BY HashTableAssumption
  <1> DEFINE Stops == {p \in 1..n : p = n \/ Hash[k] <= HashAt(p + 1)}
  <1>4. PICK p \in Stops : \A q \in Stops : p <= q
    <2>1. Stops \in SUBSET Nat /\ n \in Stops
      OBVIOUS
    <2> HIDE DEF Stops
    <2>2. QED
      BY <2>1, LeastElement
  <1>5. p \in 1..n /\ (p = n \/ Hash[k] <= HashAt(p + 1))
    BY <1>4
  <1>6. ASSUME NEW q \in 1..(p - 1) PROVE Hash[k] > HashAt(q + 1)
    <2>1. q \in 1..n /\ q + 1 \in 1..n /\ q < p /\ q # n
      BY <1>5
    <2>2. q \notin Stops
      BY <1>4, <1>5, <2>1
    <2>3. ~(Hash[k] <= HashAt(q + 1))
      BY <2>1, <2>2
    <2>4. QED
      BY <1>2, <1>3, <2>1, <2>3
  <1>7. \E r \in DOMAIN index :
          /\ r = Len(index) \/ Hash[k] <= HashAt(r + 1)
          /\ \A q \in 1..(r - 1) : Hash[k] > HashAt(q + 1)
    BY <1>1, <1>5, <1>6
  <1>8. QED
    BY <1>1, <1>7 DEF WalkStop

\* A new node is linked in behind the last one with a smaller hash value.
LEMMA LinkLemma ==
  ASSUME index \in Seq(Nodes), index # <<>>, NEW k \in Keys
  PROVE  \E p \in 1..(Len(index) + 1) :
           /\ Link(k) = InsertAt(index, p, Node(k))
           /\ p > 1 => HashAt(p - 1) <= Hash[k]
           /\ p <= Len(index) => Hash[k] <= HashAt(p)
  <1>1. PICK n \in Nat \ {0} : n = Len(index) /\ DOMAIN index = 1..n
    BY LenProperties, EmptySeq
  <1>2. \A q \in 1..n : HashAt(q) \in Nat
    <2>1. ASSUME NEW q \in 1..n PROVE index[q].key \in Keys
      <3>1. index[q] \in Nodes
        BY <1>1, ElementOfSeq
      <3>2. QED
        BY <3>1 DEF Nodes
    <2>2. QED
      BY <2>1, HashTableAssumption DEF HashAt
  <1>3. Hash[k] \in Nat
    BY HashTableAssumption
  <1>4. CASE First(k)
    <2>1. Link(k) = InsertAt(index, 1, Node(k)) /\ Hash[k] <= HashAt(1)
      BY <1>1, <1>2, <1>3, <1>4 DEF Link, First
    <2>2. QED
      BY <1>1, <2>1
  <1>5. CASE ~First(k)
    <2>1. PICK w \in 1..n :
            /\ w = WalkStop(k)
            /\ w = n \/ Hash[k] <= HashAt(w + 1)
            /\ \A q \in 1..(w - 1) : Hash[k] > HashAt(q + 1)
      BY <1>1, WalkLemma
    <2>2. Link(k) = InsertAt(index, w + 1, Node(k))
      BY <1>5, <2>1 DEF Link
    <2>3. HashAt(w) <= Hash[k]
      <3>1. CASE w = 1
        BY <1>2, <1>3, <1>5, <3>1 DEF First
      <3>2. CASE w # 1
        <4>1. w - 1 \in 1..(w - 1) /\ (w - 1) + 1 = w
          BY <3>2
        <4>2. Hash[k] > HashAt(w)
          BY <2>1, <4>1
        <4>3. QED
          BY <1>2, <1>3, <4>2
      <3>3. QED
        BY <3>1, <3>2
    <2>4. w + 1 \in 1..(n + 1) /\ (w + 1) - 1 = w /\ (w + 1 <= n => Hash[k] <= HashAt(w + 1))
      BY <2>1
    <2>5. QED
      BY <1>1, <2>2, <2>3, <2>4
  <1>6. QED
    BY <1>4, <1>5

-----------------------------------------------------------------------------
(* The chains. *)

Inv == TypeOK /\ MoveInv /\ ChainsOK

\* A key is in the table exactly if the walk along its chain finds it.
LEMMA InChainLemma ==
  ASSUME TypeOK, ChainsOK, NEW k \in Keys
  PROVE  InChain(k) <=> k \in InTable
  <1>1. Bucket(k) \in DOMAIN chains
    BY BucketType DEF TypeOK
  <1>2. QED
    BY <1>1 DEF InChain, InTable, ChainsOK

\* What Append_ does to the chains, the counter and the index.
LEMMA AppendStep ==
  ASSUME TypeOK, MoveInv, ChainsOK, NEW k \in Keys, k \notin InTable, Append_(k)
  PROVE  /\ chains' \in [0..(ht_size - 1) -> Seq(Keys)]
         /\ \A b \in DOMAIN chains' : \A j \in ToSet(chains'[b]) : Bucket(j) = b
         /\ \A b \in DOMAIN chains' : IsInjective(chains'[b])
         /\ InTable' = InTable \cup {k}
         /\ element_num' \in 0..(NumMod - 1)
         /\ index' \in Seq(Nodes) /\ index' # <<>>
         /\ index_last' \in Keys \cup {Null}
         /\ ht_size' = ht_size /\ wild' = wild
  <1> DEFINE b0 == Bucket(k)
  <1>1. b0 \in 0..(ht_size - 1)
    BY BucketType DEF TypeOK
  <1>2. /\ chains \in [0..(ht_size - 1) -> Seq(Keys)]
        /\ chains' = [chains EXCEPT ![b0] = Append(@, k)]
        /\ chains[b0] \in Seq(Keys) /\ k \notin ToSet(chains[b0])
    BY <1>1 DEF Append_, TypeOK, InTable
  <1>3. /\ Append(chains[b0], k) \in Seq(Keys)
        /\ ToSet(Append(chains[b0], k)) = ToSet(chains[b0]) \cup {k}
        /\ IsInjective(Append(chains[b0], k))
    BY <1>1, <1>2, AppendLemma DEF ChainsOK
  <1>4. /\ chains' \in [0..(ht_size - 1) -> Seq(Keys)]
        /\ \A b \in 0..(ht_size - 1) :
             chains'[b] = IF b = b0 THEN Append(chains[b0], k) ELSE chains[b]
    BY <1>1, <1>2, <1>3
  <1>5. \A b \in DOMAIN chains' : \A j \in ToSet(chains'[b]) : Bucket(j) = b
    BY <1>2, <1>3, <1>4 DEF ChainsOK
  <1>6. \A b \in DOMAIN chains' : IsInjective(chains'[b])
    BY <1>2, <1>3, <1>4 DEF ChainsOK
  <1>7. InTable' = InTable \cup {k}
    BY <1>1, <1>2, <1>3, <1>4 DEF InTable
  <1>8. element_num' \in 0..(NumMod - 1)
    <2>1. element_num + 1 \in Nat /\ NumMod \in Nat \ {0}
      BY HashTableAssumption DEF TypeOK
    <2>2. QED
      BY <2>1 DEF Append_
  <1>9. index' \in Seq(Nodes) /\ index' # <<>> /\ index_last' \in Keys \cup {Null}
    <2>1. Node(k) \in Nodes
      BY DEF Node, Nodes
    <2>2. CASE element_num = 0
      <3>1. index' = <<Node(k)>> /\ index_last' = k
        BY <2>2 DEF Append_
      <3>2. \A x \in Nodes : <<x>> \in Seq(Nodes) /\ <<x>> # <<>>
        OBVIOUS
      <3>3. QED
        BY <2>1, <3>1, <3>2
    <2>3. CASE element_num # 0
      <3>1. index \in Seq(Nodes) /\ index # <<>>
        BY <2>3 DEF TypeOK, MoveInv, Nodes
      <3>2. PICK p \in 1..(Len(index) + 1) : Link(k) = InsertAt(index, p, Node(k))
        BY <3>1, LinkLemma
      <3>3. Link(k) \in Seq(Nodes) /\ Len(Link(k)) = Len(index) + 1
        BY <2>1, <3>1, <3>2, InsertLemma
      <3>4. Link(k) # <<>>
        BY <3>1, <3>3, LenProperties, EmptySeq
      <3>5. QED
        BY <2>3, <3>3, <3>4 DEF Append_, TypeOK
    <2>4. QED
      BY <2>2, <2>3
  <1>10. QED
    BY <1>4, <1>5, <1>6, <1>7, <1>8, <1>9 DEF Append_

\* What taking the first key from a bucket does to what a resize has yet to move.
LEMMA TakeStep ==
  ASSUME TypeOK, MoveInv, moved \in DOMAIN old, old[moved] # <<>>,
         old' = [old EXCEPT ![moved] = Tail(@)]
  PROVE  /\ Head(old[moved]) \in Keys /\ Head(old[moved]) \in InOld
         /\ InOld' = InOld \ {Head(old[moved])}
         /\ DOMAIN old' = DOMAIN old
         /\ \A b \in DOMAIN old : b # moved => old'[b] = old[b]
         /\ \A b \in DOMAIN old : old'[b] \in Seq(Keys) /\ IsInjective(old'[b])
         /\ \A b, c \in DOMAIN old : b # c => ToSet(old'[b]) \cap ToSet(old'[c]) = {}
  <1> DEFINE k == Head(old[moved])
  <1>1. old[moved] \in Seq(Keys) /\ IsInjective(old[moved])
    BY DEF TypeOK, MoveInv
  <1>2. /\ Tail(old[moved]) \in Seq(Keys) /\ k \in Keys /\ k \in ToSet(old[moved])
        /\ ToSet(Tail(old[moved])) = ToSet(old[moved]) \ {k}
        /\ IsInjective(Tail(old[moved]))
    BY <1>1, TailLemma
  <1>3. /\ DOMAIN old' = DOMAIN old
        /\ \A b \in DOMAIN old : old'[b] = IF b = moved THEN Tail(old[moved]) ELSE old[b]
    OBVIOUS
  <1>4. \A b \in DOMAIN old : b # moved => k \notin ToSet(old[b])
    BY <1>2 DEF MoveInv
  <1>5. \A b \in DOMAIN old : ToSet(old'[b]) = ToSet(old[b]) \ {k}
    BY <1>2, <1>3, <1>4
  <1>6. InOld' = InOld \ {k} /\ k \in InOld
    BY <1>2, <1>3, <1>5 DEF InOld
  <1>7. \A b \in DOMAIN old : old'[b] \in Seq(Keys) /\ IsInjective(old'[b])
    BY <1>2, <1>3 DEF TypeOK, MoveInv
  <1>8. \A b, c \in DOMAIN old : b # c => ToSet(old'[b]) \cap ToSet(old'[c]) = {}
    BY <1>5 DEF MoveInv
  <1>9. QED
    BY <1>2, <1>3, <1>6, <1>7, <1>8

\* A deletion changes the state of some nodes, and links none in or out.
LEMMA RelabelType ==
  ASSUME index \in Seq(Nodes), NEW F, NEW L, F \cap L = {}
  PROVE  /\ Relabel(F, L) \in Seq(Nodes)
         /\ DOMAIN Relabel(F, L) = DOMAIN index
         /\ \A p \in DOMAIN index :
              /\ Relabel(F, L)[p].key = index[p].key
              /\ Relabel(F, L)[p].st = IF index[p].st = "live" /\ index[p].key \in F THEN "freed"
                                      ELSE IF index[p].st = "live" /\ index[p].key \in L THEN "lost"
                                      ELSE index[p].st
         /\ index # <<>> => Relabel(F, L) # <<>>
  <1>1. PICK n \in Nat : n = Len(index) /\ DOMAIN index = 1..n
    BY LenProperties
  <1>2. \A p \in 1..n : index[p] \in Nodes
    BY <1>1, ElementOfSeq
  <1> DEFINE new(p) == CASE index[p].st = "live" /\ index[p].key \in F -> [index[p] EXCEPT !.st = "freed"]
                         [] index[p].st = "live" /\ index[p].key \in L -> [index[p] EXCEPT !.st = "lost"]
                         [] OTHER -> index[p]
  <1>3. ASSUME NEW p \in 1..n
        PROVE  /\ new(p) \in Nodes
               /\ new(p).key = index[p].key
               /\ new(p).st = IF index[p].st = "live" /\ index[p].key \in F THEN "freed"
                              ELSE IF index[p].st = "live" /\ index[p].key \in L THEN "lost"
                              ELSE index[p].st
    <2>1. CASE index[p].st = "live" /\ index[p].key \in F
      <3>1. new(p) = [index[p] EXCEPT !.st = "freed"]
        BY <2>1
      <3>2. QED
        BY <1>2, <2>1, <3>1 DEF Nodes
    <2>2. CASE index[p].st = "live" /\ index[p].key \notin F /\ index[p].key \in L
      <3>1. new(p) = [index[p] EXCEPT !.st = "lost"]
        BY <2>2
      <3>2. QED
        BY <1>2, <2>2, <3>1 DEF Nodes
    <2>3. CASE ~(index[p].st = "live" /\ index[p].key \in F \cup L)
      <3>1. new(p) = index[p]
        BY <2>3
      <3>2. QED
        BY <1>2, <2>3, <3>1
    <2>4. QED
      BY <2>1, <2>2, <2>3
  <1>4. Relabel(F, L) = [p \in 1..n |-> new(p)]
    BY <1>1 DEF Relabel
  <1> HIDE DEF new
  <1>5. Relabel(F, L) \in [1..n -> Nodes] /\ \A p \in 1..n : Relabel(F, L)[p] = new(p)
    BY <1>3, <1>4
  <1>6. Relabel(F, L) \in Seq(Nodes)
    BY <1>5, SeqDef
  <1>7. DOMAIN Relabel(F, L) = 1..n
    BY <1>5
  <1>8. index # <<>> => Relabel(F, L) # <<>>
    <2> SUFFICES ASSUME index # <<>> PROVE Relabel(F, L) # <<>>
      OBVIOUS
    <2>1. 1 \in DOMAIN Relabel(F, L)
      BY <1>1, <1>7, EmptySeq
    <2>2. QED
      BY <2>1
  <1>9. QED
    BY <1>1, <1>3, <1>5, <1>6, <1>7, <1>8

\* A deletion takes the keys D, all of the bucket of k, out of the table.
Unlinks(k, D) ==
  /\ chains' \in [0..(ht_size - 1) -> Seq(Keys)]
  /\ \A b \in DOMAIN chains' : \A j \in ToSet(chains'[b]) : Bucket(j) = b
  /\ \A b \in DOMAIN chains' : IsInjective(chains'[b])
  /\ val' \in [Keys -> Vals \cup {Null}]
  /\ \A j \in Keys : val'[j] = IF j \in D THEN Null ELSE val[j]
  /\ index' \in Seq(Nodes) /\ (index # <<>> => index' # <<>>)
  /\ \A j \in D : j \in InTable /\ Bucket(j) = Bucket(k)
  /\ InTable' = InTable \ D
  /\ DOMAIN index' = DOMAIN index
  /\ \A p \in DOMAIN index :
       /\ index'[p].key = index[p].key
       /\ index'[p].st = "live" <=> index[p].st = "live" /\ index[p].key \notin D

\* The keys D leave the chain of k, which becomes r, and their nodes are relabelled.
LEMMA UnlinkStep ==
  ASSUME TypeOK, MoveInv, ChainsOK, NEW k \in Keys,
         NEW D \in SUBSET ToSet(chains[Bucket(k)]),
         NEW r \in Seq(Keys), ToSet(r) = ToSet(chains[Bucket(k)]) \ D, IsInjective(r),
         NEW F, NEW L, F \cap L = {}, F \cup L = D,
         chains' = [chains EXCEPT ![Bucket(k)] = r],
         val' = [j \in Keys |-> IF j \in D THEN Null ELSE val[j]],
         index' = Relabel(F, L)
  PROVE  Unlinks(k, D)
  <1> DEFINE b0 == Bucket(k)
  <1>1. b0 \in 0..(ht_size - 1)
    BY BucketType DEF TypeOK
  <1>2. /\ chains \in [0..(ht_size - 1) -> Seq(Keys)]
        /\ val \in [Keys -> Vals \cup {Null}] /\ index \in Seq(Nodes)
    BY DEF TypeOK, Nodes
  <1>3. /\ chains' \in [0..(ht_size - 1) -> Seq(Keys)]
        /\ \A b \in 0..(ht_size - 1) : chains'[b] = IF b = b0 THEN r ELSE chains[b]
    BY <1>1, <1>2
  <1>4. \A b \in DOMAIN chains : \A j \in ToSet(chains[b]) : Bucket(j) = b
    BY DEF ChainsOK
  <1>5. \A b \in DOMAIN chains' : \A j \in ToSet(chains'[b]) : Bucket(j) = b
    BY <1>1, <1>2, <1>3, <1>4
  <1>6. \A b \in DOMAIN chains' : IsInjective(chains'[b])
    BY <1>2, <1>3 DEF ChainsOK
  <1>7. \A j \in D : j \in InTable /\ Bucket(j) = Bucket(k)
    BY <1>1, <1>2, <1>4 DEF InTable
  <1>8. \A b \in 0..(ht_size - 1) : ToSet(chains'[b]) = ToSet(chains[b]) \ D
    BY <1>2, <1>3, <1>4
  <1>9. InTable' = InTable \ D
    BY <1>2, <1>3, <1>8 DEF InTable
  <1>10. val' \in [Keys -> Vals \cup {Null}]
         /\ \A j \in Keys : val'[j] = IF j \in D THEN Null ELSE val[j]
    BY <1>2
  <1>11. /\ index' \in Seq(Nodes) /\ (index # <<>> => index' # <<>>)
         /\ DOMAIN index' = DOMAIN index
         /\ \A p \in DOMAIN index :
              /\ index'[p].key = index[p].key
              /\ index'[p].st = "live" <=> index[p].st = "live" /\ index[p].key \notin D
    <2>1. /\ Relabel(F, L) \in Seq(Nodes)
          /\ DOMAIN Relabel(F, L) = DOMAIN index
          /\ index # <<>> => Relabel(F, L) # <<>>
      BY <1>2, RelabelType
    <2>2. ASSUME NEW p \in DOMAIN index
          PROVE  /\ index'[p].key = index[p].key
                 /\ index'[p].st = "live" <=> index[p].st = "live" /\ index[p].key \notin D
      <3>1. /\ Relabel(F, L)[p].key = index[p].key
            /\ Relabel(F, L)[p].st = IF index[p].st = "live" /\ index[p].key \in F THEN "freed"
                                     ELSE IF index[p].st = "live" /\ index[p].key \in L THEN "lost"
                                     ELSE index[p].st
        BY <1>2, RelabelType
      <3>2. QED
        BY <3>1
    <2>3. QED
      BY <2>1, <2>2
  <1>12. QED
    BY <1>3, <1>5, <1>6, <1>7, <1>9, <1>10, <1>11 DEF Unlinks

\* Whichever way a deletion takes, it unlinks keys of one bucket.
LEMMA DeleteStep ==
  ASSUME TypeOK, MoveInv, ChainsOK, NEW k \in Keys,
         DeleteLast(k) \/ DeleteInner(k) \/ DeleteAbsent(k)
  PROVE  \E D \in SUBSET InTable : Unlinks(k, D)
  <1> DEFINE c == chains[Bucket(k)]
  <1>1. Bucket(k) \in 0..(ht_size - 1)
    BY BucketType DEF TypeOK
  <1>2. /\ chains \in [0..(ht_size - 1) -> Seq(Keys)] /\ c \in Seq(Keys) /\ IsInjective(c)
        /\ val \in [Keys -> Vals \cup {Null}] /\ index \in Seq(Nodes)
    BY <1>1 DEF TypeOK, ChainsOK, Nodes
  <1>3. PICK n \in Nat : n = Len(c) /\ DOMAIN c = 1..n
    BY <1>2, LenProperties
  <1>4. ToSet(c) \subseteq InTable /\ ToSet(c) \subseteq Keys
    <2>1. \A p \in 1..n : c[p] \in Keys
      BY <1>2, <1>3, ElementOfSeq
    <2>2. QED
      BY <1>1, <1>2, <1>3, <2>1 DEF InTable, ToSet
  <1>5. CASE DeleteLast(k)
    <2>1. c # <<>> /\ c[n] = k
      BY <1>3, <1>5 DEF DeleteLast
    <2>2. k \in ToSet(c)
      BY <1>2, <1>3, <2>1, EmptySeq DEF ToSet
    <2>3. <<>> \in Seq(Keys) /\ ToSet(<<>>) = ToSet(c) \ ToSet(c) /\ IsInjective(<<>>)
      BY DEF ToSet, IsInjective
    <2>4. /\ chains' = [chains EXCEPT ![Bucket(k)] = <<>>]
          /\ val' = [j \in Keys |-> IF j \in ToSet(c) THEN Null ELSE val[j]]
          /\ index' = Relabel({k}, ToSet(c) \ {k})
      BY <1>5 DEF DeleteLast
    <2>5. Unlinks(k, ToSet(c))
      <3>1. {k} \cap (ToSet(c) \ {k}) = {} /\ {k} \cup (ToSet(c) \ {k}) = ToSet(c)
        BY <2>2
      <3>2. QED
        BY <2>3, <2>4, <3>1, UnlinkStep
    <2>6. QED
      BY <1>4, <2>5
  <1>6. CASE DeleteInner(k)
    <2>1. PICK p \in DOMAIN c :
            /\ c[p] = k /\ p < Len(c)
            /\ chains' = [chains EXCEPT ![Bucket(k)] = RemoveAt(@, p + 1)]
            /\ val' = [val EXCEPT ![c[p + 1]] = Null]
            /\ index' = Relabel({}, {c[p + 1]})
      BY <1>6 DEF DeleteInner
    <2>2. p + 1 \in 1..n
      BY <1>3, <2>1
    <2>3. c[p + 1] \in ToSet(c)
      BY <1>3, <2>2 DEF ToSet
    <2>4. /\ RemoveAt(c, p + 1) \in Seq(Keys) /\ IsInjective(RemoveAt(c, p + 1))
          /\ ToSet(RemoveAt(c, p + 1)) = ToSet(c) \ {c[p + 1]}
      BY <1>2, <1>3, <2>2, RemoveLemma
    <2>5. chains' = [chains EXCEPT ![Bucket(k)] = RemoveAt(c, p + 1)]
      BY <2>1
    <2>6. val' = [j \in Keys |-> IF j \in {c[p + 1]} THEN Null ELSE val[j]]
      BY <1>2, <2>1
    <2>7. Unlinks(k, {c[p + 1]})
      <3> DEFINE D == {c[p + 1]}
                 r == RemoveAt(c, p + 1)
      <3>1. {} \cap D = {} /\ {} \cup D = D /\ D \in SUBSET ToSet(c)
        BY <2>3
      <3>2. /\ chains' = [chains EXCEPT ![Bucket(k)] = r]
            /\ val' = [j \in Keys |-> IF j \in D THEN Null ELSE val[j]]
            /\ index' = Relabel({}, D)
            /\ r \in Seq(Keys) /\ IsInjective(r) /\ ToSet(r) = ToSet(c) \ D
        BY <2>1, <2>4, <2>5, <2>6
      <3> HIDE DEF D, r
      <3>3. Unlinks(k, D)
        BY <3>1, <3>2, UnlinkStep
      <3>4. QED
        BY <3>3 DEF D
    <2>8. QED
      BY <1>4, <2>3, <2>7
  <1>7. CASE DeleteAbsent(k)
    <2>1. Unlinks(k, {})
      <3>1. chains' = chains /\ val' = val /\ index' = index
        BY <1>7 DEF DeleteAbsent
      <3>2. InTable' = InTable
        BY <3>1 DEF InTable
      <3>3. QED
        BY <1>2, <3>1, <3>2 DEF Unlinks, ChainsOK
    <2>2. QED
      BY <2>1
  <1>8. QED
    BY <1>5, <1>6, <1>7

\* The first state.
LEMMA InvInit == Init => Inv
  <1> SUFFICES ASSUME Init PROVE Inv
    OBVIOUS
  <1>1. ht_size \in Nat \ {0}
    <2>1. PICK size \in InitSizes : ht_size = IF size > MaxSize THEN 1 ELSE RoundUp(size)
      BY DEF Init
    <2>2. size \in Nat /\ MaxSize \in Nat
      BY HashTableAssumption
    <2>3. CASE size > MaxSize
      BY <2>1, <2>3
    <2>4. CASE ~(size > MaxSize)
      <3>1. size <= MaxSize
        BY <2>2, <2>4
      <3>2. QED
        BY <2>1, <2>2, <2>4, <3>1, RoundUpType
    <2>5. QED
      BY <2>3, <2>4
  <1>2. status \in {"null", "idle"}
    BY DEF Init
  <1>3. \A b \in 0..(ht_size - 1) : chains[b] = <<>>
    BY DEF Init
  <1>4. chains \in [0..(ht_size - 1) -> Seq(Keys)]
    BY <1>3 DEF Init
  <1>5. DOMAIN old = {} /\ old = NoChains
    BY DEF Init, NoChains
  <1>6. TypeOK
    <2>1. pending = NoInsert /\ moved \in 0..ht_size /\ wild = {}
      BY <1>1 DEF Init
    <2>2. val \in [Keys -> Vals \cup {Null}] /\ index_last \in Keys \cup {Null}
      BY DEF Init
    <2>3. element_num \in 0..(NumMod - 1)
      BY HashTableAssumption DEF Init
    <2>4. index \in Seq([key : Keys, st : {"live", "lost", "freed"}])
      BY DEF Init
    <2>5. QED
      BY <1>1, <1>2, <1>4, <1>5, <2>1, <2>2, <2>3, <2>4 DEF TypeOK
  <1>7. MoveInv
    <2>1. 0 \in 0..ht_size /\ DOMAIN old = 0..(0 - 1) /\ moved <= 0
      BY <1>1, <1>5 DEF Init
    <2>2. QED
      BY <1>2, <1>5, <2>1 DEF MoveInv, Init
  <1>8. InTable = {} /\ InOld = {}
    <2>1. \A b \in DOMAIN chains : ToSet(chains[b]) = {}
      BY <1>3, <1>4 DEF ToSet
    <2>2. QED
      BY <1>5, <2>1 DEF InTable, InOld
  <1>9. ChainsOK
    <2>1. \A b \in DOMAIN chains : chains[b] = <<>>
      BY <1>3, <1>4
    <2>2. \A b \in DOMAIN chains : ToSet(chains[b]) = {} /\ IsInjective(chains[b])
      BY <2>1 DEF ToSet, IsInjective
    <2>3. \A k \in Keys : val[k] = Null
      BY DEF Init
    <2>4. QED
      BY <1>8, <2>2, <2>3 DEF ChainsOK
  <1>10. QED
    BY <1>6, <1>7, <1>9 DEF Inv

\* A step that leaves the chains and what a resize has yet to move alone.
LEMMA ChainsKept ==
  ASSUME ChainsOK, UNCHANGED <<ht_size, chains, val, old>>
  PROVE  ChainsOK'
  BY DEF ChainsOK, InTable, InOld, Bucket

\* Every step keeps the types, the order in which a resize works and the chains.
LEMMA InvStep == Inv /\ [Next]_vars => Inv'
  <1> SUFFICES ASSUME TypeOK, MoveInv, ChainsOK, [Next]_vars PROVE Inv'
    BY DEF Inv
  <1>1. ASSUME Undefined PROVE Inv'
    <2>1. status' = "ub" /\ UNCHANGED <<table, pending, old, moved>>
      BY <1>1 DEF Undefined
    <2>2. QED
      BY <2>1, ChainsKept DEF Inv, TypeOK, MoveInv, table
  <1>2. ASSUME NEW op, Reply(op) PROVE Inv'
    <2>1. UNCHANGED <<status, table, pending, old, moved>>
      BY <1>2 DEF Reply
    <2>2. QED
      BY <2>1, ChainsKept DEF Inv, TypeOK, MoveInv, table
  <1>3. ASSUME NEW k \in Keys, NEW v \in Vals, Call(k, v) PROVE Inv'
    BY <1>3, ChainsKept DEF Call, Inv, TypeOK, MoveInv, table
  <1>4. ASSUME NEW k \in Keys, NEW v \in Vals, CallResize(k, v) PROVE Inv'
    <2>1. /\ status = "idle" /\ status' = "insert" /\ pending' = [key |-> k, value |-> v]
          /\ old' = chains /\ moved' = 0 /\ ht_size' = 2 * ht_size /\ element_num' = 0
          /\ chains' = [b \in 0..(2 * ht_size - 1) |-> <<>>]
          /\ wild' \subseteq 1..(2 * ht_size - 1)
          /\ UNCHANGED <<val, index, index_last>>
      BY <1>4 DEF CallResize
    <2>2. ht_size \in Nat \ {0} /\ ht_size' \in Nat \ {0} /\ ht_size <= ht_size'
      BY <2>1 DEF TypeOK
    <2>3. chains \in [0..(ht_size - 1) -> Seq(Keys)] /\ old' \in [0..(ht_size - 1) -> Seq(Keys)]
      BY <2>1 DEF TypeOK
    <2>4. TypeOK'
      <3>1. element_num' \in 0..(NumMod - 1)
        BY <2>1, HashTableAssumption
      <3>2. chains' \in [0..(ht_size' - 1) -> Seq(Keys)]
        BY <2>1
      <3>3. DOMAIN old' \subseteq 0..(ht_size' - 1) /\ \A b \in DOMAIN old' : old'[b] \in Seq(Keys)
        BY <2>1, <2>2, <2>3
      <3>4. moved' \in 0..ht_size' /\ wild' \subseteq 1..(ht_size' - 1)
        BY <2>1, <2>2
      <3>5. pending' \in [key : Keys, value : Vals] \cup {NoInsert} /\ status' = "insert"
        BY <2>1
      <3>6. QED
        BY <2>1, <2>2, <3>1, <3>2, <3>3, <3>4, <3>5 DEF TypeOK
    <2>5. \A b \in DOMAIN chains : IsInjective(chains[b]) /\ \A j \in ToSet(chains[b]) : Bucket(j) = b
      BY DEF ChainsOK
    <2>6. MoveInv'
      <3>1. ht_size \in 0..ht_size' /\ DOMAIN old' = 0..(ht_size - 1) /\ moved' <= ht_size
        BY <2>1, <2>2, <2>3
      <3>2. \A b \in DOMAIN old' : ~(b < moved')
        BY <2>1, <2>3
      <3>3. \A b, c \in DOMAIN old' : b # c => ToSet(old'[b]) \cap ToSet(old'[c]) = {}
        BY <2>1, <2>5
      <3>4. QED
        BY <2>1, <2>5, <3>1, <3>2, <3>3 DEF MoveInv
    <2>7. InTable' = {} /\ InOld = {} /\ InOld' = InTable
      <3>1. \A b \in DOMAIN chains' : ToSet(chains'[b]) = {}
        BY <2>1 DEF ToSet
      <3>2. DOMAIN old = {}
        BY <2>1 DEF MoveInv, NoChains
      <3>3. QED
        BY <2>1, <3>1, <3>2 DEF InTable, InOld
    <2>8. ChainsOK'
      <3>1. \A b \in DOMAIN chains' : ToSet(chains'[b]) = {} /\ IsInjective(chains'[b])
        BY <2>1 DEF ToSet, IsInjective
      <3>2. QED
        BY <2>1, <2>7, <3>1 DEF ChainsOK
    <2>9. QED
      BY <2>4, <2>6, <2>8 DEF Inv
  <1>5. CASE MoveElement
    <2> DEFINE k == Head(old[moved])
    <2>1. /\ status = "insert" /\ moved \in DOMAIN old /\ old[moved] # <<>>
          /\ Append_(k) /\ old' = [old EXCEPT ![moved] = Tail(@)]
          /\ UNCHANGED <<status, val, pending, moved>>
      BY <1>5 DEF MoveElement, Resizing
    <2>2. /\ k \in Keys /\ k \in InOld /\ InOld' = InOld \ {k} /\ DOMAIN old' = DOMAIN old
          /\ \A b \in DOMAIN old : b # moved => old'[b] = old[b]
          /\ \A b \in DOMAIN old : old'[b] \in Seq(Keys) /\ IsInjective(old'[b])
          /\ \A b, c \in DOMAIN old : b # c => ToSet(old'[b]) \cap ToSet(old'[c]) = {}
      BY <2>1, TakeStep
    <2>3. k \notin InTable
      BY <2>2 DEF ChainsOK
    <2> HIDE DEF k
    <2>4. /\ chains' \in [0..(ht_size - 1) -> Seq(Keys)]
          /\ \A b \in DOMAIN chains' : \A j \in ToSet(chains'[b]) : Bucket(j) = b
          /\ \A b \in DOMAIN chains' : IsInjective(chains'[b])
          /\ InTable' = InTable \cup {k}
          /\ element_num' \in 0..(NumMod - 1)
          /\ index' \in Seq(Nodes) /\ index' # <<>>
          /\ index_last' \in Keys \cup {Null}
          /\ ht_size' = ht_size /\ wild' = wild
      BY <2>1, <2>2, <2>3, AppendStep
    <2>5. TypeOK'
      BY <2>1, <2>2, <2>4 DEF TypeOK, Nodes
    <2>6. MoveInv'
      BY <2>1, <2>2, <2>4 DEF MoveInv, TypeOK
    <2>7. ChainsOK'
      <3>1. InTable' \cup InOld' = InTable \cup InOld /\ InTable' \cap InOld' = {}
        BY <2>2, <2>4 DEF ChainsOK
      <3>2. \A b \in DOMAIN chains' : \A j \in ToSet(chains'[b]) : Bucket(j)' = b
        BY <2>4 DEF Bucket
      <3>3. QED
        BY <2>1, <2>4, <3>1, <3>2 DEF ChainsOK
    <2>8. QED
      BY <2>5, <2>6, <2>7 DEF Inv
  <1>6. CASE MoveNextBucket
    <2>1. /\ status = "insert" /\ moved \in DOMAIN old /\ old[moved] = <<>>
          /\ moved' = moved + 1 /\ UNCHANGED <<status, table, pending, old>>
      BY <1>6 DEF MoveNextBucket, Resizing
    <2>2. PICK n \in 0..ht_size : DOMAIN old = 0..(n - 1) /\ moved <= n
      BY DEF MoveInv
    <2>3. moved' <= n /\ moved' \in 0..ht_size
      BY <2>1, <2>2 DEF TypeOK
    <2>4. \A b \in DOMAIN old : b < moved' => b < moved \/ b = moved
      BY <2>1, <2>2 DEF TypeOK
    <2>5. TypeOK'
      BY <2>1, <2>3 DEF TypeOK, table
    <2>6. MoveInv'
      BY <2>1, <2>2, <2>3, <2>4 DEF MoveInv, table
    <2>7. QED
      BY <2>1, <2>5, <2>6, ChainsKept DEF Inv, table
  <1>7. ASSUME NEW op, Inserting, Return(op)
        PROVE  /\ InOld = {} /\ InOld' = {} /\ old' = NoChains /\ DOMAIN old' = {}
               /\ status' = "idle" /\ pending' = NoInsert /\ moved' = 0
               /\ pending.key \in Keys /\ pending.value \in Vals
    <2>1. PICK n \in 0..ht_size : DOMAIN old = 0..(n - 1) /\ moved <= n
      BY DEF MoveInv
    <2>2. moved \notin 0..(n - 1)
      BY <1>7, <2>1 DEF Inserting
    <2>3. \A b \in DOMAIN old : b < moved
      BY <2>1, <2>2 DEF TypeOK
    <2>4. \A b \in DOMAIN old : ToSet(old[b]) = {}
      BY <2>3 DEF MoveInv, ToSet
    <2>5. InOld = {}
      BY <2>4 DEF InOld
    <2>6. /\ old' = NoChains /\ status' = "idle" /\ pending' = NoInsert /\ moved' = 0
      BY <1>7 DEF Return
    <2>7. DOMAIN old' = {} /\ InOld' = {}
      BY <2>6 DEF NoChains, InOld
    <2>8. pending.key \in Keys /\ pending.value \in Vals
      BY <1>7 DEF Inserting, MoveInv
    <2>9. QED
      BY <2>5, <2>6, <2>7, <2>8
  <1>8. CASE Overwrite
    <2> DEFINE k == pending.key
    <2>1. /\ Inserting /\ InChain(k) /\ Return([op |-> "put"])
          /\ val' = [val EXCEPT ![k] = pending.value]
          /\ UNCHANGED <<ht_size, chains, wild, element_num, index, index_last>>
      BY <1>8 DEF Overwrite
    <2>2. /\ InOld = {} /\ InOld' = {} /\ old' = NoChains /\ DOMAIN old' = {}
          /\ status' = "idle" /\ pending' = NoInsert /\ moved' = 0
          /\ k \in Keys /\ pending.value \in Vals
      BY <1>7, <2>1
    <2>3. k \in InTable
      BY <2>1, <2>2, InChainLemma
    <2>4. TypeOK'
      BY <2>1, <2>2 DEF TypeOK
    <2>5. MoveInv'
      <3>1. 0 \in 0..ht_size /\ DOMAIN old' = 0..(0 - 1) /\ moved' <= 0
        BY <2>2 DEF TypeOK
      <3>2. element_num' # 0 => index' # <<>>
        BY <2>1 DEF MoveInv
      <3>3. QED
        BY <2>1, <2>2, <3>1, <3>2 DEF MoveInv
    <2>6. InTable' = InTable
      BY <2>1 DEF InTable
    <2>7. \A j \in Keys : val'[j] # Null <=> val[j] # Null
      <3>1. val \in [Keys -> Vals \cup {Null}] /\ val[k] # Null /\ pending.value # Null
        BY <2>2, <2>3, HashTableAssumption DEF TypeOK, ChainsOK
      <3>2. QED
        BY <2>1, <2>2, <3>1
    <2>8. ChainsOK'
      BY <2>1, <2>2, <2>6, <2>7 DEF ChainsOK, Bucket
    <2>9. QED
      BY <2>4, <2>5, <2>8 DEF Inv
  <1>9. CASE InsertNew
    <2> DEFINE k == pending.key
    <2>1. /\ Inserting /\ ~InChain(k) /\ Return([op |-> "put"])
          /\ val' = [val EXCEPT ![k] = pending.value]
          /\ Append_(k)
      BY <1>9 DEF InsertNew
    <2>2. /\ InOld = {} /\ InOld' = {} /\ old' = NoChains /\ DOMAIN old' = {}
          /\ status' = "idle" /\ pending' = NoInsert /\ moved' = 0
          /\ k \in Keys /\ pending.value \in Vals
      BY <1>7, <2>1
    <2>3. k \notin InTable
      BY <2>1, <2>2, InChainLemma
    <2>4. /\ chains' \in [0..(ht_size - 1) -> Seq(Keys)]
          /\ \A b \in DOMAIN chains' : \A j \in ToSet(chains'[b]) : Bucket(j) = b
          /\ \A b \in DOMAIN chains' : IsInjective(chains'[b])
          /\ InTable' = InTable \cup {k}
          /\ element_num' \in 0..(NumMod - 1)
          /\ index' \in Seq(Nodes) /\ index' # <<>>
          /\ index_last' \in Keys \cup {Null}
          /\ ht_size' = ht_size /\ wild' = wild
      BY <2>1, <2>2, <2>3, AppendStep
    <2>5. val' \in [Keys -> Vals \cup {Null}] /\ \A j \in Keys : val'[j] = IF j = k THEN pending.value ELSE val[j]
      BY <2>1, <2>2 DEF TypeOK
    <2>6. TypeOK'
      BY <2>2, <2>4, <2>5 DEF TypeOK, Nodes
    <2>7. MoveInv'
      <3>1. 0 \in 0..ht_size /\ DOMAIN old' = 0..(0 - 1) /\ moved' <= 0
        BY <2>2 DEF TypeOK
      <3>2. QED
        BY <2>2, <2>4, <3>1 DEF MoveInv
    <2>8. ChainsOK'
      <3>1. \A j \in Keys : val'[j] # Null <=> j \in InTable' \cup InOld'
        BY <2>2, <2>4, <2>5, HashTableAssumption DEF ChainsOK
      <3>2. \A b \in DOMAIN chains' : \A j \in ToSet(chains'[b]) : Bucket(j)' = b
        BY <2>4 DEF Bucket
      <3>3. QED
        BY <2>2, <2>4, <3>1, <3>2 DEF ChainsOK
    <2>9. QED
      BY <2>6, <2>7, <2>8 DEF Inv
  <1>10. ASSUME NEW k \in Keys, delete(k) PROVE Inv'
    <2>1. CASE Undefined
      BY <1>1, <2>1
    <2>2. CASE /\ DeleteLast(k) \/ DeleteInner(k) \/ DeleteAbsent(k)
               /\ UNCHANGED <<status, ht_size, wild, element_num, index_last, pending, old, moved>>
      <3>1. PICK D \in SUBSET InTable : Unlinks(k, D)
        BY <2>2, DeleteStep
      <3>2. InOld = {} /\ InOld' = {}
        <4>1. status = "idle"
          BY <1>10 DEF delete
        <4>2. DOMAIN old = {} /\ old' = old
          BY <2>2, <4>1 DEF MoveInv, NoChains
        <4>3. QED
          BY <4>2 DEF InOld
      <3>3. TypeOK'
        BY <2>2, <3>1 DEF TypeOK, Unlinks, Nodes
      <3>4. MoveInv'
        BY <2>2, <3>1 DEF MoveInv, Unlinks
      <3>5. ChainsOK'
        <4>1. \A j \in Keys : val'[j] # Null <=> j \in InTable' \cup InOld'
          BY <3>1, <3>2 DEF ChainsOK, Unlinks
        <4>2. \A b \in DOMAIN chains' : \A j \in ToSet(chains'[b]) : Bucket(j)' = b
          BY <2>2, <3>1 DEF Bucket, Unlinks
        <4>3. QED
          BY <3>1, <3>2, <4>1, <4>2 DEF ChainsOK, Unlinks
      <3>6. QED
        BY <3>3, <3>4, <3>5 DEF Inv
    <2>3. QED
      BY <1>10, <2>1, <2>2 DEF delete
  <1>11. CASE get_all_by_index_sort
    <2>1. CASE status' = "exited" /\ UNCHANGED <<table, pending, old, moved>>
      BY <2>1, ChainsKept DEF Inv, TypeOK, MoveInv, table
    <2>2. QED
      BY <1>1, <1>2, <1>11, <2>1 DEF get_all_by_index_sort
  <1>12. CASE hgetall \/ \E k \in Keys : get_value(k)
    BY <1>1, <1>2, <1>12 DEF hgetall, get_value
  <1>13. CASE UNCHANGED vars
    BY <1>13, ChainsKept DEF Inv, TypeOK, MoveInv, vars, table
  <1>14. QED
    BY <1>1, <1>3, <1>4, <1>5, <1>6, <1>8, <1>9, <1>10, <1>11, <1>12, <1>13
       DEF Next, Insert, CallResizeWild, MoveIntoWild, InsertUndefined, Stopped

-----------------------------------------------------------------------------
\* For every set of keys, every hash function and every way in which the counter
\* wraps around, in every execution: the variables have their types.
THEOREM TableTypeCorrect == Spec => []TypeOK
  <1>1. Inv => TypeOK
    BY DEF Inv
  <1>2. QED
    BY <1>1, InvInit, InvStep, PTL DEF Spec

\* Just as generally, an element is in the chain of its own bucket, once, and nowhere
\* else, also while a resize moves the elements (map.c:31-95, 207).
THEOREM ChainsHold == Spec => []ChainsOK
  <1>1. Inv => ChainsOK
    BY DEF Inv
  <1>2. QED
    BY <1>1, InvInit, InvStep, PTL DEF Spec

\* What the table holds are keys.
LEMMA HeldKeys == TypeOK => Held \subseteq Keys
  <1> SUFFICES ASSUME TypeOK PROVE Held \subseteq Keys
    OBVIOUS
  <1>1. \A s \in Seq(Keys) : ToSet(s) \subseteq Keys
    <2> SUFFICES ASSUME NEW s \in Seq(Keys), NEW i \in DOMAIN s PROVE s[i] \in Keys
      BY DEF ToSet
    <2>1. QED
      BY LenProperties, ElementOfSeq
  <1>2. \A b \in DOMAIN chains : chains[b] \in Seq(Keys)
    BY DEF TypeOK
  <1>3. \A b \in DOMAIN old : old[b] \in Seq(Keys)
    BY DEF TypeOK
  <1>4. QED
    BY <1>1, <1>2, <1>3 DEF Held, InTable, InOld

\* Only a deletion takes a value away, and only in the bucket of its key.
LEMMA LostStep ==
  ASSUME Inv, Inv', [Next]_vars, NEW k \in Held \ Held'
  PROVE  \E d \in Keys : Bucket(d) = Bucket(k) /\ delete(d)
  <1>1. k \in Keys /\ val[k] # Null /\ val'[k] = Null
    BY HeldKeys DEF Inv, ChainsOK, Held
  <1>2. ASSUME Inserting, val' = [val EXCEPT ![pending.key] = pending.value] PROVE FALSE
    <2>1. pending.value # Null
      BY <1>2, HashTableAssumption DEF Inserting, Inv, MoveInv
    <2>2. val'[k] = val[k] \/ val'[k] = pending.value
      BY <1>1, <1>2 DEF Inv, TypeOK
    <2>3. QED
      BY <1>1, <2>1, <2>2
  <1>3. PICK d \in Keys : delete(d)
    <2>1. ~Overwrite
      BY <1>2 DEF Overwrite
    <2>2. ~InsertNew
      BY <1>2 DEF InsertNew
    <2>3. val' # val
      BY <1>1
    <2>4. \A op : ~Reply(op)
      BY <2>3 DEF Reply, table
    <2>5. ~Undefined /\ ~UNCHANGED vars
      BY <2>3 DEF Undefined, vars, table
    <2>6. ~MoveElement /\ ~MoveNextBucket
      BY <2>3 DEF MoveElement, MoveNextBucket, table
    <2>7. \A j \in Keys, v \in Vals : ~Call(j, v) /\ ~CallResize(j, v)
      BY <2>3 DEF Call, CallResize, table
    <2>8. ~Insert
      BY <2>1, <2>2, <2>5, <2>6, <2>7 DEF Insert, CallResizeWild, MoveIntoWild, InsertUndefined
    <2>9. ~get_all_by_index_sort
      BY <2>3, <2>4, <2>5 DEF get_all_by_index_sort, table
    <2>10. ~hgetall /\ ~Stopped /\ \A j \in Keys : ~get_value(j)
      BY <2>4, <2>5 DEF hgetall, Stopped, get_value
    <2>11. QED
      BY <2>5, <2>8, <2>9, <2>10 DEF Next
  <1>4. DeleteLast(d) \/ DeleteInner(d) \/ DeleteAbsent(d)
    BY <1>1, <1>3 DEF delete, Undefined, table
  <1>5. PICK D \in SUBSET InTable : Unlinks(d, D)
    BY <1>4, DeleteStep DEF Inv
  <1>6. k \in D
    BY <1>1, <1>5 DEF Unlinks
  <1>7. QED
    BY <1>3, <1>5, <1>6 DEF Unlinks

\* An element that the table or a resize holds stays there until a deletion, and a
\* deletion reaches no further than the chain of the key it is given: above all, a
\* resize loses none, whatever the hash values and wherever the counter wraps.
THEOREM OnlyDeleteLoses == Spec => LostOnlyByDelete
  <1>1. Inv /\ Inv' /\ [Next]_vars =>
          [\A k \in Held \ Held' : \E d \in Keys : Bucket(d) = Bucket(k) /\ delete(d)]_vars
    BY LostStep
  <1>2. QED
    BY <1>1, InvInit, InvStep, PTL DEF Spec, LostOnlyByDelete

-----------------------------------------------------------------------------
(* The counter. *)

\* An insertion in progress, when the resize has nothing left to move.
LEMMA NothingLeft == Inv /\ Inserting => InOld = {}
  <1> SUFFICES ASSUME Inv, Inserting PROVE InOld = {}
    OBVIOUS
  <1>1. PICK n \in 0..ht_size : DOMAIN old = 0..(n - 1) /\ moved <= n
    BY DEF Inv, MoveInv
  <1>2. \A b \in DOMAIN old : b < moved
    BY <1>1 DEF Inserting, Inv, TypeOK
  <1>3. \A b \in DOMAIN old : ToSet(old[b]) = {}
    BY <1>2 DEF Inv, MoveInv, ToSet
  <1>4. QED
    BY <1>3 DEF InOld

\* Between operations nothing is being moved.
LEMMA IdleEmpty == Inv /\ status = "idle" => InOld = {} /\ old = NoChains
  BY DEF Inv, MoveInv, NoChains, InOld

\* A counter that is below the modulus counts on.
LEMMA CountsOn ==
  ASSUME TypeOK, NEW k \in Keys, Append_(k), element_num + 1 < NumMod
  PROVE  element_num' = element_num + 1
  <1>1. \A a, m \in Nat : a + 1 < m => (a + 1) % m = a + 1
    OBVIOUS
  <1>2. element_num \in Nat /\ NumMod \in Nat
    BY HashTableAssumption DEF TypeOK
  <1>3. QED
    BY <1>1, <1>2 DEF Append_

\* A step that leaves the sets of elements and the counter alone.
LEMMA CountKept ==
  ASSUME CountInv, UNCHANGED <<ht_size, chains, old, element_num>>,
         status' # "insert" \/ status' = status
  PROVE  CountInv'
  BY DEF CountInv, InTable, InOld, check_resize

\* An empty table is small enough for the counter.
LEMMA CountInit == NoWrap /\ Init => CountInv
  <1> SUFFICES ASSUME NoWrap, Init PROVE CountInv
    OBVIOUS
  <1>1. Inv
    BY InvInit
  <1>2. 2 * ht_size < NumMod
    <2>1. PICK size \in InitSizes : ht_size = IF size > MaxSize THEN 1 ELSE RoundUp(size)
      BY DEF Init
    <2>2. size \in Nat /\ MaxSize \in Nat
      BY HashTableAssumption
    <2>3. QED
      BY <2>1, <2>2 DEF NoWrap
  <1>3. InTable = {} /\ InOld = {}
    <2>1. \A b \in DOMAIN chains : ToSet(chains[b]) = {}
      BY DEF Init, ToSet
    <2>2. DOMAIN old = {}
      BY DEF Init, NoChains
    <2>3. QED
      BY <2>1, <2>2 DEF InTable, InOld
  <1>4. IsFiniteSet({}) /\ Cardinality({}) = 0
    BY FS_EmptySet
  <1>5. QED
    BY <1>1, <1>2, <1>3, <1>4 DEF CountInv, Init, Inv, TypeOK

\* Every step keeps the counter between the number of the elements and the load, and
\* what a resize has yet to move within the size of the new table.
LEMMA CountStep ==
  ASSUME NoWrap, Inv, CountInv, [Next]_vars
  PROVE  CountInv'
  <1>1. /\ ht_size \in Nat \ {0} /\ element_num \in Nat /\ NumMod \in Nat /\ MaxBuckets \in Nat
        /\ IsFiniteSet(InTable) /\ Cardinality(InTable) \in Nat
        /\ IsFiniteSet(InOld) /\ Cardinality(InOld) \in Nat
        /\ 2 * ht_size < NumMod /\ Cardinality(InTable) <= element_num /\ element_num <= 2 * ht_size
    BY HashTableAssumption, FS_CardinalityType DEF Inv, TypeOK, CountInv
  <1>2. ASSUME Undefined PROVE CountInv'
    BY <1>2, CountKept DEF Undefined, table
  <1>3. ASSUME NEW op, Reply(op) PROVE CountInv'
    BY <1>3, CountKept DEF Reply, table
  <1>4. ASSUME NEW k \in Keys, NEW v \in Vals, Call(k, v) PROVE CountInv'
    BY <1>4 DEF Call, table, CountInv, InTable, InOld, check_resize
  <1>5. ASSUME NEW k \in Keys, NEW v \in Vals, CallResize(k, v) PROVE CountInv'
    <2>1. /\ status = "idle" /\ old' = chains /\ ht_size' = 2 * ht_size /\ element_num' = 0
          /\ chains' = [b \in 0..(2 * ht_size - 1) |-> <<>>] /\ 2 * ht_size <= MaxBuckets
      BY <1>5 DEF CallResize
    <2>2. InTable' = {} /\ InOld' = InTable
      <3>1. \A b \in DOMAIN chains' : ToSet(chains'[b]) = {}
        BY <2>1 DEF ToSet
      <3>2. QED
        BY <2>1, <3>1 DEF InTable, InOld
    <2>3. old' # NoChains
      <3>1. 0 \in DOMAIN old'
        BY <1>1, <2>1 DEF Inv, TypeOK
      <3>2. QED
        BY <3>1 DEF NoChains
    <2>4. IsFiniteSet({}) /\ Cardinality({}) = 0
      BY FS_EmptySet
    <2>5. 2 * ht_size' < NumMod
      BY <1>1, <2>1 DEF NoWrap
    <2>6. element_num' + Cardinality(InOld)' <= ht_size' /\ element_num' <= 2 * ht_size'
      BY <1>1, <2>1, <2>2
    <2>7. QED
      BY <1>1, <2>1, <2>2, <2>3, <2>4, <2>5, <2>6 DEF CountInv
  <1>6. CASE MoveElement
    <2> DEFINE k == Head(old[moved])
    <2>1. /\ moved \in DOMAIN old /\ old[moved] # <<>> /\ Append_(k)
          /\ old' = [old EXCEPT ![moved] = Tail(@)]
      BY <1>6 DEF MoveElement, Resizing
    <2>2. k \in Keys /\ k \in InOld /\ InOld' = InOld \ {k} /\ DOMAIN old' = DOMAIN old
      BY <2>1, TakeStep DEF Inv
    <2>3. k \notin InTable
      BY <2>2 DEF Inv, ChainsOK
    <2> HIDE DEF k
    <2>4. InTable' = InTable \cup {k} /\ ht_size' = ht_size
      BY <2>1, <2>2, <2>3, AppendStep DEF Inv
    <2>5. /\ IsFiniteSet(InTable') /\ Cardinality(InTable') = Cardinality(InTable) + 1
          /\ IsFiniteSet(InOld') /\ Cardinality(InOld') = Cardinality(InOld) - 1
      BY <1>1, <2>2, <2>3, <2>4, FS_AddElement, FS_RemoveElement
    <2>6. Cardinality(InOld') \in Nat
      BY <2>5, FS_CardinalityType
    <2>7. old # NoChains /\ old' # NoChains
      BY <2>1, <2>2 DEF NoChains
    <2>8. element_num + Cardinality(InOld) <= ht_size
      BY <2>7 DEF CountInv
    <2>9. element_num' = element_num + 1
      <3>1. element_num + 1 < NumMod
        BY <1>1, <2>5, <2>6, <2>8
      <3>2. QED
        BY <2>1, <2>2, <3>1, CountsOn DEF Inv
    <2>10. element_num' + Cardinality(InOld') <= ht_size'
      BY <1>1, <2>4, <2>5, <2>8, <2>9
    <2>11. Cardinality(InTable') <= element_num' /\ element_num' <= 2 * ht_size'
      BY <1>1, <2>4, <2>5, <2>6, <2>9, <2>10
    <2>12. QED
      BY <1>1, <2>4, <2>5, <2>7, <2>10, <2>11 DEF CountInv
  <1>7. CASE MoveNextBucket
    BY <1>7, CountKept DEF MoveNextBucket, table
  <1>8. CASE Overwrite
    <2>1. /\ UNCHANGED <<ht_size, chains, element_num>> /\ Inserting
          /\ status' = "idle" /\ old' = NoChains
      BY <1>8 DEF Overwrite, Return
    <2>2. InTable' = InTable /\ InOld' = {} /\ InOld = {}
      BY <2>1, NothingLeft DEF InTable, InOld, NoChains
    <2>3. QED
      BY <1>1, <2>1, <2>2 DEF CountInv
  <1>9. CASE InsertNew
    <2> DEFINE k == pending.key
    <2>1. /\ Inserting /\ ~InChain(k) /\ Append_(k) /\ status' = "idle" /\ old' = NoChains
      BY <1>9 DEF InsertNew, Return
    <2>2. k \in Keys
      BY <2>1 DEF Inserting, Inv, MoveInv
    <2>3. k \notin InTable
      BY <2>1, <2>2, InChainLemma DEF Inv
    <2> HIDE DEF k
    <2>4. InTable' = InTable \cup {k} /\ ht_size' = ht_size
      BY <2>1, <2>2, <2>3, AppendStep DEF Inv
    <2>5. IsFiniteSet(InTable') /\ Cardinality(InTable') = Cardinality(InTable) + 1
      BY <1>1, <2>3, <2>4, FS_AddElement
    <2>6. element_num + 1 <= 2 * ht_size
      <3>1. CASE old = NoChains
        <4>1. ~(element_num \div ht_size >= 2)
          BY <2>1, <3>1 DEF CountInv, check_resize, Inserting
        <4>2. ~(element_num >= 2 * ht_size)
          BY <1>1, <4>1, ResizeTest
        <4>3. QED
          BY <1>1, <4>2
      <3>2. CASE old # NoChains
        BY <1>1, <3>2 DEF CountInv
      <3>3. QED
        BY <3>1, <3>2
    <2>7. element_num' = element_num + 1
      <3>1. element_num + 1 < NumMod
        BY <1>1, <2>6
      <3>2. QED
        BY <2>1, <2>2, <3>1, CountsOn DEF Inv
    <2>8. InOld' = {} /\ IsFiniteSet({})
      BY <2>1, FS_EmptySet DEF InOld, NoChains
    <2>9. Cardinality(InTable') <= element_num' /\ element_num' <= 2 * ht_size'
      BY <1>1, <2>4, <2>5, <2>6, <2>7
    <2>10. QED
      BY <1>1, <2>1, <2>4, <2>5, <2>8, <2>9 DEF CountInv
  <1>10. ASSUME NEW k \in Keys, delete(k) PROVE CountInv'
    <2>1. CASE Undefined
      BY <1>2, <2>1
    <2>2. CASE /\ DeleteLast(k) \/ DeleteInner(k) \/ DeleteAbsent(k)
               /\ UNCHANGED <<status, ht_size, wild, element_num, index_last, pending, old, moved>>
      <3>1. PICK D \in SUBSET InTable : Unlinks(k, D)
        BY <2>2, DeleteStep DEF Inv
      <3>2. InTable' = InTable \ D /\ InTable' \in SUBSET InTable
        BY <3>1 DEF Unlinks
      <3>3. IsFiniteSet(InTable') /\ Cardinality(InTable') <= Cardinality(InTable) /\ Cardinality(InTable') \in Nat
        BY <1>1, <3>2, FS_Subset, FS_CardinalityType
      <3>4. Cardinality(InTable') <= element_num'
        BY <1>1, <2>2, <3>3
      <3>5. InOld' = InOld
        BY <2>2 DEF InOld
      <3>6. status' = "idle"
        BY <1>10, <2>2 DEF delete
      <3>7. QED
        BY <1>1, <2>2, <3>3, <3>4, <3>5, <3>6 DEF CountInv
    <2>3. QED
      BY <1>10, <2>1, <2>2 DEF delete
  <1>11. CASE get_all_by_index_sort
    <2>1. CASE status' = "exited" /\ UNCHANGED <<table, pending, old, moved>>
      BY <2>1, CountKept DEF table
    <2>2. QED
      BY <1>2, <1>3, <1>11, <2>1 DEF get_all_by_index_sort
  <1>12. CASE hgetall \/ \E k \in Keys : get_value(k)
    BY <1>2, <1>3, <1>12 DEF hgetall, get_value
  <1>13. CASE UNCHANGED vars
    BY <1>13, CountKept DEF vars, table
  <1>14. QED
    BY <1>2, <1>4, <1>5, <1>6, <1>7, <1>8, <1>9, <1>10, <1>11, <1>12, <1>13
       DEF Next, Insert, CallResizeWild, MoveIntoWild, InsertUndefined, Stopped

-----------------------------------------------------------------------------
(* The index. *)

Sorted == \A p, q \in DOMAIN index : p <= q => HashAt(p) <= HashAt(q)
LiveKeys == {index[p].key : p \in Live}
LiveOnce == \A p, q \in Live : index[p].key = index[q].key => p = q

\* A node linked into a sorted index leaves it sorted, with one live key more.
LEMMA LinkStep ==
  ASSUME index \in Seq(Nodes), Sorted, LiveOnce, NEW k \in Keys, k \notin LiveKeys,
         NEW p \in 1..(Len(index) + 1), index' = InsertAt(index, p, Node(k)),
         p > 1 => HashAt(p - 1) <= Hash[k],
         p <= Len(index) => Hash[k] <= HashAt(p)
  PROVE  Sorted' /\ LiveOnce' /\ LiveKeys' = LiveKeys \cup {k}
  <1>1. PICK n \in Nat : n = Len(index) /\ DOMAIN index = 1..n
    BY LenProperties
  <1>2. Node(k) \in Nodes /\ Node(k).key = k /\ Node(k).st = "live"
    BY DEF Node, Nodes
  <1>3. /\ p \in 1..(n + 1) /\ DOMAIN index' = 1..(n + 1)
        /\ \A i \in 1..(n + 1) :
             index'[i] = IF i < p THEN index[i] ELSE IF i = p THEN Node(k) ELSE index[i - 1]
    <2>1. /\ index' \in Seq(Nodes) /\ Len(index') = n + 1
          /\ \A i \in 1..(n + 1) :
               index'[i] = IF i < p THEN index[i] ELSE IF i = p THEN Node(k) ELSE index[i - 1]
      <3> DEFINE e == Node(k)
      <3>1. e \in Nodes /\ index' = InsertAt(index, p, e)
        BY <1>2
      <3> HIDE DEF e
      <3>2. /\ InsertAt(index, p, e) \in Seq(Nodes)
            /\ Len(InsertAt(index, p, e)) = Len(index) + 1
            /\ \A i \in 1..(Len(index) + 1) :
                 InsertAt(index, p, e)[i] = IF i < p THEN index[i] ELSE IF i = p THEN e ELSE index[i - 1]
        BY <3>1, InsertLemma
      <3>3. QED
        BY <1>1, <3>1, <3>2 DEF e
    <2>2. QED
      BY <1>1, <2>1, LenProperties
  <1> DEFINE h(i) == HashAt(i)
  <1>4. \A i \in 1..n : h(i) \in Nat
    <2>1. ASSUME NEW i \in 1..n PROVE index[i].key \in Keys
      <3>1. index[i] \in Nodes
        BY <1>1, ElementOfSeq
      <3>2. QED
        BY <3>1 DEF Nodes
    <2>2. QED
      BY <2>1, HashTableAssumption DEF HashAt
  <1>5. Hash[k] \in Nat
    BY HashTableAssumption
  <1>6. \A i, j \in 1..n : i <= j => h(i) <= h(j)
    BY <1>1 DEF Sorted
  <1>7. /\ p > 1 => h(p - 1) <= Hash[k]
        /\ p <= n => Hash[k] <= h(p)
    BY <1>1
  <1>8. \A i \in 1..(n + 1) :
          HashAt(i)' = IF i < p THEN h(i) ELSE IF i = p THEN Hash[k] ELSE h(i - 1)
    BY <1>2, <1>3 DEF HashAt
  <1> HIDE DEF h
  <1>9. \A i \in 1..n : i < p => h(i) <= Hash[k]
    <2> SUFFICES ASSUME NEW i \in 1..n, i < p PROVE h(i) <= Hash[k]
      OBVIOUS
    <2>1. p - 1 \in 1..n /\ i <= p - 1 /\ p > 1
      BY <1>3
    <2>2. h(i) <= h(p - 1) /\ h(p - 1) <= Hash[k]
      BY <1>6, <1>7, <2>1
    <2>3. QED
      BY <1>4, <1>5, <2>1, <2>2
  <1>10. \A i \in 1..n : p <= i => Hash[k] <= h(i)
    <2> SUFFICES ASSUME NEW i \in 1..n, p <= i PROVE Hash[k] <= h(i)
      OBVIOUS
    <2>1. p \in 1..n
      BY <1>3
    <2>2. h(p) <= h(i) /\ Hash[k] <= h(p)
      BY <1>6, <1>7, <2>1
    <2>3. QED
      BY <1>4, <1>5, <2>1, <2>2
  <1>11. Sorted'
    <2> SUFFICES ASSUME NEW i \in 1..(n + 1), NEW j \in 1..(n + 1), i <= j
                 PROVE  HashAt(i)' <= HashAt(j)'
      BY <1>3 DEF Sorted
    <2>1. CASE j < p
      <3>1. i \in 1..n /\ j \in 1..n /\ i < p
        BY <1>3, <2>1
      <3>2. QED
        BY <1>6, <1>8, <2>1, <3>1
    <2>2. CASE i < p /\ j = p
      <3>1. i \in 1..n
        BY <1>3, <2>2
      <3>2. QED
        BY <1>8, <1>9, <2>2, <3>1
    <2>3. CASE i < p /\ j > p
      <3>1. i \in 1..n /\ j - 1 \in 1..n /\ i <= j - 1 /\ ~(j < p) /\ j # p
        BY <1>3, <2>3
      <3>2. QED
        BY <1>6, <1>8, <2>3, <3>1
    <2>4. CASE i = p /\ j = p
      BY <1>5, <1>8, <2>4
    <2>5. CASE i = p /\ j > p
      <3>1. j - 1 \in 1..n /\ p <= j - 1 /\ ~(j < p) /\ j # p /\ ~(i < p)
        BY <1>3, <2>5
      <3>2. QED
        BY <1>8, <1>10, <2>5, <3>1
    <2>6. CASE i > p /\ j > p
      <3>1. /\ i - 1 \in 1..n /\ j - 1 \in 1..n /\ i - 1 <= j - 1
            /\ ~(i < p) /\ i # p /\ ~(j < p) /\ j # p
        BY <1>3, <2>6
      <3>2. QED
        BY <1>6, <1>8, <3>1
    <2>7. QED
      BY <1>3, <2>1, <2>2, <2>3, <2>4, <2>5, <2>6
  <1>12. /\ \A i \in 1..n : i < p => i \in 1..(n + 1) /\ index'[i] = index[i]
         /\ \A i \in 1..n : p <= i => i + 1 \in 1..(n + 1) /\ index'[i + 1] = index[i]
         /\ index'[p] = Node(k)
    <2>1. ASSUME NEW i \in 1..n, p <= i PROVE i + 1 \in 1..(n + 1) /\ index'[i + 1] = index[i]
      <3>1. i + 1 \in 1..(n + 1) /\ ~(i + 1 < p) /\ i + 1 # p /\ (i + 1) - 1 = i
        BY <1>3, <2>1
      <3>2. QED
        BY <1>3, <3>1
    <2>2. QED
      BY <1>3, <2>1
  <1>13. LiveKeys' = LiveKeys \cup {k}
    <2>1. ASSUME NEW x \in LiveKeys' PROVE x \in LiveKeys \cup {k}
      <3>1. PICK i \in 1..(n + 1) : index'[i].st = "live" /\ x = index'[i].key
        BY <1>3 DEF LiveKeys, Live
      <3>2. CASE i < p
        <4>1. i \in 1..n /\ index'[i] = index[i]
          BY <1>3, <3>2
        <4>2. QED
          BY <1>1, <3>1, <4>1 DEF LiveKeys, Live
      <3>3. CASE i = p
        BY <1>2, <1>12, <3>1, <3>3
      <3>4. CASE i > p
        <4>1. i - 1 \in 1..n /\ index'[i] = index[i - 1]
          BY <1>3, <3>4
        <4>2. QED
          BY <1>1, <3>1, <4>1 DEF LiveKeys, Live
      <3>5. i < p \/ i = p \/ i > p
        BY <1>3
      <3>6. QED
        BY <3>2, <3>3, <3>4, <3>5
    <2>2. k \in LiveKeys'
      BY <1>2, <1>3, <1>12 DEF LiveKeys, Live
    <2>3. ASSUME NEW x \in LiveKeys PROVE x \in LiveKeys'
      <3>1. PICK i \in 1..n : index[i].st = "live" /\ x = index[i].key
        BY <1>1 DEF LiveKeys, Live
      <3>2. \E j \in 1..(n + 1) : index'[j] = index[i]
        <4>1. i < p \/ p <= i
          BY <1>3
        <4>2. QED
          BY <1>12, <4>1
      <3>3. QED
        BY <1>3, <3>1, <3>2 DEF LiveKeys, Live
    <2>4. QED
      BY <2>1, <2>2, <2>3
  <1>14. LiveOnce'
    <2> SUFFICES ASSUME NEW i \in 1..(n + 1), NEW j \in 1..(n + 1), i < j,
                        index'[i].st = "live", index'[j].st = "live",
                        index'[i].key = index'[j].key
                 PROVE  FALSE
      <3>1. \A i, j \in 1..(n + 1) : i = j \/ i < j \/ j < i
        OBVIOUS
      <3>2. QED
        BY <1>3, <3>1 DEF LiveOnce, Live
    <2>1. \A a, b \in 1..n : index[a].st = "live" /\ index[b].st = "live"
                                /\ index[a].key = index[b].key => a = b
      BY <1>1 DEF LiveOnce, Live
    <2>2. \A a \in 1..n : index[a].st = "live" => index[a].key # k
      BY <1>1 DEF LiveKeys, Live
    <2>3. CASE j < p
      <3>1. i \in 1..n /\ j \in 1..n /\ i < p
        BY <1>3, <2>3
      <3>2. QED
        BY <1>12, <2>1, <2>3, <3>1
    <2>4. CASE i < p /\ j = p
      <3>1. i \in 1..n
        BY <1>3, <2>4
      <3>2. QED
        BY <1>2, <1>12, <2>2, <2>4, <3>1
    <2>5. CASE i < p /\ j > p
      <3>1. i \in 1..n /\ j - 1 \in 1..n /\ i # j - 1 /\ index'[j] = index[j - 1]
        BY <1>3, <2>5
      <3>2. QED
        BY <1>12, <2>1, <2>5, <3>1
    <2>6. CASE i = p /\ j > p
      <3>1. j - 1 \in 1..n /\ index'[j] = index[j - 1]
        BY <1>3, <2>6
      <3>2. QED
        BY <1>2, <1>12, <2>2, <2>6, <3>1
    <2>7. CASE i > p /\ j > p
      <3>1. /\ i - 1 \in 1..n /\ j - 1 \in 1..n /\ i - 1 # j - 1
            /\ index'[i] = index[i - 1] /\ index'[j] = index[j - 1]
        BY <1>3, <2>7
      <3>2. QED
        BY <2>1, <3>1
    <2>8. QED
      BY <1>3, <2>3, <2>4, <2>5, <2>6, <2>7
  <1>15. QED
    BY <1>11, <1>13, <1>14

\* LinkInv by the names of its parts.
LEMMA LinkInvDef ==
  LinkInv <=> Sorted /\ (element_num # 0 \/ InOld = {} => LiveKeys = InTable /\ LiveOnce)
  BY DEF LinkInv, Sorted, LiveKeys, LiveOnce

\* A step that leaves the index, the elements and the counter alone.
LEMMA LinkKept ==
  ASSUME LinkInv, UNCHANGED <<ht_size, chains, old, element_num, index>>
  PROVE  LinkInv'
  BY DEF LinkInv, InTable, InOld, HashAt, Live

\* A new element of the table is linked into the index, or begins it anew.
LEMMA AppendLinks ==
  ASSUME Inv, CountInv, LinkInv, NEW k \in Keys, k \notin InTable, Append_(k)
  PROVE  Sorted' /\ LiveKeys' = InTable' /\ LiveOnce'
  <1>1. InTable' = InTable \cup {k}
    BY AppendStep DEF Inv
  <1>2. CASE element_num = 0
    <2>1. InTable = {}
      <3>1. IsFiniteSet(InTable) /\ Cardinality(InTable) \in Nat /\ Cardinality(InTable) <= 0
        BY <1>2, FS_CardinalityType DEF CountInv
      <3>2. Cardinality(InTable) = 0
        BY <3>1
      <3>3. QED
        BY <3>1, <3>2, FS_EmptySet
    <2>2. index' = <<Node(k)>>
      BY <1>2 DEF Append_
    <2>3. DOMAIN index' = {1} /\ index'[1] = Node(k)
      BY <2>2
    <2>4. Node(k).key = k /\ Node(k).st = "live"
      BY DEF Node
    <2>5. HashAt(1)' = Hash[k] /\ Hash[k] \in Nat
      BY <2>3, <2>4, HashTableAssumption DEF HashAt
    <2>6. Sorted'
      BY <2>3, <2>5 DEF Sorted
    <2>7. Live' = {1}
      BY <2>3, <2>4 DEF Live
    <2>8. LiveKeys' = {k} /\ LiveOnce'
      BY <2>3, <2>4, <2>7 DEF LiveKeys, LiveOnce
    <2>9. QED
      BY <1>1, <2>1, <2>6, <2>8
  <1>3. CASE element_num # 0
    <2>1. index \in Seq(Nodes) /\ index # <<>>
      BY <1>3 DEF Inv, TypeOK, MoveInv, Nodes
    <2>2. Sorted /\ LiveOnce /\ LiveKeys = InTable
      BY <1>3, LinkInvDef
    <2>3. PICK p \in 1..(Len(index) + 1) :
            /\ Link(k) = InsertAt(index, p, Node(k))
            /\ p > 1 => HashAt(p - 1) <= Hash[k]
            /\ p <= Len(index) => Hash[k] <= HashAt(p)
      BY <2>1, LinkLemma
    <2>4. index' = InsertAt(index, p, Node(k)) /\ k \notin LiveKeys
      BY <1>3, <2>2, <2>3 DEF Append_
    <2>5. Sorted' /\ LiveOnce' /\ LiveKeys' = LiveKeys \cup {k}
      BY <2>1, <2>2, <2>3, <2>4, LinkStep
    <2>6. QED
      BY <1>1, <2>2, <2>5
  <1>4. QED
    BY <1>2, <1>3

\* An empty table has an empty index.
LEMMA LinkInit == Init => LinkInv
  <1> SUFFICES ASSUME Init PROVE LinkInv
    OBVIOUS
  <1>1. DOMAIN index = {}
    BY DEF Init
  <1>2. InTable = {}
    <2>1. \A b \in DOMAIN chains : ToSet(chains[b]) = {}
      BY DEF Init, ToSet
    <2>2. QED
      BY <2>1 DEF InTable
  <1>3. Live = {}
    BY <1>1 DEF Live
  <1>4. QED
    BY <1>1, <1>2, <1>3 DEF LinkInv

\* Every step keeps the index sorted and, unless a resize has yet to begin it anew,
\* its live nodes the elements of the chains.
LEMMA LinkInvStep ==
  ASSUME Inv, CountInv, LinkInv, [Next]_vars
  PROVE  LinkInv'
  <1>1. ASSUME Undefined PROVE LinkInv'
    BY <1>1, LinkKept DEF Undefined, table
  <1>2. ASSUME NEW op, Reply(op) PROVE LinkInv'
    BY <1>2, LinkKept DEF Reply, table
  <1>3. ASSUME NEW k \in Keys, NEW v \in Vals, Call(k, v) PROVE LinkInv'
    BY <1>3, LinkKept DEF Call, table
  <1>4. ASSUME NEW k \in Keys, NEW v \in Vals, CallResize(k, v) PROVE LinkInv'
    <2>1. /\ status = "idle" /\ check_resize /\ old' = chains /\ element_num' = 0
          /\ chains' = [b \in 0..(2 * ht_size - 1) |-> <<>>] /\ index' = index
      BY <1>4 DEF CallResize
    <2>2. InTable' = {} /\ InOld' = InTable /\ InOld = {}
      <3>1. \A b \in DOMAIN chains' : ToSet(chains'[b]) = {}
        BY <2>1 DEF ToSet
      <3>2. QED
        BY <2>1, <3>1, IdleEmpty DEF InTable, InOld
    <2>3. Sorted' /\ LiveOnce' /\ LiveKeys' = LiveKeys
      BY <2>1, <2>2, LinkInvDef DEF Sorted, LiveOnce, LiveKeys, Live, HashAt
    <2>4. InOld' = {} => LiveKeys' = InTable'
      BY <2>2, <2>3, LinkInvDef
    <2>5. (Sorted /\ (element_num # 0 \/ InOld = {} => LiveKeys = InTable /\ LiveOnce))'
      BY <2>1, <2>3, <2>4
    <2>6. QED
      BY <2>5 DEF LinkInv, Sorted, LiveKeys, LiveOnce
  <1>5. ASSUME Sorted', LiveKeys' = InTable', LiveOnce' PROVE LinkInv'
    BY <1>5 DEF LinkInv, Sorted, LiveKeys, LiveOnce
  <1>6. CASE MoveElement
    <2> DEFINE k == Head(old[moved])
    <2>1. /\ moved \in DOMAIN old /\ old[moved] # <<>> /\ Append_(k)
          /\ old' = [old EXCEPT ![moved] = Tail(@)]
      BY <1>6 DEF MoveElement, Resizing
    <2>2. k \in Keys /\ k \in InOld
      BY <2>1, TakeStep DEF Inv
    <2>3. k \notin InTable
      BY <2>2 DEF Inv, ChainsOK
    <2> HIDE DEF k
    <2>4. QED
      BY <1>5, <2>1, <2>2, <2>3, AppendLinks
  <1>7. CASE MoveNextBucket
    BY <1>7, LinkKept DEF MoveNextBucket, table
  <1>8. CASE Overwrite
    <2>1. /\ UNCHANGED <<ht_size, chains, element_num, index>> /\ Inserting /\ old' = NoChains
      BY <1>8 DEF Overwrite, Return
    <2>2. InTable' = InTable /\ InOld = {}
      BY <2>1, NothingLeft DEF InTable
    <2>3. Sorted' /\ LiveKeys' = InTable' /\ LiveOnce'
      BY <2>1, <2>2, LinkInvDef DEF Sorted, LiveOnce, LiveKeys, Live, HashAt
    <2>4. QED
      BY <1>5, <2>3
  <1>9. CASE InsertNew
    <2> DEFINE k == pending.key
    <2>1. Inserting /\ ~InChain(k) /\ Append_(k)
      BY <1>9 DEF InsertNew
    <2>2. k \in Keys
      BY <2>1 DEF Inserting, Inv, MoveInv
    <2>3. k \notin InTable
      BY <2>1, <2>2, InChainLemma DEF Inv
    <2> HIDE DEF k
    <2>4. QED
      BY <1>5, <2>1, <2>2, <2>3, AppendLinks
  <1>10. ASSUME NEW k \in Keys, delete(k) PROVE LinkInv'
    <2>1. CASE Undefined
      BY <1>1, <2>1
    <2>2. CASE /\ DeleteLast(k) \/ DeleteInner(k) \/ DeleteAbsent(k)
               /\ UNCHANGED <<status, ht_size, wild, element_num, index_last, pending, old, moved>>
      <3>1. PICK D \in SUBSET InTable : Unlinks(k, D)
        BY <2>2, DeleteStep DEF Inv
      <3>2. InOld = {}
        BY <1>10, IdleEmpty DEF delete
      <3>3. Sorted /\ LiveKeys = InTable /\ LiveOnce
        BY <3>2, LinkInvDef
      <3>4. /\ DOMAIN index' = DOMAIN index
            /\ \A p \in DOMAIN index : index'[p].key = index[p].key
            /\ \A p \in DOMAIN index :
                 index'[p].st = "live" <=> index[p].st = "live" /\ index[p].key \notin D
            /\ InTable' = InTable \ D
        BY <3>1 DEF Unlinks
      <3>5. Sorted'
        BY <3>3, <3>4 DEF Sorted, HashAt
      <3>6. Live' = {p \in Live : index[p].key \notin D}
        BY <3>4 DEF Live
      <3>7. LiveKeys' = LiveKeys \ D
        BY <3>4, <3>6 DEF LiveKeys, Live
      <3>8. LiveOnce'
        BY <3>3, <3>4, <3>6 DEF LiveOnce, Live
      <3>9. QED
        BY <1>5, <3>3, <3>4, <3>5, <3>7, <3>8
    <2>3. QED
      BY <1>10, <2>1, <2>2 DEF delete
  <1>11. CASE get_all_by_index_sort
    <2>1. CASE status' = "exited" /\ UNCHANGED <<table, pending, old, moved>>
      BY <2>1, LinkKept DEF table
    <2>2. QED
      BY <1>1, <1>2, <1>11, <2>1 DEF get_all_by_index_sort
  <1>12. CASE hgetall \/ \E k \in Keys : get_value(k)
    BY <1>1, <1>2, <1>12 DEF hgetall, get_value
  <1>13. CASE UNCHANGED vars
    BY <1>13, LinkKept DEF vars, table
  <1>14. QED
    BY <1>1, <1>3, <1>4, <1>6, <1>7, <1>8, <1>9, <1>10, <1>11, <1>12, <1>13
       DEF Next, Insert, CallResizeWild, MoveIntoWild, InsertUndefined, Stopped

-----------------------------------------------------------------------------
(* What follows while the counter does not reach its modulus. *)

\* Always the table is well formed.
LEMMA TableInv == Spec => []Inv
  BY InvInit, InvStep, PTL DEF Spec

\* As long as the table can hold fewer elements than the counter's modulus, what a
\* resize has yet to move fits into the new table beside what it has counted
\* (map.c:44-47, 207-232).
THEOREM CountHolds ==
  ASSUME NoWrap PROVE Spec => []CountInv
  <1>1. Inv /\ CountInv /\ [Next]_vars => CountInv'
    BY CountStep
  <1>2. Init => CountInv
    BY CountInit
  <1>3. QED
    BY <1>1, <1>2, TableInv, PTL DEF Spec

\* Under the same bound a resize never starts another one while it moves elements,
\* although insert calls itself for each of them (map.c:38, 224), and no more than two
\* elements to a bucket are counted.
THEOREM LoadHolds ==
  ASSUME NoWrap PROVE Spec => []LoadOK
  <1>1. ASSUME Inv, CountInv PROVE LoadOK
    <2>1. ASSUME Resizing, old[moved] # <<>> PROVE ~check_resize
      <3>1. moved \in DOMAIN old /\ old[moved] \in Seq(Keys)
        BY <1>1, <2>1 DEF Resizing, Inv, TypeOK
      <3>2. InOld # {}
        <4>1. Head(old[moved]) \in ToSet(old[moved])
          BY <1>1, <2>1, <3>1, TailLemma DEF Inv, MoveInv
        <4>2. QED
          BY <3>1, <4>1 DEF InOld
      <3>3. IsFiniteSet(InOld) /\ Cardinality(InOld) \in Nat /\ Cardinality(InOld) # 0
        BY <1>1, <3>2, FS_CardinalityType, FS_EmptySet DEF CountInv
      <3>4. old # NoChains
        BY <3>1 DEF NoChains
      <3>5. element_num + Cardinality(InOld) <= ht_size
        BY <1>1, <3>4 DEF CountInv
      <3>6. element_num \in Nat /\ ht_size \in Nat \ {0}
        BY <1>1, HashTableAssumption DEF Inv, TypeOK
      <3>7. ~(element_num >= 2 * ht_size)
        BY <3>3, <3>5, <3>6
      <3>8. QED
        BY <3>6, <3>7, ResizeTest DEF check_resize
    <2>2. QED
      BY <1>1, <2>1 DEF CountInv, LoadOK
  <1>2. QED
    BY <1>1, TableInv, CountHolds, PTL

\* Under the same bound the counter never says less than there is, deletions or not:
\* a resize is never late, and a table that hgetall calls empty is empty.
THEOREM CounterNeverLow ==
  ASSUME NoWrap PROVE Spec => []NeverUndercounts
  <1>1. CountInv => NeverUndercounts
    BY DEF CountInv, NeverUndercounts
  <1>2. QED
    BY <1>1, TableInv, CountHolds, PTL

\* As many live nodes as elements.
LEMMA LiveCount ==
  ASSUME Inv, LinkInv, InOld = {}
  PROVE  LiveKeys = InTable /\ Cardinality(Live) = Cardinality(InTable)
  <1>1. LiveKeys = InTable /\ LiveOnce
    BY LinkInvDef
  <1>2. IsFiniteSet(Live)
    <2>1. PICK n \in Nat : DOMAIN index = 1..n
      BY LenProperties DEF Inv, TypeOK
    <2>2. IsFiniteSet(1..n)
      BY <2>1, FS_Interval
    <2>3. Live \in SUBSET (1..n)
      BY <2>1 DEF Live
    <2>4. QED
      BY <2>2, <2>3, FS_Subset
  <1> DEFINE f == [p \in Live |-> index[p].key]
  <1>3. f \in Bijection(Live, InTable)
    <2>1. \A p \in Live : f[p] = index[p].key
      OBVIOUS
    <2>2. f \in [Live -> InTable]
      BY <1>1 DEF LiveKeys
    <2>3. \A p, q \in Live : f[p] = f[q] => p = q
      BY <1>1, <2>1 DEF LiveOnce
    <2>4. \A k \in InTable : \E p \in Live : f[p] = k
      BY <1>1, <2>1 DEF LiveKeys
    <2> HIDE DEF f
    <2>5. QED
      BY <2>2, <2>3, <2>4 DEF Bijection, Injection, Surjection, IsInjective
  <1>4. ExistsBijection(Live, InTable)
    BY <1>3 DEF ExistsBijection
  <1>5. QED
    BY <1>1, <1>2, <1>4, FS_Bijection

\* Under the same bound the live nodes of the index are the elements of the chains,
\* each once, in the middle of a resize too (map.c:57-92, 221-232).
THEOREM LinkHolds ==
  ASSUME NoWrap PROVE Spec => []LinkInv
  <1>1. Inv /\ CountInv /\ LinkInv /\ [Next]_vars => LinkInv'
    BY InvStep, CountStep, LinkInvStep
  <1>2. Init => LinkInv
    BY LinkInit
  <1>3. QED
    BY <1>1, <1>2, TableInv, CountHolds, PTL DEF Spec

\* Under the same bound the index links every element of the chains exactly once, in
\* the order of the hash values, whatever deletions have left in it besides.
THEOREM IndexHolds ==
  ASSUME NoWrap PROVE Spec => []IndexOK
  <1>1. ASSUME Inv, LinkInv PROVE IndexOK
    <2>1. Sorted
      BY <1>1, LinkInvDef
    <2>2. status = "idle" => LiveKeys = InTable /\ Cardinality(Live) = Cardinality(InTable)
      BY <1>1, IdleEmpty, LiveCount
    <2>3. QED
      BY <2>1, <2>2 DEF IndexOK, Sorted, LiveKeys
  <1>2. QED
    BY <1>1, TableInv, LinkHolds, PTL

-----------------------------------------------------------------------------
(* The key-value store that a table without deletions implements. *)

AllLive == \A p \in DOMAIN index : index[p].st = "live"

\* A node linked in is live, and so are those that were.
LEMMA AppendLive ==
  ASSUME Inv, AllLive, NEW k \in Keys, Append_(k)
  PROVE  AllLive'
  <1>1. Node(k) \in Nodes /\ Node(k).st = "live"
    BY DEF Node, Nodes
  <1>2. CASE element_num = 0
    <2>1. index' = <<Node(k)>>
      BY <1>2 DEF Append_
    <2>2. DOMAIN index' = {1} /\ index'[1] = Node(k)
      BY <2>1
    <2>3. QED
      BY <1>1, <2>2 DEF AllLive
  <1>3. CASE element_num # 0
    <2>1. index \in Seq(Nodes) /\ index # <<>>
      BY <1>3 DEF Inv, TypeOK, MoveInv, Nodes
    <2>2. PICK p \in 1..(Len(index) + 1) : Link(k) = InsertAt(index, p, Node(k))
      BY <2>1, LinkLemma
    <2>3. index' = InsertAt(index, p, Node(k))
      BY <1>3, <2>2 DEF Append_
    <2>4. PICK n \in Nat : n = Len(index) /\ DOMAIN index = 1..n
      BY <2>1, LenProperties
    <2>5. /\ index' \in Seq(Nodes) /\ Len(index') = n + 1
          /\ \A i \in 1..(n + 1) :
               index'[i] = IF i < p THEN index[i] ELSE IF i = p THEN Node(k) ELSE index[i - 1]
      <3> DEFINE e == Node(k)
      <3>1. e \in Nodes /\ index' = InsertAt(index, p, e)
        BY <1>1, <2>3
      <3> HIDE DEF e
      <3>2. /\ InsertAt(index, p, e) \in Seq(Nodes)
            /\ Len(InsertAt(index, p, e)) = Len(index) + 1
            /\ \A i \in 1..(Len(index) + 1) :
                 InsertAt(index, p, e)[i] = IF i < p THEN index[i] ELSE IF i = p THEN e ELSE index[i - 1]
        BY <2>1, <3>1, InsertLemma
      <3>3. QED
        BY <2>4, <3>1, <3>2 DEF e
    <2>6. DOMAIN index' = 1..(n + 1)
      BY <2>5, LenProperties
    <2>7. ASSUME NEW i \in 1..(n + 1) PROVE index'[i].st = "live"
      <3>1. CASE i < p
        <4>1. i \in 1..n /\ index'[i] = index[i]
          BY <2>4, <2>5, <3>1
        <4>2. QED
          BY <2>4, <4>1 DEF AllLive
      <3>2. CASE i = p
        BY <1>1, <2>5, <3>2
      <3>3. CASE i > p
        <4>1. i - 1 \in 1..n /\ index'[i] = index[i - 1]
          BY <2>4, <2>5, <3>3
        <4>2. QED
          BY <2>4, <4>1 DEF AllLive
      <3>4. i < p \/ i = p \/ i > p
        BY <2>4
      <3>5. QED
        BY <3>1, <3>2, <3>3, <3>4
    <2>8. QED
      BY <2>6, <2>7 DEF AllLive
  <1>4. QED
    BY <1>2, <1>3

\* Without deletions every node of the index stays live.
LEMMA LiveStep ==
  ASSUME "delete" \notin Ops, Inv, AllLive, [Next]_vars
  PROVE  AllLive'
  <1>1. CASE index' = index
    BY <1>1 DEF AllLive
  <1>2. CASE MoveElement
    <2>1. /\ moved \in DOMAIN old /\ old[moved] # <<>> /\ Append_(Head(old[moved]))
          /\ old' = [old EXCEPT ![moved] = Tail(@)]
      BY <1>2 DEF MoveElement, Resizing
    <2>2. Head(old[moved]) \in Keys
      BY <2>1, TakeStep DEF Inv
    <2>3. QED
      BY <2>1, <2>2, AppendLive
  <1>3. CASE InsertNew
    <2>1. Append_(pending.key) /\ pending.key \in Keys
      BY <1>3 DEF InsertNew, Inserting, Inv, MoveInv
    <2>2. QED
      BY <2>1, AppendLive
  <1>4. ASSUME ~MoveElement, ~InsertNew PROVE index' = index
    <2>1. \A k \in Keys : ~delete(k)
      BY DEF delete
    <2>2. \A op : Reply(op) => index' = index
      BY DEF Reply, table
    <2>3. Undefined \/ UNCHANGED vars => index' = index
      BY DEF Undefined, vars, table
    <2>4. MoveNextBucket \/ Overwrite => index' = index
      BY DEF MoveNextBucket, Overwrite, table
    <2>5. \A k \in Keys, v \in Vals : Call(k, v) \/ CallResize(k, v) => index' = index
      BY DEF Call, CallResize, table
    <2>6. Insert => index' = index
      BY <1>4, <2>3, <2>4, <2>5 DEF Insert, CallResizeWild, MoveIntoWild, InsertUndefined
    <2>7. get_all_by_index_sort => index' = index
      BY <2>2, <2>3 DEF get_all_by_index_sort, table
    <2>8. hgetall \/ Stopped \/ (\E k \in Keys : get_value(k)) => index' = index
      BY <2>2, <2>3 DEF hgetall, Stopped, get_value
    <2>9. QED
      BY <2>1, <2>3, <2>6, <2>7, <2>8 DEF Next
  <1>5. QED
    BY <1>1, <1>2, <1>3, <1>4

StoreInv == Inv /\ AllLive /\ (NoWrap => CountInv /\ LinkInv)

\* Between operations the keys that have a value are the elements of the chains.
LEMMA PresentLemma ==
  ASSUME Inv, status = "idle"
  PROVE  /\ Store!Present = InTable
         /\ \A k \in Keys : k \in InTable <=> val[k] # Null
  <1>1. InOld = {}
    BY IdleEmpty
  <1>2. InTable \subseteq Keys
    BY HeldKeys DEF Inv, Held
  <1>3. QED
    BY <1>1, <1>2 DEF Inv, ChainsOK, Store!Present

\* The instance counts and collects as the table does.
LEMMA SameOperators ==
  /\ \A S : Store!Cardinality(S) = Cardinality(S)
  /\ \A s : Store!ToSet(s) = ToSet(s)
  <1>1. ASSUME NEW S PROVE Store!Cardinality(S) = Cardinality(S)
    BY DEF Store!Cardinality, Cardinality
  <1>2. ASSUME NEW s PROVE Store!ToSet(s) = ToSet(s)
    BY DEF Store!ToSet, ToSet
  <1>3. QED
    BY <1>1, <1>2

\* The list that a walk along the index prints is the sorted list of the keys.
LEMMA ListStep ==
  ASSUME StoreInv, NoWrap, status = "idle", UNCHANGED val,
         answer' = [op |-> "list", keys |-> [p \in DOMAIN index |-> index[p].key]]
  PROVE  Store!List
  <1> DEFINE ks == [p \in DOMAIN index |-> index[p].key]
  <1>1. PICK n \in Nat : n = Len(index) /\ DOMAIN index = 1..n
    BY LenProperties DEF StoreInv, Inv, TypeOK
  <1>2. Live = 1..n
    BY <1>1 DEF StoreInv, AllLive, Live
  <1>3. LiveKeys = InTable /\ Cardinality(Live) = Cardinality(InTable)
    BY IdleEmpty, LiveCount DEF StoreInv
  <1>4. Cardinality(1..n) = n
    <2>1. Cardinality(1..n) = IF 1 > n THEN 0 ELSE n - 1 + 1
      BY FS_Interval
    <2>2. QED
      BY <2>1
  <1>5. InTable \subseteq Keys /\ Store!Present = InTable
    BY HeldKeys, PresentLemma DEF StoreInv, Inv, Held
  <1>6. \A p \in 1..n : ks[p] = index[p].key
    BY <1>1
  <1>7. DOMAIN ks = 1..n
    BY <1>1
  <1>8. ToSet(ks) = InTable
    BY <1>2, <1>3, <1>6, <1>7 DEF ToSet, LiveKeys
  <1>9. ks \in Seq(Keys) /\ Len(ks) = n
    <2>1. \A p \in 1..n : ks[p] \in Keys
      BY <1>5, <1>7, <1>8 DEF ToSet
    <2>2. ks \in [1..n -> Keys]
      BY <1>1, <2>1
    <2> HIDE DEF ks
    <2>3. ks \in Seq(Keys)
      BY <2>2, SeqDef
    <2>4. DOMAIN ks = 1..Len(ks) /\ Len(ks) \in Nat
      BY <2>3, LenProperties
    <2>5. QED
      BY <1>7, <2>3, <2>4
  <1>10. \A i, j \in 1..n : i <= j => Hash[ks[i]] <= Hash[ks[j]]
    <2>1. Sorted
      BY LinkInvDef DEF StoreInv
    <2>2. QED
      BY <1>1, <1>6, <2>1 DEF Sorted, HashAt
  <1>11. answer'.op = "list" /\ answer'.keys = ks
    OBVIOUS
  <1> HIDE DEF ks
  <1>12. QED
    <2>1. Len(answer'.keys) = Cardinality(Store!Present)
      BY <1>2, <1>3, <1>4, <1>5, <1>9, <1>11
    <2>2. ToSet(answer'.keys) = Store!Present
      BY <1>5, <1>8, <1>11
    <2>3. \A i, j \in DOMAIN answer'.keys :
            i <= j => Hash[answer'.keys[i]] <= Hash[answer'.keys[j]]
      BY <1>7, <1>10, <1>11
    <2>4. QED
      BY <1>11, <2>1, <2>2, <2>3, SameOperators DEF Store!List

\* Each step is one operation of the store, or none.
LEMMA StoreStep ==
  ASSUME "delete" \notin Ops, NoWrap \/ Ops = {}, StoreInv, [Next]_vars
  PROVE  [Store!Next]_<<val, answer>>
  <1>1. CASE UNCHANGED <<val, answer>>
    BY <1>1
  <1>2. Undefined \/ UNCHANGED vars => UNCHANGED <<val, answer>>
    BY DEF Undefined, vars, table
  <1>3. ASSUME NEW op, Reply(op) PROVE answer' = op /\ UNCHANGED val
    BY <1>3 DEF Reply, table
  <1>4. ASSUME Overwrite \/ InsertNew PROVE Store!Put
    <2>1. /\ pending.key \in Keys /\ pending.value \in Vals
          /\ val' = [val EXCEPT ![pending.key] = pending.value]
          /\ answer' = [op |-> "put"]
      BY <1>4 DEF Overwrite, InsertNew, Return, Inserting, StoreInv, Inv, MoveInv
    <2>2. QED
      BY <2>1 DEF Store!Put
  <1>5. ASSUME Insert PROVE UNCHANGED <<val, answer>> \/ Store!Put
    <2>1. \A k \in Keys, v \in Vals : Call(k, v) \/ CallResize(k, v) => UNCHANGED <<val, answer>>
      BY DEF Call, CallResize, table
    <2>2. MoveElement \/ MoveNextBucket => UNCHANGED <<val, answer>>
      BY DEF MoveElement, MoveNextBucket, table
    <2>3. QED
      BY <1>2, <1>4, <1>5, <2>1, <2>2 DEF Insert, CallResizeWild, MoveIntoWild, InsertUndefined
  <1>6. ASSUME NEW k \in Keys, get_value(k) PROVE UNCHANGED <<val, answer>> \/ Store!Get
    <2>1. CASE /\ status = "idle"
               /\ Reply([op |-> "get", key |-> k, value |-> IF InChain(k) THEN val[k] ELSE Null])
      <3>1. IF InChain(k) THEN TRUE ELSE val[k] = Null
        BY <2>1, PresentLemma, InChainLemma DEF StoreInv, Inv
      <3>2. answer' = [op |-> "get", key |-> k, value |-> val[k]] /\ UNCHANGED val
        BY <1>3, <2>1, <3>1
      <3>3. QED
        BY <3>2 DEF Store!Get
    <2>2. QED
      BY <1>2, <1>6, <2>1 DEF get_value
  <1>7. ASSUME hgetall PROVE UNCHANGED <<val, answer>> \/ Store!All
    <2>1. NoWrap /\ status = "idle"
      BY <1>7 DEF hgetall
    <2>2. Store!Present = InTable
      BY <2>1, PresentLemma DEF StoreInv
    <2>3. CASE element_num = 0 /\ Reply([op |-> "all", keys |-> {}])
      <3>1. IsFiniteSet(InTable) /\ Cardinality(InTable) \in Nat /\ Cardinality(InTable) <= 0
        BY <2>1, <2>3, FS_CardinalityType DEF StoreInv, CountInv
      <3>2. Cardinality(InTable) = 0
        BY <3>1
      <3>3. InTable = {}
        BY <3>1, <3>2, FS_EmptySet
      <3>4. QED
        BY <1>3, <2>2, <2>3, <3>3 DEF Store!All
    <2>4. CASE Reply([op |-> "all", keys |-> UNION {ToSet(chains[b]) : b \in DOMAIN chains}])
      BY <1>3, <2>2, <2>4 DEF Store!All, InTable
    <2>5. QED
      BY <1>2, <1>7, <2>3, <2>4 DEF hgetall
  <1>8. ASSUME get_all_by_index_sort PROVE UNCHANGED <<val, answer>> \/ Store!List
    <2>1. NoWrap /\ status = "idle"
      BY <1>8 DEF get_all_by_index_sort
    <2>2. CASE Reply([op |-> "list", keys |-> [p \in DOMAIN index |-> index[p].key]])
      BY <1>3, <2>1, <2>2, ListStep
    <2>3. CASE UNCHANGED <<table, answer>>
      BY <2>3 DEF table
    <2>4. QED
      BY <1>2, <1>8, <2>2, <2>3 DEF get_all_by_index_sort
  <1>9. \A k \in Keys : ~delete(k)
    BY DEF delete
  <1>10. QED
    BY <1>1, <1>2, <1>5, <1>6, <1>7, <1>8, <1>9 DEF Next, Stopped, Store!Next

\* A table from which nothing is deleted is a key-value store, whose keys can also be
\* listed in the order of their hash values: get_value answers with what insert has
\* last put, through every resize. The lists need the counter not to wrap around;
\* where the program does not ask for them it may (map.c:31-122, 154-197).
THEOREM StoreImplemented ==
  ASSUME "delete" \notin Ops, NoWrap \/ Ops = {}
  PROVE  Spec => KeepsStore
  <1>1. Init => Store!Init
    BY DEF Init, Store!Init
  <1>2. Init => StoreInv
    <2>1. Init => AllLive
      BY DEF Init, AllLive
    <2>2. QED
      BY <2>1, InvInit, CountInit, LinkInit DEF StoreInv
  <1>3. StoreInv /\ [Next]_vars => StoreInv'
    <2>1. ASSUME StoreInv, [Next]_vars PROVE (Inv /\ AllLive)'
      BY <2>1, InvStep, LiveStep DEF StoreInv
    <2>2. ASSUME StoreInv, [Next]_vars, NoWrap PROVE (CountInv /\ LinkInv)'
      BY <2>2, CountStep, LinkInvStep DEF StoreInv
    <2>3. QED
      BY <2>1, <2>2 DEF StoreInv
  <1>4. StoreInv /\ [Next]_vars => [Store!Next]_<<val, answer>>
    BY StoreStep
  <1>5. QED
    BY <1>1, <1>2, <1>3, <1>4, PTL DEF Spec, KeepsStore, Store!Spec

=============================================================================
