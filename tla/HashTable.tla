----------------------------- MODULE HashTable -----------------------------
(***************************************************************************)
(* The hash table of map.c: buckets with chains, and an index that links   *)
(* all the elements in the order of their hash values.                     *)
(*                                                                         *)
(* An element of a chain is named by its key (no chain holds a key twice). *)
(* An element of the index is a node: "live" while it is in a chain,       *)
(* "lost" when a chain has dropped it without freeing it, "freed" after    *)
(* free().  Reading a freed node, or a bucket that malloc left             *)
(* uninitialised, is undefined: status becomes "ub" and the model says     *)
(* nothing of what follows.                                                *)
(***************************************************************************)
EXTENDS Integers, FiniteSets, SequencesExt

CONSTANTS
  Keys, Vals, Null,
  Hash,        \* the hash value of each key
  InitSizes,   \* the arguments of hermes_hash_table_init
  MaxSize,     \* MAX_HASH_TABLE_SIZE
  NumMod,      \* element_num counts modulo NumMod (2^16 in the code)
  Ops,         \* the operations the program uses besides insert and get_value
  FreshZero,   \* malloc happens to return zeroed memory
  MaxBuckets   \* bound: no insertion that would make the table larger than this

ASSUME HashTableAssumption ==
  /\ Null \notin Vals \cup Keys
  /\ Hash \in [Keys -> Nat]
  /\ InitSizes \subseteq Nat /\ MaxSize \in 0..128   \* 100 in the code
  /\ NumMod \in Nat \ {0}
  /\ Ops \subseteq {"delete", "list", "all"}
  /\ FreshZero \in BOOLEAN
  /\ MaxBuckets \in Nat

VARIABLES
  status,       \* "null" (init refused), "idle", "insert", "ub" or "exited"
  ht_size,
  chains,       \* the chain of each bucket, a sequence of keys
  wild,         \* the buckets whose pointer is uninitialised
  val,          \* the value of each key that is in the table
  element_num,
  index,        \* the nodes from index_first on
  index_last,   \* the key of the node index_last points to
  pending,      \* the insertion in progress
  old,          \* the buckets a resize is moving
  moved,        \* how many of them it has left behind
  answer        \* the result of the last operation

table == <<ht_size, chains, wild, val, element_num, index, index_last>>
vars  == <<status, table, pending, old, moved, answer>>

NoChains == [b \in {} |-> <<>>]
NoInsert == [key |-> Null, value |-> Null]

\* Mutant: the size is not rounded.
RoundUp_Not(size) == size

\* The least power of two that is not less than size; 1 for 0.
PowersOfTwo == {1, 2, 4, 8, 16, 32, 64, 128}
RoundUp(size) ==
  CHOOSE n \in PowersOfTwo : n >= size /\ \A m \in PowersOfTwo : m >= size => n <= m

Init ==
  /\ \E size \in InitSizes :
       /\ status = IF size > MaxSize THEN "null" ELSE "idle"
       /\ ht_size = IF size > MaxSize THEN 1 ELSE RoundUp(size)
  /\ chains = [b \in 0..(ht_size - 1) |-> <<>>]
  /\ wild = {}
  /\ val = [k \in Keys |-> Null]
  /\ element_num = 0
  /\ index = <<>>
  /\ index_last = Null
  /\ pending = NoInsert
  /\ old = NoChains
  /\ moved = 0
  /\ answer = [op |-> "init"]

\* HT_GET_INDEX: hash & ht_mask, and ht_size is a power of two.
Bucket(k) == Hash[k] % ht_size

\* The walk along the chain finds the key.
InChain(k) == k \in ToSet(chains[Bucket(k)])

\* Mutant: one more element to a bucket.
check_resize_Later == element_num \div ht_size >= 3

\* An integer division: 3 / 2 is not greater than 1.5.
check_resize == element_num \div ht_size >= 2

Node(k) == [key |-> k, st |-> "live"]
HashAt(p) == Hash[index[p].key]

\* The node behind which the walk along the index stops, for a key that does
\* not belong before the first node, and the nodes whose memory the walk reads.
WalkStop(k) ==
  CHOOSE p \in DOMAIN index :
    /\ p = Len(index) \/ Hash[k] <= HashAt(p + 1)
    /\ \A q \in 1..(p - 1) : Hash[k] > HashAt(q + 1)
First(k) == Hash[k] < HashAt(1)
WalkReads(k) == IF First(k) THEN {1} ELSE {p \in DOMAIN index : p <= WalkStop(k) + 1}

\* Mutant: an insertion is never before the first node.
Link_Behind(k) ==
  LET p == IF First(k) THEN 1 ELSE WalkStop(k) IN InsertAt(index, p + 1, Node(k))

Link(k) ==
  IF First(k) THEN InsertAt(index, 1, Node(k))
              ELSE InsertAt(index, WalkStop(k) + 1, Node(k))

\* Mutant: the element replaces the chain.
Append_Replaces(k) ==
  /\ chains' = [chains EXCEPT ![Bucket(k)] = <<k>>]
  /\ element_num' = (element_num + 1) % NumMod
  /\ \/ element_num = 0 /\ index' = <<Node(k)>> /\ index_last' = k
     \/ element_num # 0 /\ index' = Link(k) /\ index_last' = index_last
  /\ UNCHANGED <<ht_size, wild>>

\* Mutant: what a resize moves is not counted.
Append_Uncounted(k) ==
  /\ chains' = [chains EXCEPT ![Bucket(k)] = Append(@, k)]
  /\ element_num' = IF pending.key # k THEN 1 ELSE (element_num + 1) % NumMod
  /\ \/ element_num = 0 /\ index' = <<Node(k)>> /\ index_last' = k
     \/ element_num # 0 /\ index' = Link(k) /\ index_last' = index_last
  /\ UNCHANGED <<ht_size, wild>>

\* A new element: at the end of its chain, and in the index.
Append_(k) ==
  /\ chains' = [chains EXCEPT ![Bucket(k)] = Append(@, k)]
  /\ element_num' = (element_num + 1) % NumMod
  /\ \/ element_num = 0 /\ index' = <<Node(k)>> /\ index_last' = k
     \/ element_num # 0 /\ index' = Link(k) /\ index_last' = index_last
  /\ UNCHANGED <<ht_size, wild>>

ReadsFreed(k) ==
  element_num # 0 /\ \E p \in WalkReads(k) : index[p].st = "freed"

Undefined ==
  /\ status' = "ub"
  /\ UNCHANGED <<table, pending, old, moved, answer>>

-----------------------------------------------------------------------------
(* hermes_hash_table_insert, in steps: the call, with the start of a resize *)
(* if one is due; the move of each element by a resize; the insertion.      *)

Call(k, v) ==
  /\ status = "idle"
  /\ ~check_resize
  /\ status' = "insert"
  /\ pending' = [key |-> k, value |-> v]
  /\ UNCHANGED <<table, old, moved, answer>>

\* memset clears the first bucket only.
CallResize(k, v) ==
  /\ status = "idle"
  /\ check_resize
  /\ wild = {}
  /\ 2 * ht_size <= MaxBuckets
  /\ status' = "insert"
  /\ pending' = [key |-> k, value |-> v]
  /\ old' = chains
  /\ moved' = 0
  /\ ht_size' = 2 * ht_size
  /\ chains' = [b \in 0..(2 * ht_size - 1) |-> <<>>]
  /\ \E garbage \in SUBSET (1..(2 * ht_size - 1)) :
       wild' = IF FreshZero THEN {} ELSE garbage
  /\ element_num' = 0
  /\ UNCHANGED <<val, index, index_last, answer>>

\* The resize reads every old bucket.
CallResizeWild == status = "idle" /\ check_resize /\ wild # {} /\ Undefined

Resizing == status = "insert" /\ moved \in DOMAIN old

\* The recursive call of insert would resize again if check_resize said so:
\* that is not modelled, and LoadOK says that it never happens.
MoveElement ==
  /\ Resizing /\ old[moved] # <<>>
  /\ LET k == Head(old[moved]) IN
       /\ Bucket(k) \notin wild
       /\ Append_(k)
  /\ ~check_resize
  /\ old' = [old EXCEPT ![moved] = Tail(@)]
  /\ UNCHANGED <<status, val, pending, moved, answer>>

MoveIntoWild ==
  /\ Resizing /\ old[moved] # <<>>
  /\ Bucket(Head(old[moved])) \in wild
  /\ Undefined

\* Mutant: only the first element of each bucket is moved.
MoveNextBucket_Early ==
  /\ Resizing
  /\ moved' = moved + 1
  /\ UNCHANGED <<status, table, pending, old, answer>>

MoveNextBucket ==
  /\ Resizing /\ old[moved] = <<>>
  /\ moved' = moved + 1
  /\ UNCHANGED <<status, table, pending, old, answer>>

Inserting == status = "insert" /\ moved \notin DOMAIN old

Return(op) ==
  /\ status' = "idle"
  /\ pending' = NoInsert
  /\ old' = NoChains
  /\ moved' = 0
  /\ answer' = op

InsertUndefined ==
  /\ Inserting
  /\ LET k == pending.key IN
       \/ Bucket(k) \in wild
       \/ ~InChain(k) /\ ReadsFreed(k)
  /\ Undefined

Overwrite ==
  /\ Inserting
  /\ Bucket(pending.key) \notin wild
  /\ InChain(pending.key)
  /\ val' = [val EXCEPT ![pending.key] = pending.value]
  /\ Return([op |-> "put"])
  /\ UNCHANGED <<ht_size, chains, wild, element_num, index, index_last>>

InsertNew ==
  /\ Inserting
  /\ LET k == pending.key IN
       /\ Bucket(k) \notin wild
       /\ ~InChain(k)
       /\ ~ReadsFreed(k)
       /\ val' = [val EXCEPT ![k] = pending.value]
       /\ Append_(k)
  /\ Return([op |-> "put"])

Insert ==
  \/ \E k \in Keys, v \in Vals : Call(k, v) \/ CallResize(k, v)
  \/ CallResizeWild \/ MoveElement \/ MoveIntoWild \/ MoveNextBucket
  \/ InsertUndefined \/ Overwrite \/ InsertNew

-----------------------------------------------------------------------------
(* The other operations. *)

Reply(op) == answer' = op /\ UNCHANGED <<status, table, pending, old, moved>>

get_value(k) ==
  /\ status = "idle"
  /\ \/ Bucket(k) \in wild /\ Undefined
     \/ /\ Bucket(k) \notin wild
        /\ Reply([op |-> "get", key |-> k, value |-> IF InChain(k) THEN val[k] ELSE Null])

Relabel(freed, lost) ==
  [p \in DOMAIN index |->
     CASE index[p].st = "live" /\ index[p].key \in freed -> [index[p] EXCEPT !.st = "freed"]
       [] index[p].st = "live" /\ index[p].key \in lost  -> [index[p] EXCEPT !.st = "lost"]
       [] OTHER -> index[p]]

\* A matching element at the end of its chain is freed, and the bucket emptied.
DeleteLast(k) ==
  LET c == chains[Bucket(k)] IN
  /\ c # <<>> /\ c[Len(c)] = k
  /\ chains' = [chains EXCEPT ![Bucket(k)] = <<>>]
  /\ val' = [j \in Keys |-> IF j \in ToSet(c) THEN Null ELSE val[j]]
  /\ index' = Relabel({k}, ToSet(c) \ {k})

\* Elsewhere in the chain it is the element behind it that is unlinked.
DeleteInner(k) ==
  LET c == chains[Bucket(k)] IN
  \E p \in DOMAIN c :
    /\ c[p] = k /\ p < Len(c)
    /\ chains' = [chains EXCEPT ![Bucket(k)] = RemoveAt(@, p + 1)]
    /\ val' = [val EXCEPT ![c[p + 1]] = Null]
    /\ index' = Relabel({}, {c[p + 1]})

DeleteAbsent(k) == ~InChain(k) /\ UNCHANGED <<chains, val, index>>

delete(k) ==
  /\ "delete" \in Ops
  /\ status = "idle"
  /\ \/ Bucket(k) \in wild /\ Undefined
     \/ /\ Bucket(k) \notin wild
        /\ DeleteLast(k) \/ DeleteInner(k) \/ DeleteAbsent(k)
        /\ answer' = [op |-> "delete"]
        /\ UNCHANGED <<status, ht_size, wild, element_num, index_last, pending, old, moved>>

\* Every bucket is read.
hgetall ==
  /\ "all" \in Ops
  /\ status = "idle"
  /\ \/ element_num = 0 /\ Reply([op |-> "all", keys |-> {}])
     \/ element_num # 0 /\ wild # {} /\ Undefined
     \/ /\ element_num # 0 /\ wild = {}
        /\ Reply([op |-> "all", keys |-> UNION {ToSet(chains[b]) : b \in DOMAIN chains}])

\* exit(0) when the table is empty.
get_all_by_index_sort ==
  /\ "list" \in Ops
  /\ status = "idle"
  /\ \/ /\ element_num = 0
        /\ status' = "exited"
        /\ UNCHANGED <<table, pending, old, moved, answer>>
     \/ element_num # 0 /\ (\E p \in DOMAIN index : index[p].st = "freed") /\ Undefined
     \/ /\ element_num # 0 /\ \A p \in DOMAIN index : index[p].st # "freed"
        /\ Reply([op |-> "list", keys |-> [p \in DOMAIN index |-> index[p].key]])

Stopped == status \in {"null", "ub", "exited"} /\ UNCHANGED vars

Next ==
  \/ Insert
  \/ \E k \in Keys : get_value(k) \/ delete(k)
  \/ hgetall \/ get_all_by_index_sort
  \/ Stopped

Spec == Init /\ [][Next]_vars

-----------------------------------------------------------------------------
(* Properties. *)

InTable == UNION {ToSet(chains[b]) : b \in DOMAIN chains}
InOld   == UNION {ToSet(old[b]) : b \in DOMAIN old}
Live    == {p \in DOMAIN index : index[p].st = "live"}

\* Every variable has its type.
TypeOK ==
  /\ status \in {"null", "idle", "insert", "ub", "exited"}
  /\ ht_size \in Nat \ {0}
  /\ chains \in [0..(ht_size - 1) -> Seq(Keys)]
  /\ wild \subseteq 1..(ht_size - 1)
  /\ val \in [Keys -> Vals \cup {Null}]
  /\ element_num \in 0..(NumMod - 1)
  /\ index \in Seq([key : Keys, st : {"live", "lost", "freed"}])
  /\ index_last \in Keys \cup {Null}
  /\ pending \in [key : Keys, value : Vals] \cup {NoInsert}
  /\ DOMAIN old \subseteq 0..(ht_size - 1) /\ \A b \in DOMAIN old : old[b] \in Seq(Keys)
  /\ moved \in 0..ht_size

\* get_value finds what insert has put: an element is in the chain of its own
\* bucket, once, and nowhere else, also while a resize moves the elements and
\* after deletions, whichever elements these have dropped.
ChainsOK ==
  /\ \A b \in DOMAIN chains : \A k \in ToSet(chains[b]) : Bucket(k) = b
  /\ \A b \in DOMAIN chains : IsInjective(chains[b])
  /\ InTable \cap InOld = {}
  /\ \A k \in Keys : val[k] # Null <=> k \in InTable \cup InOld

\* The index links every element of the chains exactly once, in the order of
\* the hash values.  Nodes that deletions have dropped or freed may be in it
\* besides: ReadsOwnMemory is about those.
IndexOK ==
  /\ \A p, q \in DOMAIN index : p <= q => HashAt(p) <= HashAt(q)
  /\ status = "idle" =>
       /\ {index[p].key : p \in Live} = InTable
       /\ Cardinality(Live) = Cardinality(InTable)

\* A resize never starts another one while it moves elements, and the load of
\* the table stays bounded: no more than two elements to a bucket are counted.
LoadOK ==
  /\ Resizing /\ old[moved] # <<>> => ~check_resize
  /\ element_num <= 2 * ht_size

\* A resize loses no element, and neither does any other step that is not a
\* deletion; a deletion (map.c:124) loses none of another chain.  Whether it drops
\* the element it should is DeletesItsKey.
Held == InTable \cup InOld
LostOnlyByDelete == [][\A k \in Held \ Held' :
  \E d \in Keys : Bucket(d) = Bucket(k) /\ delete(d)]_vars

\* element_num (map.h:82, "total elements num") is not decremented by a deletion:
\* it may say too much, never too little, so that a resize is never late and a
\* table that hgetall calls empty is empty.
NeverUndercounts == status = "idle" => Cardinality(InTable) <= element_num

\* Without deletions the table is a key-value store with a sorted list.
Store == INSTANCE KeyValue WITH store <- val
KeepsStore == Store!Spec

-----------------------------------------------------------------------------
(* What the code does not keep: each has a run that is expected to fail. *)

\* hermes_hash_table_delete (map.h:104) takes the element with the key it is given
\* out of the table, and no other.
DeletesItsKey == [][\A k \in Keys :
  delete(k) /\ status' # "ub" => Held' = Held \ {k}]_vars

\* No operation reads a node of the index after it was freed (map.c:134), or a
\* bucket that nobody has set, as init does for all of them (map.c:26).
ReadsOwnMemory == status # "ub"

-----------------------------------------------------------------------------
(* The inductive invariants behind the properties. *)

\* A resize works through the buckets it has taken over, in order, and no element
\* is in two of them; an index is walked only if it has a node.
MoveInv ==
  /\ element_num # 0 => index # <<>>
  /\ status = "insert" => pending.key \in Keys /\ pending.value \in Vals
  /\ status = "idle" => old = NoChains
  /\ \E n \in 0..ht_size : DOMAIN old = 0..(n - 1) /\ moved <= n
  /\ \A b \in DOMAIN old : b < moved => old[b] = <<>>
  /\ \A b \in DOMAIN old : IsInjective(old[b])
  /\ \A b, c \in DOMAIN old : b # c => ToSet(old[b]) \cap ToSet(old[c]) = {}

\* element_num never reaches the modulus at which it would wrap around.
NoWrap ==
  /\ 2 < NumMod /\ 2 * MaxBuckets < NumMod
  /\ \A size \in InitSizes : size <= MaxSize => 2 * RoundUp(size) < NumMod

\* What a resize has yet to move fits into the new table without another resize,
\* because the elements were no more than the counter said when it began.
CountInv ==
  /\ 2 * ht_size < NumMod
  /\ IsFiniteSet(InTable) /\ Cardinality(InTable) <= element_num
  /\ IsFiniteSet(InOld)
  /\ old # NoChains => element_num + Cardinality(InOld) <= ht_size
  /\ status = "insert" /\ old = NoChains => ~check_resize
  /\ element_num <= 2 * ht_size

\* The live nodes of the index are the elements of the chains, each once; the index
\* is begun anew by the first element that a resize moves.
LinkInv ==
  /\ \A p, q \in DOMAIN index : p <= q => HashAt(p) <= HashAt(q)
  /\ element_num # 0 \/ InOld = {} =>
       /\ {index[p].key : p \in Live} = InTable
       /\ \A p, q \in Live : index[p].key = index[q].key => p = q

=============================================================================
