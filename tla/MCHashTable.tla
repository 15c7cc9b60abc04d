---------------------------- MODULE MCHashTable ----------------------------
(* Instances of HashTable for TLC. *)
EXTENDS HashTable

\* hermes_hash_table_key_hash: the sum of the characters.
key_hash(key) == FoldLeft(+, 0, key)

\* Short keys, as sequences of character codes: anagrams have the same hash
\* value, others collide only modulo the size of the table.
Keys3 == {<<1, 2>>, <<2, 1>>, <<5>>}
Keys4 == Keys3 \cup {<<4>>}

Hash3 == [k \in Keys3 |-> key_hash(k)]
Hash4 == [k \in Keys4 |-> key_hash(k)]

=============================================================================
