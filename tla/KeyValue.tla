------------------------------ MODULE KeyValue ------------------------------
(***************************************************************************)
(* What a hash table promises its user: a value for every key put into it, *)
(* and a list of its keys in the order of their hash values.               *)
(***************************************************************************)
EXTENDS Integers, FiniteSets, SequencesExt

CONSTANTS Keys, Vals, Null, Hash

VARIABLES
  store,   \* the value of each key, Null for a key that is not there
  answer   \* the result of the last operation

Present == {k \in Keys : store[k] # Null}

Init == store = [k \in Keys |-> Null] /\ answer = [op |-> "init"]

Put == \E k \in Keys, v \in Vals :
  /\ store' = [store EXCEPT ![k] = v]
  /\ answer' = [op |-> "put"]

Get == \E k \in Keys :
  /\ answer' = [op |-> "get", key |-> k, value |-> store[k]]
  /\ UNCHANGED store

All ==
  /\ answer' = [op |-> "all", keys |-> Present]
  /\ UNCHANGED store

List ==
  /\ answer'.op = "list"
  /\ Len(answer'.keys) = Cardinality(Present)
  /\ ToSet(answer'.keys) = Present
  /\ \A i, j \in DOMAIN answer'.keys :
       i <= j => Hash[answer'.keys[i]] <= Hash[answer'.keys[j]]
  /\ UNCHANGED store

Next == Put \/ Get \/ All \/ List

Spec == Init /\ [][Next]_<<store, answer>>

=============================================================================
