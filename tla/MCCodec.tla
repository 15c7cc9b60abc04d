------------------------------ MODULE MCCodec ------------------------------
(* Instances of Codec for TLC. *)
EXTENDS Codec

\* Every number of eight bytes, for bytes of three values: 0, 1 and all ones.
EightBytes == 0..(Base^8 - 1)

=============================================================================
