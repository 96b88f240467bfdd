------------------------------ MODULE MCWagner ------------------------------
(***************************************************************************)
(* Instances of Wagner for TLC.                                            *)
(***************************************************************************)
EXTENDS Wagner

\* Two rounds over four leaves of three bits, each with any hash.
Digits(size) == [n |-> 3, k |-> 2, byte_bits |-> size,
                 leaf_hashes |-> [1..3 -> 0..1]]

\* Two rounds over eight leaves of six bits, their hashes being zero, one that
\* collides with zero in the first digit, or one that collides with no other.
Trees == [n |-> 6, k |-> 2, byte_bits |-> 2,
          leaf_hashes |-> {<<0, 0, 0, 0, 0, 0>>, <<0, 0, 0, 1, 1, 1>>,
                           <<1, 0, 0, 1, 0, 1>>}]

\* Digits of one bit in bytes of one and of three.
AllInstances == {Digits(1), Digits(3), Trees}
PartByteDigit == {Digits(3)}
=============================================================================
