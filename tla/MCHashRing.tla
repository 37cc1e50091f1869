----------------------------- MODULE MCHashRing -----------------------------
(* Instances of HashRing for TLC. *)
EXTENDS HashRing, TLC

\* Init allows every hash function, so members are interchangeable.
Symmetric == Permutations(Names)
=============================================================================
