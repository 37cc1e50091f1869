----------------------------- MODULE OrderedMap -----------------------------
(***************************************************************************)
(* What the map of dispatcher/hash/maps promises: a set of keys that grows *)
(* and shrinks one key at a time, and answers about it.                    *)
(***************************************************************************)
EXTENDS Integers

CONSTANTS Keys, None

VARIABLES keys, reply

Least(S)    == IF S = {} THEN None ELSE CHOOSE x \in S : \A y \in S : x <= y
Greatest(S) == IF S = {} THEN None ELSE CHOOSE x \in S : \A y \in S : x >= y

Answers(k) ==
    [ceiling |-> Least({x \in keys : x >= k}),
     floor   |-> Greatest({x \in keys : x <= k}),
     get     |-> Least(keys \cap {k}),
     first   |-> Least(keys),
     last    |-> Greatest(keys),
     next    |-> Least({x \in keys : x > k}),
     prev    |-> Greatest({x \in keys : x < k})]

Init == keys = {} /\ reply = None

Put(k)    == keys' = keys \cup {k} /\ UNCHANGED reply
Remove(k) == keys' = keys \ {k} /\ UNCHANGED reply
Clear     == keys' = {} /\ UNCHANGED reply

Answer(k) ==
    /\ \E op \in DOMAIN Answers(k) :
         reply' = [op |-> op, arg |-> k, key |-> Answers(k)[op]]
    /\ UNCHANGED keys

Forget == reply' = None /\ UNCHANGED keys

Next == Clear \/ Forget \/ \E k \in Keys : Put(k) \/ Remove(k) \/ Answer(k)

Spec == Init /\ [][Next]_<<keys, reply>>
=============================================================================
