--------------------------- MODULE ConsistentHash ---------------------------
(***************************************************************************)
(* What consistent hashing promises: every key has one owner among the     *)
(* members, a member that joins takes keys but moves none between the      *)
(* others, and a member that leaves gives up only its own.                 *)
(* HashRing implements it.                                                 *)
(***************************************************************************)
CONSTANTS Names, Values, None

VARIABLES members, owner

Init == members = {} /\ owner = [k \in Values |-> None]

Join(m) ==
    /\ members' = members \cup {m}
    /\ DOMAIN owner' = Values
    /\ \A k \in Values :
         \/ owner'[k] = m /\ m \notin members
         \/ owner'[k] = owner[k] /\ owner[k] \in members

Leave(m) ==
    /\ members' = members \ {m}
    /\ DOMAIN owner' = Values
    /\ \A k \in Values :
         IF owner[k] # m
           THEN owner'[k] = owner[k]
           ELSE owner'[k] \in IF members' = {} THEN {None} ELSE members'

Next == \E m \in Names : Join(m) \/ Leave(m)

Spec == Init /\ [][Next]_<<members, owner>>
=============================================================================
