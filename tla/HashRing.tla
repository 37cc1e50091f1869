------------------------------ MODULE HashRing ------------------------------
(***************************************************************************)
(* The consistent-hash ring over the servers of one type:                  *)
(* dispatcher/hash/hash_ring.go, with the ordered map of                   *)
(* dispatcher/hash/maps as the set of its keys.                            *)
(*                                                                         *)
(* Every operation runs under the lock of the ring, so it is one step.     *)
(* CRC-32 is a function chosen once and for all in Init; nothing is known  *)
(* of it but that it is a function, so two of the points of the servers    *)
(* may fall on the same value.                                             *)
(***************************************************************************)
EXTENDS Integers

CONSTANTS
    Names,      \* the members that may join
    None,       \* no member: ErrEmptyRing
    Rep,        \* rRep, the points of a member (Options.DisRep, 5 by default)
    Size        \* the number of hash values, 2^32 in the code

ASSUME RingOK ==
    /\ None \notin Names
    /\ Rep \in Nat \ {0} /\ Size \in Nat \ {0}

Values == 0 .. Size - 1
Index  == 0 .. Rep - 1

VARIABLES
    hash,     \* hashKey of eltKey, never changed
    ring,     \* m_RingMap
    keys,     \* the keys of m_SortedKeys
    members   \* the keys of m_MemberMap

vars == <<hash, ring, keys, members>>

\* NewHashRing.
Init ==
    /\ hash \in [Names -> [Index -> Values]]
    /\ ring = [v \in Values |-> None]
    /\ keys = {}
    /\ members = {}

Points(m) == {hash[m][i] : i \in Index}

\* A point that is taken is taken over.
Add(m) ==
    /\ ring' = [v \in Values |-> IF v \in Points(m) THEN m ELSE ring[v]]
    /\ keys' = keys \cup Points(m)
    /\ members' = members \cup {m}
    /\ UNCHANGED hash

\* Mistake: the loop over the points ends one too early.
RemoveButLast(m) ==
    LET gone == {hash[m][i] : i \in 0 .. Rep - 2} IN
    /\ ring' = [v \in Values |-> IF v \in gone THEN None ELSE ring[v]]
    /\ keys' = keys \ gone
    /\ members' = members \ {m}
    /\ UNCHANGED hash

\* The points go, whoever holds them by now, and whether m is a member or not.
Remove(m) ==
    /\ ring' = [v \in Values |-> IF v \in Points(m) THEN None ELSE ring[v]]
    /\ keys' = keys \ Points(m)
    /\ members' = members \ {m}
    /\ UNCHANGED hash

\* maps.Ceiling, and Iterator().First when there is none: the next of a set
\* of hash values from v on, clockwise.
Least(S) == CHOOSE v \in S : \A w \in S : v <= w
\* Mistake: a point that is hit exactly is passed over.
HigherClockwise(S, v) ==
    LET higher == {w \in S : w > v} IN Least(IF higher # {} THEN higher ELSE S)

Clockwise(S, v) ==
    LET ceiling == {w \in S : w >= v} IN Least(IF ceiling # {} THEN ceiling ELSE S)

\* Mistake: no way around from the last point to the first.
GetUnclosed(v) == IF {w \in keys : w >= v} = {} THEN None ELSE ring[Clockwise(keys, v)]

\* Get, from the hash value of the name it is asked for.
Get(v) == IF keys = {} THEN None ELSE ring[Clockwise(keys, v)]

Next == \E m \in Names : Add(m) \/ Remove(m)

Spec == Init /\ [][Next]_vars

-----------------------------------------------------------------------------
(* Properties. *)

\* The three maps keep together through every sequence of additions and
\* removals, colliding points included: the sorted keys are those of the ring
\* map, and what the ring map holds at a point is a present member with that
\* point.
Consistent ==
    /\ keys = {v \in Values : ring[v] # None}
    /\ \A v \in keys : ring[v] \in members /\ v \in Points(ring[v])

\* Every variable holds a value of its type.
TypeOK ==
    /\ hash \in [Names -> [Index -> Values]]
    /\ ring \in [Values -> Names \cup {None}]
    /\ keys \subseteq Values /\ members \subseteq Names

\* Get never leads to a server that has been removed.  Consistent implies it.
RoutesToMember == \A v \in Values : Get(v) \in members \cup {None}

\* No two points of the servers have one hash value.
NoCollision ==
    \A m, n \in Names : \A i, j \in Index : hash[m][i] = hash[n][j] => m = n /\ i = j

\* How far w is from v, clockwise.
Distance(v, w) == IF w >= v THEN w - v ELSE w - v + Size

\* Without collisions, where a name is routed depends on the servers present
\* and not on the order they came and went in: it is the one whose point is
\* the first from the name's hash value on, around the ring.  Two gates that
\* know the same servers route alike.
ByMembersAlone ==
    NoCollision =>
        \A v \in Values : \A m \in members :
            (\E i \in Index : \A n \in members : \A j \in Index :
                Distance(v, hash[m][i]) <= Distance(v, hash[n][j]))
            => Get(v) = m

\* What is mapped to a consistent hash: the ring if no points collide, else
\* (about which nothing is said) an empty one.
Joined == IF NoCollision THEN members ELSE {}
Owner  == [v \in Values |-> IF NoCollision THEN Get(v) ELSE None]

Abstract == INSTANCE ConsistentHash WITH members <- Joined, owner <- Owner

\* Without collisions the ring is a consistent hash: a server that comes or
\* goes moves no name but those it takes or gives up.
ConsistentHashSpec == Abstract!Spec
=============================================================================
