---------------------------- MODULE HashRingProofs ----------------------------
(***************************************************************************)
(* Theorems about the hash ring, for every number of servers, points and   *)
(* hash values and for every hash function.                                *)
(***************************************************************************)
EXTENDS HashRing, WellFoundedInduction, TLAPS

-----------------------------------------------------------------------------
(* A non-empty set of hash values has a least element, and Least is it.    *)
LEMMA LeastIsLeast ==
    ASSUME NEW S, S \subseteq Values, S # {}
    PROVE  Least(S) \in S /\ \A w \in S : Least(S) <= w
<1>1. S \subseteq Nat
  BY RingOK DEF Values
<1> DEFINE Below == {p \in Nat \X Nat : p[1] < p[2]}
<1>2. Below = OpToRel(<, Nat)
  BY DEF OpToRel
<1>3. IsWellFoundedOn(Below, Nat)
  BY <1>2, NatLessThanWellFounded
<1>4. PICK x \in S : \A y \in S : ~ (<<y, x>> \in Below)
  <2> HIDE DEF Below
  <2> QED BY <1>1, <1>3, WFMin
<1>5. ASSUME NEW y \in S PROVE x <= y
  <2>1. x \in Nat /\ y \in Nat /\ <<y, x>> \notin Below
    BY <1>1, <1>4
  <2>2. <<y, x>> \in Nat \X Nat /\ <<y, x>>[1] = y /\ <<y, x>>[2] = x
    BY <2>1
  <2>3. ~ (y < x)
    BY <2>1, <2>2
  <2> QED BY <2>1, <2>3
<1> QED BY <1>5 DEF Least

(* How Distance orders the hash values before and after v.                 *)
LEMMA DistanceOrder ==
    ASSUME NEW v \in Values, NEW c \in Values, NEW w \in Values,
           c >= v \/ ~ (w >= v), c <= w \/ (~ (w >= v) /\ c >= v)
    PROVE  Distance(v, c) <= Distance(v, w)
  BY RingOK DEF Distance, Values

(* Clockwise is the nearest, and a hash value is told by its distance.     *)
LEMMA ClockwiseIsNearest ==
    ASSUME NEW S, S \subseteq Values, S # {}, NEW v \in Values
    PROVE  /\ Clockwise(S, v) \in S
           /\ \A w \in S : Distance(v, Clockwise(S, v)) <= Distance(v, w)
<1> DEFINE ceiling == {w \in S : w >= v}
<1>1. CASE ceiling # {}
  <2>1. Clockwise(S, v) = Least(ceiling)
    BY <1>1 DEF Clockwise
  <2>2. Least(ceiling) \in ceiling /\ \A w \in ceiling : Least(ceiling) <= w
    BY <1>1, LeastIsLeast
  <2>3. ASSUME NEW w \in S PROVE Distance(v, Least(ceiling)) <= Distance(v, w)
    <3> DEFINE c == Least(ceiling)
    <3>1. /\ c \in Values /\ w \in Values
          /\ c >= v \/ ~ (w >= v)
          /\ c <= w \/ (~ (w >= v) /\ c >= v)
      BY <2>2
    <3> HIDE DEF c
    <3>2. Distance(v, c) <= Distance(v, w)
      BY <3>1, DistanceOrder
    <3> QED BY <3>2 DEF c
  <2> QED BY <2>1, <2>2, <2>3
<1>2. CASE ceiling = {}
  <2>1. Clockwise(S, v) = Least(S)
    BY <1>2 DEF Clockwise
  <2>2. Least(S) \in S /\ \A w \in S : Least(S) <= w
    BY LeastIsLeast
  <2>3. ASSUME NEW w \in S PROVE Distance(v, Least(S)) <= Distance(v, w)
    <3> DEFINE c == Least(S)
    <3>1. /\ c \in Values /\ w \in Values
          /\ c >= v \/ ~ (w >= v)
          /\ c <= w \/ (~ (w >= v) /\ c >= v)
      BY <1>2, <2>2
    <3> HIDE DEF c
    <3>2. Distance(v, c) <= Distance(v, w)
      BY <3>1, DistanceOrder
    <3> QED BY <3>2 DEF c
  <2> QED BY <2>1, <2>2, <2>3
<1> QED BY <1>1, <1>2

LEMMA DistanceTells ==
    ASSUME NEW v \in Values, NEW w \in Values, NEW x \in Values,
           Distance(v, w) <= Distance(v, x), Distance(v, x) <= Distance(v, w)
    PROVE  w = x
  BY RingOK DEF Distance, Values

(* What is nearest in a set is nearest in every part of it that holds it.  *)
LEMMA NearestInPart ==
    ASSUME NEW S, S \subseteq Values, NEW T, T \subseteq S, NEW v \in Values,
           S # {}, Clockwise(S, v) \in T
    PROVE  Clockwise(T, v) = Clockwise(S, v)
<1>1. /\ Clockwise(T, v) \in T
      /\ Distance(v, Clockwise(T, v)) <= Distance(v, Clockwise(S, v))
  BY ClockwiseIsNearest
<1>2. Distance(v, Clockwise(S, v)) <= Distance(v, Clockwise(T, v))
  BY <1>1, ClockwiseIsNearest
<1> QED BY <1>1, <1>2, DistanceTells

-----------------------------------------------------------------------------
(* The three maps keep together, whatever collides. *)
RingInv == TypeOK /\ Consistent

LEMMA PointsAreValues ==
    ASSUME TypeOK, NEW m \in Names
    PROVE  Points(m) \subseteq Values /\ Points(m) # {}
<1>1. 0 \in Index BY RingOK DEF Index
<1>2. hash[m] \in [Index -> Values] BY DEF TypeOK
<1>3. hash[m][0] \in Points(m) BY <1>1 DEF Points
<1>4. Points(m) \subseteq Values BY <1>2 DEF Points
<1> QED BY <1>3, <1>4

LEMMA RingStep == ASSUME RingInv, [Next]_vars PROVE RingInv'
<1> USE DEF RingInv, TypeOK, Consistent
<1>1. ASSUME NEW m \in Names, Add(m) PROVE RingInv'
  <2>1. Points(m) \subseteq Values BY PointsAreValues
  <2>2. \A n : Points(n)' = Points(n) BY <1>1 DEF Add, Points
  <2>3. TypeOK' BY <1>1, <2>1 DEF Add
  <2> QED BY <1>1, <2>1, <2>2, <2>3, RingOK DEF Add
<1>2. ASSUME NEW m \in Names, Remove(m) PROVE RingInv'
  <2>1. Points(m) \subseteq Values BY PointsAreValues
  <2>2. \A n : Points(n)' = Points(n) BY <1>2 DEF Remove, Points
  <2>3. TypeOK' BY <1>2, <2>1 DEF Remove
  <2> QED BY <1>2, <2>1, <2>2, <2>3, RingOK DEF Remove
<1>3. CASE UNCHANGED vars
  BY <1>3 DEF vars, Points
<1> QED BY <1>1, <1>2, <1>3 DEF Next

LEMMA RingRoutes == ASSUME RingInv PROVE RoutesToMember
<1>1. ASSUME NEW v \in Values, keys # {} PROVE Get(v) \in members
  <2>1. Clockwise(keys, v) \in keys
    BY <1>1, ClockwiseIsNearest DEF RingInv, TypeOK
  <2> QED BY <1>1, <2>1 DEF Get, RingInv, Consistent
<1> QED BY <1>1 DEF RoutesToMember, Get

(* Get leads to a present server or reports an empty ring, for every hash  *)
(* function and every sequence of additions and removals.                  *)
THEOREM RingRoutesToMembers == Spec => [](Consistent /\ RoutesToMember)
<1>1. Init => RingInv BY RingOK DEF Init, RingInv, TypeOK, Consistent
<1>2. RingInv /\ [Next]_vars => RingInv' BY RingStep
<1>3. RingInv => Consistent /\ RoutesToMember BY RingRoutes DEF RingInv
<1> QED BY <1>1, <1>2, <1>3, PTL DEF Spec

(* The two maps of the ring keep together, and every point of it belongs to *)
(* a present server that has it, through every sequence of additions and   *)
(* removals, whatever collides.                                            *)
THEOREM RingConsistent == Spec => []Consistent
BY RingRoutesToMembers, PTL

-----------------------------------------------------------------------------
(* Without collisions nobody takes over or removes the point of another,   *)
(* so a member keeps all of its points.                                    *)
Complete == \A m \in members : \A v \in Points(m) : ring[v] = m

DistinctInv == RingInv /\ (NoCollision => Complete)

(* The hash function stays as it is, and so do the points of every member. *)
LEMMA HashStays ==
    ASSUME [Next]_vars
    PROVE  (NoCollision' <=> NoCollision) /\ \A n : Points(n)' = Points(n)
<1>1. hash' = hash BY DEF Next, Add, Remove, vars
<1> QED BY <1>1 DEF NoCollision, Points

LEMMA PointsAreDisjoint ==
    ASSUME NoCollision, NEW m \in Names, NEW n \in Names,
           NEW v, v \in Points(m), v \in Points(n)
    PROVE  m = n
  BY DEF NoCollision, Points

LEMMA DistinctStep == ASSUME DistinctInv, [Next]_vars PROVE DistinctInv'
<1>1. RingInv' BY RingStep DEF DistinctInv
<1>2. /\ NoCollision' <=> NoCollision
      /\ \A n : Points(n)' = Points(n)
  BY HashStays
<1>3. SUFFICES ASSUME NoCollision PROVE Complete'
  BY <1>1, <1>2 DEF DistinctInv
<1>4. RingInv /\ Complete BY <1>3 DEF DistinctInv
<1> USE DEF RingInv, TypeOK
<1>5. ASSUME NEW m \in Names, Add(m) PROVE Complete'
  <2>1. ASSUME NEW n \in members', NEW v \in Points(n) PROVE ring'[v] = n
    <3>1. n \in Names BY <1>4, <1>5 DEF Add
    <3>2. v \in Values BY <1>4, <2>1, <3>1, PointsAreValues
    <3>3. CASE v \in Points(m)
      BY <1>3, <1>5, <2>1, <3>1, <3>2, <3>3, PointsAreDisjoint DEF Add
    <3>4. CASE v \notin Points(m)
      BY <1>4, <1>5, <2>1, <3>2, <3>4 DEF Add, Complete
    <3> QED BY <3>3, <3>4
  <2> QED BY <1>2, <2>1 DEF Complete
<1>6. ASSUME NEW m \in Names, Remove(m) PROVE Complete'
  <2>1. ASSUME NEW n \in members', NEW v \in Points(n) PROVE ring'[v] = n
    <3>1. n \in members /\ n # m /\ n \in Names BY <1>4, <1>6 DEF Remove
    <3>2. v \in Values BY <1>4, <2>1, <3>1, PointsAreValues
    <3>3. v \notin Points(m) BY <1>3, <2>1, <3>1, PointsAreDisjoint
    <3> QED BY <1>4, <1>6, <2>1, <3>1, <3>2, <3>3 DEF Remove, Complete
  <2> QED BY <1>2, <2>1 DEF Complete
<1>7. ASSUME UNCHANGED vars PROVE Complete'
  BY <1>2, <1>4, <1>7 DEF vars, Complete
<1> QED BY <1>5, <1>6, <1>7 DEF Next

LEMMA DistinctInit == Init => DistinctInv
  BY RingOK DEF Init, DistinctInv, RingInv, TypeOK, Consistent, Complete

LEMMA RoutesByMembers == ASSUME DistinctInv PROVE ByMembersAlone
<1> USE DEF DistinctInv, RingInv, TypeOK, Consistent, Complete
<1> SUFFICES ASSUME NoCollision, NEW v \in Values, NEW m \in members, NEW i \in Index,
                    \A n \in members : \A j \in Index :
                       Distance(v, hash[m][i]) <= Distance(v, hash[n][j])
             PROVE  Get(v) = m
  BY DEF ByMembersAlone
<1> DEFINE p == hash[m][i]
           c == Clockwise(keys, v)
<1>1. p \in Points(m) /\ p \in Values /\ ring[p] = m /\ p \in keys
  BY PointsAreValues, RingOK DEF Points
<1>2. c \in keys /\ c \in Values /\ Distance(v, c) <= Distance(v, p)
  BY <1>1, ClockwiseIsNearest
<1>3. PICK j \in Index : ring[c] \in members /\ c = hash[ring[c]][j]
  <2>1. ring[c] \in members /\ c \in Points(ring[c])
    <3> HIDE DEF c
    <3> QED BY <1>2
  <2> QED BY <2>1 DEF Points
<1>4. Distance(v, p) <= Distance(v, c)
  BY <1>3
<1>5. p = c
  <2> HIDE DEF p, c
  <2> QED BY <1>1, <1>2, <1>4, DistanceTells
<1> QED BY <1>1, <1>5 DEF Get

(* Without collisions the server a name is routed to depends on the set of *)
(* servers alone, so gates that know the same servers route alike.         *)
THEOREM RoutesByMembersAlone == Spec => []ByMembersAlone
<1>1. Init => DistinctInv BY DistinctInit
<1>2. DistinctInv /\ [Next]_vars => DistinctInv' BY DistinctStep
<1>3. DistinctInv => ByMembersAlone BY RoutesByMembers
<1> QED BY <1>1, <1>2, <1>3, PTL DEF Spec

-----------------------------------------------------------------------------
(* A member that joins takes over the keys it is the nearest to by now.    *)
LEMMA AddJoins ==
    ASSUME DistinctInv, NoCollision, NEW m \in Names, Add(m)
    PROVE  Abstract!Join(m)
<1> USE DEF DistinctInv, RingInv, TypeOK, Consistent, Complete
<1>1. keys' = keys \cup Points(m) /\ keys' \subseteq Values /\ keys' # {}
  BY PointsAreValues DEF Add
<1>2. ASSUME NEW v \in Values
      PROVE \/ Get(v)' = m /\ m \notin members
            \/ Get(v)' = Get(v) /\ Get(v) \in members
  <2> DEFINE c == Clockwise(keys', v)
  <2>1. c \in keys' /\ c \in Values /\ Get(v)' = ring'[c]
    <3>1. c \in keys' BY <1>1, ClockwiseIsNearest
    <3> QED BY <1>1, <3>1 DEF Get, Clockwise
  <2>2. ring'[c] = IF c \in Points(m) THEN m ELSE ring[c]
    <3> HIDE DEF c
    <3> QED BY <2>1 DEF Add
  <2>3. CASE c \in keys
    <3>1. Clockwise(keys, v) = c
      <4>1. keys \subseteq keys' /\ Clockwise(keys', v) \in keys BY <1>1, <2>3
      <4> HIDE DEF DistinctInv, Consistent
      <4> QED BY <1>1, <4>1, NearestInPart
    <3>2. Get(v) = ring[c] /\ ring[c] \in members BY <2>3, <3>1 DEF Get
    <3>3. m \in members /\ c \in Points(m) => ring[c] = m OBVIOUS
    <3> HIDE DEF c
    <3> QED BY <2>1, <2>2, <3>2, <3>3
  <2>4. CASE c \notin keys
    <3>1. c \in Points(m) BY <1>1, <2>1, <2>4
    <3>2. m \notin members
      <4>1. m \in members => ring[c] = m BY <3>1
      <4> HIDE DEF c
      <4> QED BY <2>1, <2>4, <4>1, RingOK
    <3> HIDE DEF c
    <3> QED BY <2>1, <2>2, <3>1, <3>2
  <2> QED BY <2>3, <2>4
<1>3. NoCollision' BY HashStays DEF Next
<1> QED BY <1>2, <1>3 DEF Add, Abstract!Join, Joined, Owner

(* A server that leaves gives its keys to the members that are left, and   *)
(* no other key moves.                                                     *)
LEMMA RemoveLeaves ==
    ASSUME DistinctInv, NoCollision, NEW m \in Names, Remove(m)
    PROVE  Abstract!Leave(m)
<1> USE DEF DistinctInv, RingInv, TypeOK, Consistent, Complete
<1>1. keys' = keys \ Points(m) /\ members' = members \ {m}
  BY DEF Remove
<1>2. ASSUME NEW v \in Points(m) PROVE v \notin keys \/ ring[v] = m
  BY PointsAreDisjoint
<1>3. ASSUME NEW v \in Values, keys' # {}
      PROVE  Get(v)' = ring[Clockwise(keys', v)] /\ Get(v)' \in members'
  <2> DEFINE c == Clockwise(keys', v)
  <2>1. c \in keys' BY <1>1, <1>3, ClockwiseIsNearest
  <2>2. Get(v)' = ring'[c] BY <1>3 DEF Get, Clockwise
  <2> HIDE DEF c
  <2>3. ring'[c] = ring[c] /\ c \in keys /\ c \notin Points(m)
    BY <1>1, <2>1 DEF Remove
  <2>4. ring[c] \in members /\ ring[c] # m
    BY <2>3
  <2> QED BY <1>1, <2>2, <2>3, <2>4 DEF c
<1>4. keys' = {} => members' = {}
  <2>1. ASSUME NEW n \in members' PROVE keys' # {}
    <3>1. n \in members /\ n # m BY <1>1
    <3>2. PICK v \in Points(n) : TRUE BY <3>1, PointsAreValues
    <3>3. v \in Values /\ ring[v] = n /\ v \notin Points(m)
      BY <3>1, <3>2, PointsAreValues, PointsAreDisjoint
    <3> QED BY <1>1, <3>1, <3>3, RingOK
  <2> QED BY <2>1
<1>5. ASSUME NEW v \in Values, Get(v) # m PROVE Get(v)' = Get(v)
  <2>1. CASE keys = {}
    BY <1>1, <2>1 DEF Get
  <2>2. CASE keys # {}
    <3> DEFINE c == Clockwise(keys, v)
    <3>1. c \in keys /\ Get(v) = ring[c] BY <2>2, ClockwiseIsNearest DEF Get
    <3>2. c \in keys'
      <4> HIDE DEF c
      <4> QED BY <1>1, <1>2, <1>5, <3>1
    <3>3. Clockwise(keys', v) = c BY <1>1, <2>2, <3>2, NearestInPart
    <3>4. Get(v)' = ring[c]
      <4> HIDE DEF c
      <4> QED BY <1>3, <3>2, <3>3
    <3> QED BY <3>1, <3>4
  <2> QED BY <2>1, <2>2
<1>6. ASSUME NEW v \in Values
      PROVE  Get(v)' \in IF members' = {} THEN {None} ELSE members'
  <2>1. CASE keys' # {} BY <1>3, <2>1
  <2>2. CASE keys' = {} BY <1>4, <2>2 DEF Get
  <2> QED BY <2>1, <2>2
<1>7. NoCollision' BY HashStays DEF Next
<1> QED BY <1>1, <1>5, <1>6, <1>7 DEF Abstract!Leave, Joined, Owner

(* Without collisions the ring is a consistent hash: a server that comes   *)
(* or goes moves no key but those it takes or gives up.                    *)
THEOREM RingIsConsistentHash == Spec => ConsistentHashSpec
<1>1. Init => DistinctInv BY DistinctInit
<1>2. DistinctInv /\ [Next]_vars => DistinctInv' BY DistinctStep
<1>3. Init => Abstract!Init BY DEF Init, Get, Joined, Owner, Abstract!Init
<1>4. ASSUME DistinctInv, [Next]_vars
      PROVE  [Abstract!Next]_<<Joined, Owner>>
  <2>1. CASE UNCHANGED vars
    BY <2>1 DEF vars, Get, Clockwise, Joined, Owner, NoCollision
  <2>2. CASE ~ NoCollision
    BY <1>4, <2>2, HashStays DEF Joined, Owner
  <2>3. ASSUME NoCollision, NEW m \in Names, Add(m) \/ Remove(m) PROVE Abstract!Next
    BY <1>4, <2>3, AddJoins, RemoveLeaves DEF Abstract!Next
  <2> QED BY <1>4, <2>1, <2>2, <2>3 DEF Next
<1> QED BY <1>1, <1>2, <1>3, <1>4, PTL DEF Spec, ConsistentHashSpec, Abstract!Spec
=============================================================================
