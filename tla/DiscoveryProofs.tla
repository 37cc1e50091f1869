--------------------------- MODULE DiscoveryProofs ---------------------------
(***************************************************************************)
(* Theorems about routing while servers come and go, for every set of      *)
(* servers and every fault the model knows.                                *)
(***************************************************************************)
EXTENDS Discovery, FiniteSetTheorems, TLAPS

(* RingWithinProxies rests on the order of the accesses: CreateProxy has   *)
(* stored the proxy when it adds to the ring, DelProxy has left the ring   *)
(* when it deletes the proxy.  A server in the ring throughout a call of   *)
(* RouteById is in the ring.                                               *)
Stored  == dpc = "ring" => ev \in proxies
Unrung  == dpc = "delete" => ev \notin ring
Present == seen \subseteq ring

RoutesInv == RingWithinProxies /\ Stored /\ Unrung /\ Present /\ NilForReason

(* A step of the dispatcher keeps the invariant. *)
LEMMA RoutesDispatcher == ASSUME RoutesInv, Dispatcher PROVE RoutesInv'
<1> USE DEF RoutesInv, RingWithinProxies, Stored, Unrung, Present, NilForReason,
            etcdVars, serverVars, serviceVars, routeVars, At, Goes
<1>1. CASE AddProxyCount BY <1>1 DEF AddProxyCount
<1>2. CASE AddProxyStore BY <1>2 DEF AddProxyStore
<1>3. CASE CreateProxyRing BY <1>3 DEF CreateProxyRing
<1>4. CASE DelProxyRing BY <1>4 DEF DelProxyRing
<1>5. CASE DelProxyDelete BY <1>5 DEF DelProxyDelete
<1>6. CASE DelProxyCount BY <1>6 DEF DelProxyCount
<1>7. CASE ConnectAll \/ Connected \/ Watch BY <1>7 DEF ConnectAll, Connected, Watch
<1>8. CASE WatchEvent BY <1>8 DEF WatchEvent, AddService, RemoveService
<1>9. ASSUME NEW s \in Servers, ConnectAdd(s) PROVE RoutesInv'
  BY <1>9 DEF ConnectAdd, AddService
<1> QED BY <1>1, <1>2, <1>3, <1>4, <1>5, <1>6, <1>7, <1>8, <1>9 DEF Dispatcher

(* So does a step of a caller of RouteById. *)
LEMMA RoutesRoute == ASSUME RoutesInv, Route PROVE RoutesInv'
<1> USE DEF RoutesInv, RingWithinProxies, Stored, Unrung, Present, NilForReason,
            etcdVars, serverVars, serviceVars, dispVars
<1>1. CASE RouteCall BY <1>1 DEF RouteCall
<1>2. CASE RouteCount BY <1>2 DEF RouteCount
<1>3. CASE RouteRing BY <1>3 DEF RouteRing
<1>4. CASE RouteProxy BY <1>4 DEF RouteProxy
<1>5. CASE RouteReturns BY <1>5 DEF RouteReturns
<1> QED BY <1>1, <1>2, <1>3, <1>4, <1>5 DEF Route

(* And every other step, which changes none of the variables it is about.  *)
LEMMA RoutesNext == ASSUME RoutesInv, [Next]_vars PROVE RoutesInv'
<1> DEFINE Same == UNCHANGED <<serviceVars, dpc, ev, routeVars, seen>>
<1>1. Same => RoutesInv'
  BY DEF RoutesInv, RingWithinProxies, Stored, Unrung, Present, NilForReason,
         serviceVars, routeVars
<1>2. CASE WatchEnds \/ Clear \/ UNCHANGED vars
  BY <1>1, <1>2 DEF WatchEnds, Clear, vars, dispVars
<1>3. ASSUME NEW s \in Servers,
             Start(s) \/ TickFires(s) \/ Server(s) \/ Shutdown(s) \/ Exits(s)
      PROVE  RoutesInv'
  BY <1>1, <1>3
  DEF Start, TickFires, Server, TickPut, TickEnds, Deregister, Shutdown, Exits, dispVars
<1> QED BY <1>2, <1>3, RoutesDispatcher, RoutesRoute DEF Next

(* The server the ring answers with has a proxy at that moment, in every   *)
(* state between the accesses of addService and removeService, and         *)
(* RouteById misses it only if it is removed before the call returns.      *)
THEOREM RingHasProxies == Safety => [](RingWithinProxies /\ NilForReason)
<1>1. Init => RoutesInv
  BY DEF Init, RoutesInv, RingWithinProxies, Stored, Unrung, Present, NilForReason
<1>2. RoutesInv /\ [Next]_vars => RoutesInv' BY RoutesNext
<1>3. RoutesInv => RingWithinProxies /\ NilForReason BY DEF RoutesInv
<1> QED BY <1>1, <1>2, <1>3, PTL DEF Safety

-----------------------------------------------------------------------------
\* Whether s will be in the view when the events of q have been handled, if
\* K is the view now; and whether every DELETE of s in q finds s there.
NoEvent(q, s)    == \A i \in 1..Len(q) : q[i].key # s
LastPut(q, s)    == \E i \in 1..Len(q) : /\ q[i].key = s /\ q[i].type = "PUT"
                                         /\ \A j \in 1..Len(q) : q[j].key = s => j <= i
Ahead(q, s, K)   == (NoEvent(q, s) /\ s \in K) \/ LastPut(q, s)
FindsKey(q, s, K) == \A i \in 1..Len(q) : q[i].key = s /\ q[i].type = "DELETE" =>
    \/ s \in K /\ \A j \in 1..Len(q) : q[j].key = s => i <= j
    \/ \E j \in 1..Len(q) : /\ j < i /\ q[j].key = s /\ q[j].type = "PUT"
                            /\ \A k \in 1..Len(q) : q[k].key = s => k <= j \/ i <= k

(* An event that comes, and what it does to the answers for each key. *)
LEMMA QueueAppend ==
    ASSUME NEW q \in Seq(KeyEvents), NEW e \in KeyEvents, NEW s, NEW K
    PROVE  /\ Append(q, e) \in Seq(KeyEvents)
           /\ e.key # s => (Ahead(Append(q, e), s, K) <=> Ahead(q, s, K))
           /\ e.key = s => (Ahead(Append(q, e), s, K) <=> e.type = "PUT")
           /\ FindsKey(q, s, K) /\ (e.key = s /\ e.type = "DELETE" => Ahead(q, s, K))
                => FindsKey(Append(q, e), s, K)
<1> DEFINE n == Len(q)
           p == Append(q, e)
<1>1. /\ n \in Nat /\ p \in Seq(KeyEvents) /\ Len(p) = n + 1 /\ p[n + 1] = e
      /\ \A i \in 1..n : p[i] = q[i]
  OBVIOUS
<1>2. \A i \in 1..Len(p) : i = n + 1 \/ i \in 1..n BY <1>1
<1>3. 1..n \subseteq 1..Len(p) /\ n + 1 \in 1..Len(p) /\ \A i \in 1..n : i < n + 1 BY <1>1
<1> HIDE DEF n, p
<1>4. ASSUME e.key # s
      PROVE  (NoEvent(p, s) <=> NoEvent(q, s)) /\ (LastPut(p, s) <=> LastPut(q, s))
  BY <1>1, <1>2, <1>3, <1>4 DEF NoEvent, LastPut, n
<1>5. ASSUME e.key = s PROVE ~NoEvent(p, s) /\ (LastPut(p, s) <=> e.type = "PUT")
  BY <1>1, <1>2, <1>3, <1>5 DEF NoEvent, LastPut
<1>6. ASSUME FindsKey(q, s, K), e.key = s /\ e.type = "DELETE" => Ahead(q, s, K)
      PROVE  FindsKey(p, s, K)
  <2>1. SUFFICES ASSUME NEW i \in 1..Len(p), p[i].key = s, p[i].type = "DELETE"
                 PROVE  \/ s \in K /\ \A j \in 1..Len(p) : p[j].key = s => i <= j
                        \/ \E j \in 1..Len(p) : /\ j < i /\ p[j].key = s /\ p[j].type = "PUT"
                                                /\ \A k \in 1..Len(p) : p[k].key = s => k <= j \/ i <= k
    BY DEF FindsKey
  <2>2. CASE i \in 1..n
    <3>1. \/ s \in K /\ \A j \in 1..n : q[j].key = s => i <= j
          \/ \E j \in 1..n : /\ j < i /\ q[j].key = s /\ q[j].type = "PUT"
                             /\ \A k \in 1..n : q[k].key = s => k <= j \/ i <= k
      BY <1>1, <1>6, <2>1, <2>2 DEF FindsKey, n
    <3>2. \A j \in 1..n : j \in 1..Len(p) /\ p[j] = q[j] /\ j < n + 1 BY <1>1, <1>3
    <3>3. i < n + 1 /\ i <= n + 1 BY <1>3, <2>2
    <3>4. CASE s \in K /\ \A j \in 1..n : q[j].key = s => i <= j
      <4>1. \A j \in 1..Len(p) : p[j].key = s => i <= j BY <1>2, <3>2, <3>3, <3>4
      <4> QED BY <3>4, <4>1
    <3>5. CASE \E j \in 1..n : /\ j < i /\ q[j].key = s /\ q[j].type = "PUT"
                               /\ \A k \in 1..n : q[k].key = s => k <= j \/ i <= k
      <4>1. PICK j \in 1..n : /\ j < i /\ q[j].key = s /\ q[j].type = "PUT"
                              /\ \A k \in 1..n : q[k].key = s => k <= j \/ i <= k
        BY <3>5
      <4>2. \A k \in 1..Len(p) : p[k].key = s => k <= j \/ i <= k BY <1>2, <3>2, <3>3, <4>1
      <4> QED BY <3>2, <4>1, <4>2
    <3> QED BY <3>1, <3>4, <3>5
  <2>3. CASE i = n + 1
    <3>1. Ahead(q, s, K) BY <1>1, <1>6, <2>1, <2>3
    <3>2. CASE NoEvent(q, s) /\ s \in K
      BY <1>1, <1>2, <2>3, <3>2 DEF NoEvent, n
    <3>3. CASE LastPut(q, s)
      <4>1. PICK j \in 1..n : q[j].key = s /\ q[j].type = "PUT" /\ \A k \in 1..n : q[k].key = s => k <= j
        BY <3>3 DEF LastPut, n
      <4>2. /\ j \in 1..Len(p) /\ j < i /\ p[j].key = s /\ p[j].type = "PUT"
            /\ \A k \in 1..Len(p) : p[k].key = s => k <= j \/ i <= k
        BY <1>1, <1>2, <1>3, <2>3, <4>1
      <4> QED BY <4>2
    <3> QED BY <3>1, <3>2, <3>3 DEF Ahead
  <2> QED BY <1>2, <2>2, <2>3
<1> QED BY <1>1, <1>4, <1>5, <1>6 DEF Ahead, p

(* An event that has been handled: L is the view after it.                 *)
LEMMA QueueTail ==
    ASSUME NEW q \in Seq(KeyEvents), q # <<>>, NEW s, NEW K, NEW L,
           IF Head(q).key = s THEN s \in L <=> Head(q).type = "PUT" ELSE s \in L <=> s \in K
    PROVE  /\ Tail(q) \in Seq(KeyEvents)
           /\ Ahead(Tail(q), s, L) <=> Ahead(q, s, K)
           /\ FindsKey(q, s, K) => FindsKey(Tail(q), s, L)
           /\ FindsKey(q, s, K) /\ Head(q).key = s /\ Head(q).type = "DELETE" => s \in K
<1> DEFINE n == Len(q)
           p == Tail(q)
<1>1. /\ n \in Nat /\ n >= 1 /\ 1 \in 1..n /\ Head(q) = q[1]
      /\ p \in Seq(KeyEvents) /\ Len(p) = n - 1
      /\ \A i \in 1..Len(p) : i + 1 \in 1..n /\ p[i] = q[i + 1]
      /\ q[1].type \in {"PUT", "DELETE"}
  <2>1. n \in Nat /\ n >= 1 /\ Head(q) = q[1] /\ p \in Seq(KeyEvents) /\ Len(p) = n - 1 OBVIOUS
  <2>2. \A i \in 1..Len(p) : i + 1 \in 1..n BY <2>1
  <2>3. \A i \in 1..Len(p) : p[i] = q[i + 1] OBVIOUS
  <2>4. 1 \in 1..n BY <2>1
  <2>5. q[1].type \in {"PUT", "DELETE"} 
    <3>1. q[1] \in KeyEvents BY <2>4
    <3> QED BY <3>1 DEF KeyEvents
  <2> QED BY <2>1, <2>2, <2>3, <2>4, <2>5
<1>2. \A i \in 1..n : i = 1 \/ (i - 1 \in 1..Len(p) /\ q[i] = p[i - 1])
  <2>1. \A i \in 1..n : i = 1 \/ (i - 1 \in 1..Len(p) /\ (i - 1) + 1 = i) BY <1>1
  <2> QED BY <1>1, <2>1
<1> HIDE DEF n, p
<1>3. NoEvent(p, s) <=> \A i \in 1..n : i = 1 \/ q[i].key # s
  <2>1. ASSUME NoEvent(p, s), NEW i \in 1..n, i # 1 PROVE q[i].key # s
    BY <1>2, <2>1 DEF NoEvent
  <2>2. ASSUME \A i \in 1..n : i = 1 \/ q[i].key # s, NEW i \in 1..Len(p) PROVE p[i].key # s
    <3>1. i + 1 \in 1..n /\ i + 1 # 1 /\ p[i] = q[i + 1] BY <1>1
    <3> QED BY <2>2, <3>1
  <2> QED BY <2>1, <2>2 DEF NoEvent
<1>4. LastPut(p, s) <=> \E i \in 1..n : /\ i # 1 /\ q[i].key = s /\ q[i].type = "PUT"
                                        /\ \A j \in 1..n : q[j].key = s => j <= i
  <2>1. ASSUME LastPut(p, s)
        PROVE  \E i \in 1..n : /\ i # 1 /\ q[i].key = s /\ q[i].type = "PUT"
                               /\ \A j \in 1..n : q[j].key = s => j <= i
    <3>1. PICK i \in 1..Len(p) : /\ p[i].key = s /\ p[i].type = "PUT"
                                 /\ \A j \in 1..Len(p) : p[j].key = s => j <= i
      BY <2>1 DEF LastPut
    <3>2. i + 1 \in 1..n /\ i + 1 # 1 /\ q[i + 1].key = s /\ q[i + 1].type = "PUT" BY <1>1, <3>1
    <3>3. ASSUME NEW j \in 1..n, q[j].key = s PROVE j <= i + 1
      <4>1. CASE j = 1 BY <1>1, <3>1, <4>1
      <4>2. CASE j # 1
        <5>1. j - 1 \in 1..Len(p) /\ p[j - 1].key = s BY <1>2, <3>3, <4>2
        <5>2. j - 1 <= i BY <3>1, <5>1
        <5> QED BY <1>1, <5>2
      <4> QED BY <4>1, <4>2
    <3> QED BY <3>2, <3>3
  <2>2. ASSUME NEW i \in 1..n, i # 1, q[i].key = s, q[i].type = "PUT",
               \A j \in 1..n : q[j].key = s => j <= i
        PROVE  LastPut(p, s)
    <3>1. i - 1 \in 1..Len(p) /\ p[i - 1].key = s /\ p[i - 1].type = "PUT" BY <1>1, <1>2, <2>2
    <3>2. ASSUME NEW j \in 1..Len(p), p[j].key = s PROVE j <= i - 1
      <4>1. j + 1 \in 1..n /\ q[j + 1].key = s BY <1>1, <3>2
      <4>2. j + 1 <= i BY <2>2, <4>1
      <4> QED BY <1>1, <4>2
    <3> QED BY <3>1, <3>2 DEF LastPut
  <2> QED BY <2>1, <2>2
<1>5. Ahead(p, s, L) <=> Ahead(q, s, K)
  <2>1. CASE q[1].key # s
    BY <1>1, <1>3, <1>4, <2>1 DEF Ahead, NoEvent, LastPut, n
  <2>2. CASE q[1].key = s /\ \E i \in 1..n : i # 1 /\ q[i].key = s
    BY <1>1, <1>3, <1>4, <2>2 DEF Ahead, NoEvent, LastPut, n
  <2>3. CASE q[1].key = s /\ \A i \in 1..n : i = 1 \/ q[i].key # s
    <3>1. NoEvent(p, s) /\ ~LastPut(p, s) /\ ~NoEvent(q, s) BY <1>1, <1>3, <1>4, <2>3 DEF NoEvent, n
    <3>2. LastPut(q, s) <=> q[1].type = "PUT" BY <1>1, <2>3 DEF LastPut, n
    <3> QED BY <1>1, <2>3, <3>1, <3>2 DEF Ahead
  <2> QED BY <2>1, <2>2, <2>3
<1>6. ASSUME FindsKey(q, s, K) PROVE FindsKey(p, s, L)
  <2>1. SUFFICES ASSUME NEW i \in 1..Len(p), p[i].key = s, p[i].type = "DELETE"
                 PROVE  \/ s \in L /\ \A j \in 1..Len(p) : p[j].key = s => i <= j
                        \/ \E j \in 1..Len(p) : /\ j < i /\ p[j].key = s /\ p[j].type = "PUT"
                                                /\ \A k \in 1..Len(p) : p[k].key = s => k <= j \/ i <= k
    BY DEF FindsKey
  <2>2. i + 1 \in 1..n /\ q[i + 1].key = s /\ q[i + 1].type = "DELETE" BY <1>1, <2>1
  <2>3. \/ s \in K /\ \A j \in 1..n : q[j].key = s => i + 1 <= j
        \/ \E j \in 1..n : /\ j < i + 1 /\ q[j].key = s /\ q[j].type = "PUT"
                           /\ \A k \in 1..n : q[k].key = s => k <= j \/ i + 1 <= k
    BY <1>6, <2>2 DEF FindsKey, n
  <2>4. CASE s \in K /\ \A j \in 1..n : q[j].key = s => i + 1 <= j
    <3>1. q[1].key # s BY <1>1, <2>4
    <3>2. s \in L BY <1>1, <2>4, <3>1
    <3>3. \A j \in 1..Len(p) : p[j].key = s => i <= j BY <1>1, <2>4
    <3> QED BY <3>2, <3>3
  <2>5. CASE \E j \in 1..n : /\ j < i + 1 /\ q[j].key = s /\ q[j].type = "PUT"
                             /\ \A k \in 1..n : q[k].key = s => k <= j \/ i + 1 <= k
    <3>1. PICK j \in 1..n : /\ j < i + 1 /\ q[j].key = s /\ q[j].type = "PUT"
                            /\ \A k \in 1..n : q[k].key = s => k <= j \/ i + 1 <= k
      BY <2>5
    <3>2. \A k \in 1..Len(p) : p[k].key = s => k + 1 <= j \/ i <= k
      BY <1>1, <3>1
    <3>3. CASE j = 1
      BY <1>1, <3>1, <3>2, <3>3
    <3>4. CASE j # 1
      <4>1. j - 1 \in 1..Len(p) /\ p[j - 1].key = s /\ p[j - 1].type = "PUT" 
        BY <1>2, <3>1, <3>4
      <4>3. j - 1 < i BY <1>1, <3>1
      <4>2. ASSUME NEW k \in 1..Len(p), p[k].key = s PROVE k <= j - 1 \/ i <= k
        <5>1. k + 1 <= j \/ i <= k BY <3>2, <4>2
        <5>2. k \in Int /\ j \in Int BY <1>1
        <5> QED BY <5>1, <5>2
      <4> QED BY <4>1, <4>2, <4>3
    <3> QED BY <3>3, <3>4
  <2> QED BY <2>3, <2>4, <2>5
<1>7. FindsKey(q, s, K) /\ q[1].key = s /\ q[1].type = "DELETE" => s \in K
  BY <1>1 DEF FindsKey, n
<1> QED BY <1>1, <1>5, <1>6, <1>7 DEF p

\* The queue after Clear.
Cleared(q, order) == q \o [i \in DOMAIN order |-> [type |-> "DELETE", key |-> order[i]]]

(* Clear deletes each key once. *)
LEMMA QueueClear ==
    ASSUME NEW q \in Seq(KeyEvents), NEW S \in SUBSET Servers, IsFiniteSet(S),
           NEW order \in [1..Cardinality(S) -> S],
           \A s \in S : \E i \in DOMAIN order : order[i] = s,
           NEW s, NEW K
    PROVE  /\ Cleared(q, order) \in Seq(KeyEvents)
           /\ s \notin S => (Ahead(Cleared(q, order), s, K) <=> Ahead(q, s, K))
           /\ s \in S => ~Ahead(Cleared(q, order), s, K)
           /\ FindsKey(q, s, K) /\ (s \in S => Ahead(q, s, K)) => FindsKey(Cleared(q, order), s, K)
<1> DEFINE n == Len(q)
           m == Cardinality(S)
           p == Cleared(q, order)
           d == [i \in DOMAIN order |-> [type |-> "DELETE", key |-> order[i]]]
<1>1. m \in Nat /\ n \in Nat /\ DOMAIN order = 1..m BY FS_CardinalityType
<1>2. order \in Surjection(1..m, S) BY <1>1 DEF Surjection
<1>3. order \in Injection(1..m, S)
  <2>1. IsFiniteSet(1..m) /\ Cardinality(1..m) = m BY <1>1, FS_Interval
  <2> QED BY <1>2, <2>1, FS_SurjSameCardinalityImpliesInj
<1>4. \A i, j \in 1..m : order[i] = order[j] => i = j BY <1>3 DEF Injection, IsInjective
<1>5. d \in Seq(KeyEvents) /\ Len(d) = m
  <2>1. \A i \in 1..m : d[i] \in KeyEvents BY <1>1 DEF KeyEvents
  <2>2. d = [i \in 1..m |-> d[i]] BY <1>1
  <2> QED BY <1>1, <2>1, <2>2
<1>6. /\ p \in Seq(KeyEvents) /\ Len(p) = n + m
      /\ \A i \in 1..n : p[i] = q[i]
      /\ \A i \in 1..m : p[n + i] = d[i]
  <2>1. p = q \o d BY DEF Cleared
  <2> HIDE DEF p, d
  <2> QED BY <1>1, <1>5, <2>1
<1>17. \A i \in 1..m : d[i].type = "DELETE" /\ d[i].key = order[i] BY <1>1
<1> HIDE DEF n, m, d, p
<1>7. \A i \in 1..m : p[n + i].type = "DELETE" /\ p[n + i].key = order[i] BY <1>6, <1>17
<1>8. \A i \in 1..Len(p) : i \in 1..n \/ (i - n \in 1..m /\ i = n + (i - n) /\ i > n) BY <1>1, <1>6
<1>9. \A i \in 1..m : n + i \in 1..Len(p) /\ n + i > n BY <1>1, <1>6
<1>10. \A i \in 1..n : i \in 1..Len(p) /\ i <= n BY <1>1, <1>6
<1>11. \A i \in 1..Len(p) : i \notin 1..n => p[i].type = "DELETE" /\ p[i].key \in S /\ i > n
  <2>1. SUFFICES ASSUME NEW i \in 1..Len(p), i \notin 1..n
                 PROVE  p[i].type = "DELETE" /\ p[i].key \in S /\ i > n
    OBVIOUS
  <2>2. i - n \in 1..m /\ i = n + (i - n) /\ i > n BY <1>8, <2>1
  <2>3. p[i].type = "DELETE" /\ p[i].key = order[i - n] BY <1>7, <2>2
  <2>4. order[i - n] \in S BY <2>2, <1>1
  <2> QED BY <2>2, <2>3, <2>4
<1>16. 1..Len(p) \subseteq Int /\ 1..n \subseteq Int BY <1>1, <1>6
<1>12. ASSUME s \notin S
       PROVE  (NoEvent(p, s) <=> NoEvent(q, s)) /\ (LastPut(p, s) <=> LastPut(q, s))
  <2>1. \A i \in 1..Len(p) : p[i].key = s => i \in 1..n BY <1>11, <1>12
  <2>2. NoEvent(p, s) <=> NoEvent(q, s) BY <1>6, <1>10, <2>1 DEF NoEvent, n
  <2>3. LastPut(p, s) <=> LastPut(q, s) BY <1>6, <1>10, <2>1 DEF LastPut, n
  <2> QED BY <2>2, <2>3
<1>13. ASSUME s \in S
       PROVE  \E a \in 1..m : /\ n + a \in 1..Len(p) /\ p[n + a].key = s
                              /\ \A i \in 1..Len(p) : p[i].key = s => i \in 1..n \/ i = n + a
  <2>1. PICK a \in 1..m : order[a] = s BY <1>1, <1>13
  <2>2. ASSUME NEW i \in 1..Len(p), p[i].key = s, i \notin 1..n PROVE i = n + a
    <3>1. i - n \in 1..m /\ i = n + (i - n) BY <1>8, <2>2
    <3>2. order[i - n] = s BY <1>7, <2>2, <3>1
    <3> QED BY <1>4, <2>1, <3>1, <3>2
  <2> QED BY <1>7, <1>9, <2>1, <2>2
<1>14. s \in S => ~NoEvent(p, s) /\ ~LastPut(p, s)
  <2>1. SUFFICES ASSUME s \in S PROVE ~NoEvent(p, s) /\ ~LastPut(p, s) OBVIOUS
  <2>2. PICK a \in 1..m : /\ n + a \in 1..Len(p) /\ p[n + a].key = s
                          /\ \A i \in 1..Len(p) : p[i].key = s => i \in 1..n \/ i = n + a
    BY <1>13, <2>1
  <2>3. ~NoEvent(p, s) BY <2>2 DEF NoEvent
  <2>4. ASSUME NEW i \in 1..Len(p), p[i].key = s, p[i].type = "PUT",
               \A j \in 1..Len(p) : p[j].key = s => j <= i
        PROVE  FALSE
    <3>1. n + a <= i BY <2>2, <2>4
    <3>2. i \notin 1..n BY <1>1, <1>9, <3>1
    <3> QED BY <1>11, <2>4, <3>2
  <2> QED BY <2>3, <2>4 DEF LastPut
<1>15. ASSUME FindsKey(q, s, K), s \in S => Ahead(q, s, K) PROVE FindsKey(p, s, K)
  <2>1. SUFFICES ASSUME NEW i \in 1..Len(p), p[i].key = s, p[i].type = "DELETE"
                 PROVE  \/ s \in K /\ \A j \in 1..Len(p) : p[j].key = s => i <= j
                        \/ \E j \in 1..Len(p) : /\ j < i /\ p[j].key = s /\ p[j].type = "PUT"
                                                /\ \A k \in 1..Len(p) : p[k].key = s => k <= j \/ i <= k
    BY DEF FindsKey
  <2>2. CASE i \in 1..n
    <3>1. \/ s \in K /\ \A j \in 1..n : q[j].key = s => i <= j
          \/ \E j \in 1..n : /\ j < i /\ q[j].key = s /\ q[j].type = "PUT"
                             /\ \A k \in 1..n : q[k].key = s => k <= j \/ i <= k
      BY <1>6, <1>15, <2>1, <2>2 DEF FindsKey, n
    <3>2. \A j \in 1..Len(p) : j \in 1..n \/ i <= j BY <1>1, <1>10, <1>11, <1>16, <2>2
    <3>3. CASE s \in K /\ \A j \in 1..n : q[j].key = s => i <= j
      BY <1>6, <3>2, <3>3
    <3>4. CASE \E j \in 1..n : /\ j < i /\ q[j].key = s /\ q[j].type = "PUT"
                               /\ \A k \in 1..n : q[k].key = s => k <= j \/ i <= k
      BY <1>6, <1>10, <3>2, <3>4
    <3> QED BY <3>1, <3>3, <3>4
  <2>3. CASE i \notin 1..n
    <3>1. s \in S /\ i > n BY <1>11, <2>1, <2>3
    <3>2. PICK a \in 1..m : /\ n + a \in 1..Len(p) /\ p[n + a].key = s
                            /\ \A j \in 1..Len(p) : p[j].key = s => j \in 1..n \/ j = n + a
      BY <1>13, <3>1
    <3>3. \A j \in 1..Len(p) : p[j].key = s => j \in 1..n \/ j = i BY <2>1, <2>3, <3>2
    <3>4. CASE NoEvent(q, s) /\ s \in K
      <4>1. \A j \in 1..Len(p) : p[j].key = s => j = i BY <1>6, <3>3, <3>4 DEF NoEvent, n
      <4>2. \A j \in 1..Len(p) : p[j].key = s => i <= j
        <5>1. i \in Int /\ i <= i BY <1>16, <2>1
        <5> QED BY <4>1, <5>1
      <4> QED BY <3>4, <4>2
    <3>5. CASE LastPut(q, s)
      <4>1. PICK j \in 1..n : q[j].key = s /\ q[j].type = "PUT" /\ \A k \in 1..n : q[k].key = s => k <= j
        BY <3>5 DEF LastPut, n
      <4>2. j \in 1..Len(p) /\ j < i /\ p[j].key = s /\ p[j].type = "PUT"
        BY <1>1, <1>6, <1>10, <3>1, <4>1
      <4>3. \A k \in 1..Len(p) : p[k].key = s => k <= j \/ i <= k
        <5>1. i \in Int /\ i <= i BY <1>16, <2>1
        <5> QED BY <1>6, <3>3, <4>1, <5>1
      <4> QED BY <4>2, <4>3
    <3> QED BY <1>15, <3>1, <3>4, <3>5 DEF Ahead
  <2> QED BY <2>2, <2>3
<1> QED BY <1>6, <1>12, <1>14, <1>15 DEF Ahead, p

-----------------------------------------------------------------------------
\* etcd and proxyMap hold finitely many keys; keys are loaded before the
\* watch begins and events come only after; the dispatcher is in the midst of
\* a key only in the phases in which it handles keys.
Finite == IsFiniteSet(store) /\ IsFiniteSet(proxies)
Phased == /\ todo # {} => phase = "load"
          /\ queue # <<>> => phase = "watching"
          /\ phase \in {"get", "watch", "ended"} => dpc = "idle"
          /\ phase = "get" => ~made /\ gap = {}
\* Each place of addService and removeService has its key, in proxyMap or not.
Placed == /\ dpc = "idle" <=> ev = None
          /\ (dpc # "idle" \/ proxies # {}) => made
          /\ dpc = "ring" => ev \in proxies
          /\ dpc \in {"count", "store", "uncount"} => ev \notin proxies

TypesInv == TypeOK /\ Finite /\ Phased /\ Placed

(* The handler of one event or of one key of connectAll. *)
LEMMA TypesHandled ==
    ASSUME ConfigOK, TypesInv, NEW s \in Servers, At("idle"),
           AddService(s) \/ (RemoveService(s) /\ UNCHANGED made), UNCHANGED <<count, proxies, ring>>,
           phase' = phase, phase \in {"load", "watching"}
    PROVE  /\ dpc' \in {"idle", "count", "unring"} /\ ev' \in Servers \cup {None} /\ made' \in BOOLEAN
           /\ Placed'
  BY DEF ConfigOK, TypesInv, TypeOK, Placed, AddService, RemoveService, At, Goes

(* A step of the dispatcher. *)
LEMMA TypesDispatcher == ASSUME ConfigOK, TypesInv, Dispatcher PROVE TypesInv'
<1> USE DEF etcdVars, serverVars, serviceVars, routeVars
<1>1. CASE AddProxyCount \/ CreateProxyRing \/ DelProxyRing \/ DelProxyCount
  BY <1>1 DEF ConfigOK, TypesInv, TypeOK, Finite, Phased, Placed, At, Goes,
     AddProxyCount, CreateProxyRing, DelProxyRing, DelProxyCount
<1>2. CASE AddProxyStore
  <2>1. IsFiniteSet(proxies') BY <1>2, FS_AddElement DEF AddProxyStore, TypesInv, Finite
  <2> QED BY <1>2, <2>1 DEF ConfigOK, TypesInv, TypeOK, Finite, Phased, Placed, At, Goes, AddProxyStore
<1>3. CASE DelProxyDelete
  <2>1. IsFiniteSet(proxies') BY <1>3, FS_RemoveElement DEF DelProxyDelete, TypesInv, Finite
  <2> QED BY <1>3, <2>1 DEF ConfigOK, TypesInv, TypeOK, Finite, Phased, Placed, At, Goes, DelProxyDelete
<1>4. CASE ConnectAll \/ Connected \/ Watch
  BY <1>4 DEF TypesInv, TypeOK, Finite, Phased, Placed, At, ConnectAll, Connected, Watch
<1>5. ASSUME NEW s \in Servers, ConnectAdd(s) PROVE TypesInv'
  BY <1>5, TypesHandled DEF TypesInv, TypeOK, Finite, Phased, ConnectAdd
<1>6. CASE WatchEvent
  <2>1. Head(queue) \in KeyEvents /\ Tail(queue) \in Seq(KeyEvents) /\ phase = "watching"
    BY <1>6 DEF WatchEvent, TypesInv, TypeOK
  <2>2. /\ dpc' \in {"idle", "count", "unring"} /\ ev' \in Servers \cup {None} /\ made' \in BOOLEAN
        /\ Placed'
    <3>1. Head(queue).key \in Servers BY <2>1 DEF KeyEvents
    <3> QED BY <1>6, <3>1, TypesHandled DEF WatchEvent
  <2> QED BY <1>6, <2>1, <2>2 DEF WatchEvent, TypesInv, TypeOK, Finite, Phased
<1> QED BY <1>1, <1>2, <1>3, <1>4, <1>5, <1>6 DEF Dispatcher

(* A registration or a deregistration. *)
LEMMA TypesEtcd ==
    ASSUME TypesInv, NEW s \in Servers, Put(s) \/ Delete(s)
    PROVE  /\ store' \subseteq Servers /\ IsFiniteSet(store') /\ queue' \in Seq(KeyEvents)
           /\ gap' \subseteq Servers /\ (queue' # <<>> => phase = "watching")
           /\ phase = "get" => gap' = {}
<1>1. store' \subseteq Servers /\ IsFiniteSet(store')
  BY FS_AddElement, FS_RemoveElement DEF Put, Delete, TypesInv, TypeOK, Finite
<1>2. ASSUME NEW type \in {"PUT", "DELETE"}, Told([type |-> type, key |-> s])
      PROVE  /\ queue' \in Seq(KeyEvents) /\ gap' \subseteq Servers
             /\ queue' # <<>> => phase = "watching"
             /\ phase = "get" => gap' = {}
  <2> DEFINE e == [type |-> type, key |-> s]
  <2>1. e \in KeyEvents /\ e.key = s BY DEF KeyEvents
  <2>2. Told(e) BY <1>2
  <2> HIDE DEF e
  <2>3. CASE UNCHANGED queue
    BY <2>1, <2>2, <2>3 DEF Told, TypesInv, TypeOK, Phased
  <2>4. CASE phase = "watching" /\ queue' = Append(queue, e) /\ UNCHANGED gap
    BY <2>1, <2>4 DEF TypesInv, TypeOK
  <2> QED BY <2>2, <2>3, <2>4 DEF Told
<1> QED BY <1>1, <1>2 DEF Put, Delete, TypesInv, TypeOK, Phased

(* Every step keeps the types. *)
LEMMA TypesNext == ASSUME ConfigOK, TypesInv, [Next]_vars PROVE TypesInv'
<1> USE DEF etcdVars, serverVars, serviceVars, dispVars, routeVars
<1>1. CASE Route
  BY <1>1 DEF Route, RouteCall, RouteCount, RouteRing, RouteProxy, RouteReturns,
     TypesInv, TypeOK, Finite, Phased, Placed
<1>2. CASE WatchEnds
  BY <1>2 DEF WatchEnds, TypesInv, TypeOK, Finite, Phased, Placed, At
<1>3. CASE Clear
  <2>1. store' = {} /\ UNCHANGED <<serverVars, serviceVars, dispVars, routeVars, seen>>
    BY <1>3 DEF Clear
  <2>2. /\ queue' \in Seq(KeyEvents) /\ gap' \subseteq Servers
        /\ queue' # <<>> => phase = "watching"
        /\ phase = "get" => gap' = {}
    <3>1. CASE phase = "watching"
      <4>1. PICK order \in [1..Cardinality(store) -> store] :
              /\ \A s \in store : \E i \in DOMAIN order : order[i] = s
              /\ queue' = Cleared(queue, order)
        BY <1>3, <3>1 DEF Clear, Cleared
      <4>2. queue \in Seq(KeyEvents) /\ store \in SUBSET Servers /\ IsFiniteSet(store)
        BY DEF TypesInv, TypeOK, Finite
      <4>3. queue' \in Seq(KeyEvents) BY <4>1, <4>2, QueueClear
      <4> QED BY <1>3, <3>1, <4>3 DEF Clear, TypesInv, TypeOK
    <3>2. CASE phase # "watching"
      BY <1>3, <3>2 DEF Clear, TypesInv, TypeOK, Phased
    <3> QED BY <3>1, <3>2
  <2>3. IsFiniteSet(store') BY <2>1, FS_EmptySet
  <2> QED BY <2>1, <2>2, <2>3 DEF TypesInv, TypeOK, Finite, Phased, Placed
<1>4. ASSUME NEW s \in Servers, Start(s) \/ TickPut(s) \/ Deregister(s) PROVE TypesInv'
  <2>1. UNCHANGED <<serviceVars, dispVars, routeVars, seen>>
    BY <1>4 DEF Start, TickPut, Deregister
  <2>2. /\ sv' \in [Servers -> {"down", "up", "stopping", "stopped"}]
        /\ tick' \in [Servers -> {"off", "select", "put"}]
    BY <1>4 DEF Start, TickPut, Deregister, TypesInv, TypeOK
  <2>3. Put(s) \/ Delete(s) \/ UNCHANGED etcdVars
    BY <1>4 DEF Start, TickPut, Deregister
  <2>4. /\ store' \subseteq Servers /\ IsFiniteSet(store') /\ queue' \in Seq(KeyEvents)
        /\ gap' \subseteq Servers /\ (queue' # <<>> => phase = "watching")
        /\ phase = "get" => gap' = {}
    BY <2>3, TypesEtcd DEF TypesInv, TypeOK, Finite, Phased
  <2> QED BY <2>1, <2>2, <2>4 DEF TypesInv, TypeOK, Finite, Phased, Placed
<1>5. ASSUME NEW s \in Servers, TickFires(s) \/ TickEnds(s) \/ Shutdown(s) \/ Exits(s)
      PROVE TypesInv'
  BY <1>5 DEF TickFires, TickEnds, Shutdown, Exits, TypesInv, TypeOK, Finite, Phased, Placed
<1>6. CASE UNCHANGED vars
  BY <1>6 DEF vars, TypesInv, TypeOK, Finite, Phased, Placed
<1> QED BY <1>1, <1>2, <1>3, <1>4, <1>5, <1>6, TypesDispatcher DEF Next, Server

(* The initial state. *)
LEMMA TypesInit == ASSUME ConfigOK PROVE Init => TypesInv
<1> SUFFICES ASSUME Init PROVE TypesInv OBVIOUS
<1>1. TypeOK
  <2>1. queue \in Seq(KeyEvents) BY DEF Init
  <2>2. /\ sv \in [Servers -> {"down", "up", "stopping", "stopped"}]
        /\ tick \in [Servers -> {"off", "select", "put"}]
    BY DEF Init
  <2>3. /\ store = {} /\ gap = {} /\ todo = {} /\ proxies = {} /\ ring = {} /\ seen = {}
        /\ count \in Int
        /\ phase = "get" /\ dpc = "idle" /\ rpc = "idle" /\ ev = None /\ key = None
    BY DEF Init
  <2>4. made \in BOOLEAN BY Zenon DEF Init
  <2> QED BY <2>1, <2>2, <2>3, <2>4 DEF TypeOK
<1>2. Finite BY FS_EmptySet DEF Init, Finite
<1>3. Phased /\ Placed BY DEF Init, Phased, Placed
<1> QED BY <1>1, <1>2, <1>3 DEF TypesInv

(* The types of all variables: in particular addService and removeService  *)
(* always have a key while they work, and the watcher none when it waits.  *)
THEOREM DiscoveryTypes == ASSUME ConfigOK PROVE Safety => []TypeOK
<1>1. Init => TypesInv BY TypesInit
<1>2. TypesInv /\ [Next]_vars => TypesInv' BY TypesNext
<1>3. TypesInv => TypeOK BY DEF TypesInv
<1> QED BY <1>1, <1>2, <1>3, PTL DEF Safety

-----------------------------------------------------------------------------
\* What the dispatcher has, or is bound to get.
KnownKeys == {s \in Servers : Known(s)}
\* ViewCatchesUp, said of the whole queue; and a DELETE comes only for a key
\* which the dispatcher will have by then.
Views == phase \in {"load", "watch", "watching"} =>
    \A s \in Servers \ gap : s \in store <=> Ahead(queue, s, KnownKeys)
Finds == \A s \in Servers \ gap : FindsKey(queue, s, KnownKeys)

(* The keys under way do not change while one is added or removed. *)
LEMMA KnownKept ==
    ASSUME ConfigOK, TypesInv,
           \/ AddProxyCount \/ AddProxyStore \/ CreateProxyRing
           \/ DelProxyRing \/ DelProxyDelete \/ DelProxyCount
    PROVE  KnownKeys' = KnownKeys
<1>1. \A s \in Servers : Known(s)' <=> Known(s)
  BY DEF ConfigOK, TypesInv, Placed, Known, At, Goes, AddProxyCount, AddProxyStore, CreateProxyRing,
     DelProxyRing, DelProxyDelete, DelProxyCount
<1> QED BY <1>1 DEF KnownKeys

(* A registration or a deregistration. *)
LEMMA ViewEtcd ==
    ASSUME ConfigOK, TypesInv, Views, Finds, NEW s \in Servers, Put(s) \/ Delete(s),
           UNCHANGED <<serviceVars, dispVars>>
    PROVE  (Views /\ Finds)'
<1> USE DEF serviceVars, dispVars
<1>1. KnownKeys' = KnownKeys BY DEF KnownKeys, Known
<1>2. PICK e \in KeyEvents : /\ e.key = s
                             /\ store' = IF e.type = "PUT" THEN store \cup {s} ELSE store \ {s}
                             /\ \/ Told(e) /\ (e.type = "DELETE" => s \in store)
                                \/ e.type = "DELETE" /\ s \notin store /\ UNCHANGED <<queue, gap>>
  <2>1. [type |-> "PUT", key |-> s] \in KeyEvents /\ [type |-> "DELETE", key |-> s] \in KeyEvents
    BY DEF KeyEvents
  <2>2. CASE Put(s) BY <2>1, <2>2 DEF Put
  <2>3. CASE Delete(s)
    <3>1. CASE s \in store
      BY <2>1, <2>3, <3>1 DEF Delete
    <3>2. CASE s \notin store
      <4>1. store' = store \ {s} /\ UNCHANGED <<queue, gap>> BY <2>3, <3>2 DEF Delete
      <4> DEFINE e == [type |-> "DELETE", key |-> s]
      <4>2. e \in KeyEvents /\ e.key = s /\ e.type = "DELETE" BY <2>1
      <4> HIDE DEF e
      <4> QED BY <3>2, <4>1, <4>2
    <3> QED BY <3>1, <3>2
  <2> QED BY <2>2, <2>3
<1>3. queue \in Seq(KeyEvents) BY DEF TypesInv, TypeOK
<1>4. CASE /\ queue' = Append(queue, e) /\ UNCHANGED gap /\ phase = "watching"
           /\ e.type = "DELETE" => s \in store
  <2>1. ASSUME NEW t \in Servers \ gap
        PROVE  /\ t \in store' <=> Ahead(queue', t, KnownKeys)
               /\ FindsKey(queue', t, KnownKeys)
    <3>1. /\ t \in store <=> Ahead(queue, t, KnownKeys)
          /\ FindsKey(queue, t, KnownKeys)
      BY <1>4 DEF Views, Finds
    <3>2. /\ t # s => (Ahead(queue', t, KnownKeys) <=> Ahead(queue, t, KnownKeys))
          /\ t = s => (Ahead(queue', t, KnownKeys) <=> e.type = "PUT")
          /\ FindsKey(queue, t, KnownKeys) /\ (t = s /\ e.type = "DELETE" => Ahead(queue, t, KnownKeys))
               => FindsKey(queue', t, KnownKeys)
      BY <1>2, <1>3, <1>4, QueueAppend
    <3> QED BY <1>2, <1>4, <3>1, <3>2
  <2> QED BY <1>1, <1>4, <2>1 DEF Views, Finds
<1>5. CASE gap' = gap \cup {s} /\ UNCHANGED queue
  BY <1>1, <1>2, <1>5 DEF Views, Finds
<1>6. CASE UNCHANGED <<queue, gap>> /\ phase \in {"get", "ended"}
  BY <1>1, <1>6 DEF Views, Finds
<1>7. CASE e.type = "DELETE" /\ s \notin store /\ UNCHANGED <<queue, gap>>
  <2>1. store' = store BY <1>2, <1>7
  <2> QED BY <1>1, <1>7, <2>1 DEF Views, Finds
<1> QED BY <1>2, <1>4, <1>5, <1>6, <1>7 DEF Told

(* Clear. *)
LEMMA ViewClear ==
    ASSUME ConfigOK, TypesInv, Views, Finds, Clear
    PROVE  (Views /\ Finds)'
<1> USE DEF serviceVars, dispVars
<1>1. KnownKeys' = KnownKeys /\ store' = {} /\ phase' = phase BY DEF Clear, KnownKeys, Known
<1>2. CASE phase = "watching"
  <2>1. PICK order \in [1..Cardinality(store) -> store] :
          /\ \A s \in store : \E i \in DOMAIN order : order[i] = s
          /\ queue' = Cleared(queue, order)
    BY <1>2 DEF Clear, Cleared
  <2>2. /\ queue \in Seq(KeyEvents) /\ store \in SUBSET Servers /\ IsFiniteSet(store)
        /\ gap' = gap
    BY <1>2 DEF Clear, TypesInv, TypeOK, Finite
  <2>3. ASSUME NEW t \in Servers \ gap
        PROVE  /\ t \in store' <=> Ahead(queue', t, KnownKeys)
               /\ FindsKey(queue', t, KnownKeys)
    <3>1. /\ t \in store <=> Ahead(queue, t, KnownKeys)
          /\ FindsKey(queue, t, KnownKeys)
      BY <1>2 DEF Views, Finds
    <3>2. /\ t \notin store => (Ahead(queue', t, KnownKeys) <=> Ahead(queue, t, KnownKeys))
          /\ t \in store => ~Ahead(queue', t, KnownKeys)
          /\ FindsKey(queue, t, KnownKeys) /\ (t \in store => Ahead(queue, t, KnownKeys))
               => FindsKey(queue', t, KnownKeys)
      BY <2>1, <2>2, QueueClear
    <3> QED BY <1>1, <3>1, <3>2
  <2> QED BY <1>1, <2>2, <2>3 DEF Views, Finds
<1>3. CASE phase \in {"load", "watch"}
  <2>1. gap' = gap \cup store /\ queue' = queue BY <1>3 DEF Clear
  <2> QED BY <1>1, <2>1 DEF Views, Finds
<1>4. CASE phase \notin {"load", "watch", "watching"}
  <2>1. gap' = gap /\ queue' = queue BY <1>4 DEF Clear
  <2> QED BY <1>1, <1>4, <2>1 DEF Views, Finds
<1> QED BY <1>2, <1>3, <1>4

(* The handling of an event: the key is known afterwards if it was a PUT.  *)
LEMMA ViewEvent ==
    ASSUME ConfigOK, TypesInv, Views, Finds, WatchEvent
    PROVE  /\ (Views /\ Finds)'
           /\ Head(queue).type = "DELETE" /\ Head(queue).key \notin gap =>
                Head(queue).key \in KnownKeys
<1>1. /\ queue \in Seq(KeyEvents) /\ queue # <<>> /\ phase = "watching" /\ dpc = "idle"
      /\ ev = None /\ todo = {}
    BY DEF WatchEvent, At, TypesInv, TypeOK, Phased, Placed
<1>2. Head(queue) \in KeyEvents BY <1>1
<1> DEFINE e == Head(queue)
<1>3. e.key \in Servers /\ e.type \in {"PUT", "DELETE"} BY <1>2 DEF KeyEvents
<1>4. UNCHANGED <<store, gap, proxies, todo, phase>> /\ queue' = Tail(queue)
  BY DEF WatchEvent
<1>5. ASSUME NEW t \in Servers
      PROVE  IF e.key = t THEN t \in KnownKeys' <=> e.type = "PUT"
                          ELSE t \in KnownKeys' <=> t \in KnownKeys
  <2>1. Known(t) <=> t \in proxies BY <1>1 DEF Known
  <2>2. CASE e.type = "PUT"
    <3>1. AddService(e.key) BY <2>2 DEF WatchEvent
    <3> QED BY <1>1, <1>3, <1>4, <2>1, <2>2, <3>1, ConfigOK DEF AddService, KnownKeys, Known, Goes, ConfigOK
  <2>3. CASE e.type = "DELETE"
    <3>1. RemoveService(e.key) BY <2>3 DEF WatchEvent
    <3>2. ~made => proxies = {} BY DEF TypesInv, Placed
    <3> QED BY <1>1, <1>3, <1>4, <2>1, <2>3, <3>1, <3>2, ConfigOK
            DEF RemoveService, KnownKeys, Known, Goes, ConfigOK
  <2> QED BY <1>3, <2>2, <2>3
<1> HIDE DEF e
<1>6. ASSUME NEW t \in Servers
      PROVE  /\ Ahead(queue', t, KnownKeys') <=> Ahead(queue, t, KnownKeys)
             /\ FindsKey(queue, t, KnownKeys) => FindsKey(queue', t, KnownKeys')
             /\ FindsKey(queue, t, KnownKeys) /\ e.key = t /\ e.type = "DELETE" => t \in KnownKeys
  BY <1>1, <1>4, <1>5, QueueTail DEF e
<1>7. (Views /\ Finds)' BY <1>1, <1>4, <1>6 DEF Views, Finds
<1>8. e.type = "DELETE" /\ e.key \notin gap => e.key \in KnownKeys BY <1>3, <1>6 DEF Finds
<1> QED BY <1>7, <1>8 DEF e

(* Every step keeps the view. *)
LEMMA ViewNext ==
    ASSUME ConfigOK, TypesInv, Views, Finds, [Next]_vars
    PROVE  (Views /\ Finds)'
<1> DEFINE Same == UNCHANGED <<store, queue, gap, phase>> /\ KnownKeys' = KnownKeys
<1>1. Same => (Views /\ Finds)' BY DEF Views, Finds
<1> HIDE DEF Same
<1>2. CASE \/ AddProxyCount \/ AddProxyStore \/ CreateProxyRing
           \/ DelProxyRing \/ DelProxyDelete \/ DelProxyCount
  <2>1. UNCHANGED <<store, queue, gap, phase>>
    BY <1>2 DEF AddProxyCount, AddProxyStore, CreateProxyRing, DelProxyRing, DelProxyDelete,
       DelProxyCount, etcdVars
  <2> QED BY <1>1, <1>2, <2>1, KnownKept DEF Same
<1>3. CASE ConnectAll
  <2>1. /\ UNCHANGED <<store, queue, proxies, dpc, ev>> /\ dpc = "idle" /\ proxies = {} /\ queue = <<>>
        /\ todo' = store \/ (todo' = {} /\ gap' = store)
    BY <1>3 DEF ConnectAll, serviceVars, TypesInv, Phased, Placed
  <2>2. store \subseteq Servers BY DEF TypesInv, TypeOK
  <2>3. KnownKeys' = todo' BY <2>1, <2>2 DEF KnownKeys, Known
  <2>4. \A s \in Servers : /\ Ahead(queue', s, KnownKeys') <=> s \in todo'
                           /\ FindsKey(queue', s, KnownKeys')
    BY <2>1, <2>3 DEF Ahead, NoEvent, LastPut, FindsKey
  <2> QED BY <2>1, <2>4 DEF Views, Finds
<1>4. CASE Connected \/ Watch
  <2>1. KnownKeys' = KnownKeys /\ UNCHANGED <<store, queue, gap>>
    BY <1>4 DEF Connected, Watch, etcdVars, serviceVars, KnownKeys, Known
  <2>2. phase \in {"load", "watch"} BY <1>4 DEF Connected, Watch
  <2> QED BY <2>1, <2>2 DEF Views, Finds
<1>5. ASSUME NEW s \in Servers, ConnectAdd(s) PROVE (Views /\ Finds)'
  <2>1. /\ UNCHANGED <<store, queue, gap, phase, proxies>> /\ dpc = "idle" /\ ev = None
        /\ todo' = todo \ {s} /\ s \in todo
        /\ \/ s \in proxies /\ UNCHANGED <<dpc, ev>>
           \/ s \notin proxies /\ dpc' = "count" /\ ev' = s
    BY <1>5 DEF ConnectAdd, AddService, At, Goes, etcdVars, TypesInv, Placed
  <2>2. \A t \in Servers : Known(t)' <=> Known(t) BY <2>1 DEF Known
  <2>3. KnownKeys' = KnownKeys BY <2>2 DEF KnownKeys
  <2> QED BY <1>1, <2>1, <2>3 DEF Same
<1>6. CASE WatchEvent BY <1>6, ViewEvent
<1>7. CASE WatchEnds
  <2>1. queue' = <<>> /\ phase' = "ended" BY <1>7 DEF WatchEnds
  <2> QED BY <2>1 DEF Views, Finds, FindsKey
<1>8. CASE Route \/ UNCHANGED vars
  <2>1. UNCHANGED <<etcdVars, serviceVars, dispVars>>
    BY <1>8 DEF Route, RouteCall, RouteCount, RouteRing, RouteProxy, RouteReturns, vars
  <2> QED BY <1>1, <2>1 DEF Same, etcdVars, serviceVars, dispVars, KnownKeys, Known
<1>9. ASSUME NEW s \in Servers, Start(s) \/ TickPut(s) \/ Deregister(s) PROVE (Views /\ Finds)'
  <2>1. UNCHANGED <<serviceVars, dispVars>> BY <1>9 DEF Start, TickPut, Deregister
  <2>2. Put(s) \/ Delete(s) \/ UNCHANGED etcdVars BY <1>9 DEF Start, TickPut, Deregister
  <2>3. CASE UNCHANGED etcdVars
    BY <1>1, <2>1, <2>3 DEF Same, etcdVars, serviceVars, dispVars, KnownKeys, Known
  <2> QED BY <2>1, <2>2, <2>3, ViewEtcd
<1>10. ASSUME NEW s \in Servers, TickFires(s) \/ TickEnds(s) \/ Shutdown(s) \/ Exits(s)
       PROVE (Views /\ Finds)'
  <2>1. UNCHANGED <<etcdVars, serviceVars, dispVars>>
    BY <1>10 DEF TickFires, TickEnds, Shutdown, Exits
  <2> QED BY <1>1, <2>1 DEF Same, etcdVars, serviceVars, dispVars, KnownKeys, Known
<1>11. CASE Dispatcher BY <1>2, <1>3, <1>4, <1>5, <1>6, <1>11 DEF Dispatcher
<1>12. CASE Clear BY <1>12, ViewClear
<1> QED BY <1>7, <1>8, <1>9, <1>10, <1>11, <1>12 DEF Next, Server

(* What is in the queue, said of its events one by one as ViewCatchesUp does. *)
LEMMA ViewPending ==
    ASSUME TypesInv, Views PROVE ViewCatchesUp
<1> SUFFICES ASSUME phase \notin {"get", "ended"}, NEW s \in Servers \ gap
             PROVE  s \in store <=>
                      \/ Pending(s) = {} /\ Known(s)
                      \/ \E i \in Pending(s) : /\ \A j \in Pending(s) : j <= i
                                               /\ queue[i].type = "PUT"
  BY DEF ViewCatchesUp
<1>1. s \in store <=> Ahead(queue, s, KnownKeys) BY DEF Views, TypesInv, TypeOK
<1>2. DOMAIN queue = 1..Len(queue) BY DEF TypesInv, TypeOK
<1>3. Pending(s) = {} <=> NoEvent(queue, s) BY <1>2 DEF Pending, NoEvent
<1>4. LastPut(queue, s) <=> \E i \in Pending(s) : /\ \A j \in Pending(s) : j <= i
                                                  /\ queue[i].type = "PUT"
  BY <1>2 DEF Pending, LastPut
<1>5. s \in KnownKeys <=> Known(s) BY DEF KnownKeys
<1> QED BY <1>1, <1>3, <1>4, <1>5 DEF Ahead

(* The initial state: nothing is queued and nothing promised yet. *)
LEMMA ViewInit == Init => Views /\ Finds
  BY DEF Init, Views, Finds, FindsKey

(* Except for keys with a change between connectAll and Watch, what the     *)
(* dispatcher has and what is queued for it always add up to what etcd     *)
(* holds: for any number of servers that start, stop, crash, are cleared   *)
(* and register again in any order.                                        *)
THEOREM ViewKept == ASSUME ConfigOK PROVE Safety => []ViewCatchesUp
<1>1. Init => TypesInv /\ Views /\ Finds BY TypesInit, ViewInit
<1>2. TypesInv /\ Views /\ Finds /\ [Next]_vars => (TypesInv /\ Views /\ Finds)'
  BY TypesNext, ViewNext
<1>3. TypesInv /\ Views /\ Finds => ViewCatchesUp BY ViewPending
<1> QED BY <1>1, <1>2, <1>3, PTL DEF Safety

-----------------------------------------------------------------------------
\* Count is the number of proxies, but for the one being added or removed.
Uncounted == IF dpc \in {"store", "uncount"} THEN 1 ELSE 0
Counted   == gap = {} => /\ count = Cardinality(proxies) + Uncounted
                         /\ dpc \in {"unring", "delete"} => ev \in proxies
Reasoned  == gap = {} => NoneForReason

(* A change lost in the gap stays there. *)
LEMMA GapGrows == ASSUME TypesInv, [Next]_vars PROVE gap' = {} => gap = {}
<1>1. CASE Dispatcher \/ WatchEnds \/ Route \/ UNCHANGED vars
  BY <1>1
  DEF Dispatcher, ConnectAll, Connected, Watch, WatchEvent, ConnectAdd, AddProxyCount, AddProxyStore,
      CreateProxyRing, DelProxyRing, DelProxyDelete, DelProxyCount, WatchEnds, Route, RouteCall,
      RouteCount, RouteRing, RouteProxy, RouteReturns, vars, etcdVars, TypesInv, Phased
<1>2. ASSUME NEW s \in Servers, Start(s) \/ TickFires(s) \/ Server(s) \/ Shutdown(s) \/ Exits(s)
      PROVE  gap' = {} => gap = {}
  BY <1>2 DEF Start, TickFires, Server, TickPut, TickEnds, Deregister, Shutdown, Exits,
     Put, Delete, Told, etcdVars
<1>3. CASE Clear BY <1>3 DEF Clear
<1> QED BY <1>1, <1>2, <1>3 DEF Next

(* Every step keeps the count. *)
LEMMA CountNext ==
    ASSUME ConfigOK, TypesInv, Views, Finds, Counted, [Next]_vars
    PROVE  Counted'
<1> SUFFICES ASSUME gap' = {}
             PROVE  /\ count' = Cardinality(proxies') + Uncounted'
                    /\ dpc' \in {"unring", "delete"} => ev' \in proxies'
  BY DEF Counted
<1>1. /\ gap = {} /\ count = Cardinality(proxies) + Uncounted /\ Cardinality(proxies) \in Nat
      /\ dpc \in {"unring", "delete"} => ev \in proxies
      /\ IsFiniteSet(proxies) /\ count \in Int
  BY GapGrows, FS_CardinalityType DEF Counted, TypesInv, TypeOK, Finite
<1>2. CASE AddProxyCount \/ CreateProxyRing \/ DelProxyRing \/ DelProxyCount
  BY <1>1, <1>2 DEF AddProxyCount, CreateProxyRing, DelProxyRing, DelProxyCount, At, Goes, Uncounted
<1>3. CASE AddProxyStore
  <2>1. ev \notin proxies BY <1>3 DEF AddProxyStore, At, TypesInv, Placed
  <2>2. Cardinality(proxies \cup {ev}) = Cardinality(proxies) + 1 BY <1>1, <2>1, FS_AddElement
  <2> QED BY <1>1, <1>3, <2>2 DEF AddProxyStore, At, Goes, Uncounted
<1>4. CASE DelProxyDelete
  <2>1. ev \in proxies BY <1>1, <1>4 DEF DelProxyDelete, At
  <2>2. Cardinality(proxies \ {ev}) = Cardinality(proxies) - 1 BY <1>1, <2>1, FS_RemoveElement
  <2> QED BY <1>1, <1>4, <2>2 DEF DelProxyDelete, At, Goes, Uncounted
<1>5. CASE ConnectAll \/ Connected \/ Watch
  BY <1>1, <1>5 DEF ConnectAll, Connected, Watch, serviceVars, Uncounted
<1>6. ASSUME NEW s \in Servers, ConnectAdd(s)
      PROVE  /\ count' = Cardinality(proxies') + Uncounted'
             /\ dpc' \in {"unring", "delete"} => ev' \in proxies'
  BY <1>1, <1>6 DEF ConnectAdd, AddService, At, Goes, Uncounted
<1>7. CASE WatchEvent
  <2>1. UNCHANGED <<count, proxies>> /\ dpc = "idle" /\ ev = None /\ todo = {}
    BY <1>7 DEF WatchEvent, At, TypesInv, Placed, Phased
  <2>2. Head(queue) \in KeyEvents BY <1>7 DEF WatchEvent, TypesInv, TypeOK
  <2>3. CASE Head(queue).type = "PUT"
    BY <1>1, <1>7, <2>1, <2>3 DEF WatchEvent, AddService, Goes, Uncounted
  <2>4. CASE Head(queue).type = "DELETE"
    <3>1. Head(queue).key \in KnownKeys BY <1>1, <1>7, <2>4, ViewEvent
    <3>2. Head(queue).key \in proxies BY <2>1, <3>1 DEF KnownKeys, Known
    <3> QED BY <1>1, <1>7, <2>1, <2>4, <3>2 DEF WatchEvent, RemoveService, Goes, Uncounted
  <2> QED BY <2>2, <2>3, <2>4 DEF KeyEvents
<1>8. CASE WatchEnds \/ Route \/ Clear \/ UNCHANGED vars
  BY <1>1, <1>8
  DEF WatchEnds, Route, RouteCall, RouteCount, RouteRing, RouteProxy, RouteReturns, Clear, vars,
      serviceVars, dispVars, Uncounted
<1>9. ASSUME NEW s \in Servers, Start(s) \/ TickFires(s) \/ Server(s) \/ Shutdown(s) \/ Exits(s)
      PROVE  /\ count' = Cardinality(proxies') + Uncounted'
             /\ dpc' \in {"unring", "delete"} => ev' \in proxies'
  BY <1>1, <1>9 DEF Start, TickFires, Server, TickPut, TickEnds, Deregister, Shutdown, Exits,
     serviceVars, dispVars, Uncounted
<1> QED BY <1>2, <1>3, <1>4, <1>5, <1>6, <1>7, <1>8, <1>9 DEF Next, Dispatcher

(* RouteById answers that there is no server only when there was none. *)
LEMMA ReasonNext ==
    ASSUME ConfigOK, TypesInv, RoutesInv, Counted, Reasoned, [Next]_vars
    PROVE  Reasoned'
<1>1. gap' = {} => gap = {} BY GapGrows
<1>2. gap = {} /\ count = 0 => seen = {}
  <2>1. SUFFICES ASSUME gap = {}, count = 0 PROVE seen = {} OBVIOUS
  <2>2. IsFiniteSet(proxies) /\ Cardinality(proxies) \in Nat
    BY FS_CardinalityType DEF TypesInv, Finite
  <2>3. Cardinality(proxies) = 0 BY <2>1, <2>2 DEF Counted, Uncounted
  <2>4. proxies = {} BY <2>2, <2>3, FS_EmptySet
  <2> QED BY <2>4 DEF RoutesInv, RingWithinProxies, Present
<1>3. ring = {} => seen = {} BY DEF RoutesInv, Present
<1>4. CASE Route
  BY <1>1, <1>2, <1>3, <1>4
  DEF Route, RouteCall, RouteCount, RouteRing, RouteProxy, RouteReturns, Reasoned, NoneForReason
<1>5. rpc' = rpc /\ (seen' = seen \/ seen' = seen \ {ev}) => Reasoned'
  BY <1>1 DEF Reasoned, NoneForReason
<1>6. CASE Dispatcher \/ WatchEnds \/ Clear \/ UNCHANGED vars
  BY <1>5, <1>6
  DEF Dispatcher, ConnectAll, Connected, Watch, WatchEvent, ConnectAdd, AddProxyCount, AddProxyStore,
      CreateProxyRing, DelProxyRing, DelProxyDelete, DelProxyCount, WatchEnds, Clear, vars, routeVars
<1>7. ASSUME NEW s \in Servers, Start(s) \/ TickFires(s) \/ Server(s) \/ Shutdown(s) \/ Exits(s)
      PROVE  Reasoned'
  BY <1>5, <1>7
  DEF Start, TickFires, Server, TickPut, TickEnds, Deregister, Shutdown, Exits, routeVars
<1> QED BY <1>4, <1>6, <1>7 DEF Next

(* RouteById, which takes no lock, fails only for a reason: it answers nil  *)
(* for a proxy removed meanwhile and, where no change was lost in the gap, *)
(* "no proxy" or "empty ring" only if no server was there throughout.      *)
THEOREM RouteFailures == ASSUME ConfigOK PROVE Safety => []RouteFailsForReason
<1> DEFINE Inv == TypesInv /\ RoutesInv /\ Views /\ Finds /\ Counted /\ Reasoned
<1>1. Init => Inv
  <2>1. Init => RoutesInv
    BY DEF Init, RoutesInv, RingWithinProxies, Stored, Unrung, Present, NilForReason
  <2>2. Init => Counted /\ Reasoned
    BY FS_EmptySet DEF Init, Counted, Uncounted, Reasoned, NoneForReason
  <2> QED BY <2>1, <2>2, TypesInit, ViewInit
<1>2. Inv /\ [Next]_vars => Inv' BY TypesNext, RoutesNext, ViewNext, CountNext, ReasonNext
<1>3. Inv => RouteFailsForReason BY DEF RoutesInv, RouteFailsForReason, Reasoned
<1> QED BY <1>1, <1>2, <1>3, PTL DEF Safety
=============================================================================
