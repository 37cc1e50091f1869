----------------------------- MODULE RedBlackMap -----------------------------
(***************************************************************************)
(* The ordered map under the hash ring: the red-black tree of              *)
(* dispatcher/hash/maps/maps.go and its iterator (iterator.go).            *)
(*                                                                         *)
(* The tree is one record of functions over nodes, the operations that     *)
(* change it (replaceNode, the rotations) are functions from trees to      *)
(* trees.  A node is named by the key it holds, for no two nodes hold the  *)
(* same key and no address outlives a call; where Remove copies the key of *)
(* the predecessor into a node, the two trade names.  A call runs through  *)
(* its loop or its chain of cases one step at a time; pc is the place it   *)
(* has reached, at the node.  A nil dereference of the code is an          *)
(* application of a function outside its domain here, which TLC reports.   *)
(* Values play no part and are left out.                                   *)
(***************************************************************************)
EXTENDS Integers, FiniteSets

CONSTANTS
    Keys,   \* the keys in use, numbers
    None,   \* nil
    Free    \* bound: the keys put in any order; another is put only on all smaller ones

ASSUME MapOK ==
    /\ Keys \subseteq Int /\ IsFiniteSet(Keys) /\ None \notin Keys
    /\ Free \subseteq Keys

VARIABLES
    t,             \* the tree
    size,          \* Map.size
    pc, op, arg,   \* the call, its argument
    at,            \* its node
    best,          \* the candidate of Ceiling and Floor
    victim, child, \* in Remove: the node to be unlinked and its child
    answer         \* the key a query has found

calls == <<op, arg, best, victim, child, answer>>
vars  == <<t, size, pc, at, calls>>

NewMap ==
    LET nil == [n \in Keys |-> None] IN
    [root |-> None, left |-> nil, right |-> nil, parent |-> nil,
     color |-> [n \in Keys |-> "red"]]

Init ==
    /\ t = NewMap /\ size = 0
    /\ pc = "idle" /\ op = "none" /\ arg = None /\ at = None
    /\ best = None /\ victim = None /\ child = None /\ answer = None

-----------------------------------------------------------------------------
(* Trees. *)

Opposite(side) == IF side = "left" THEN "right" ELSE "left"
Side(tr, n)    == IF n = tr.left[tr.parent[n]] THEN "left" ELSE "right"

InTree == {n \in Keys : n = t.root \/ t.parent[n] # None}

NodeColor(tr, n)   == IF n = None THEN "black" ELSE tr.color[n]
Sibling(tr, n)     == IF tr.parent[n] = None THEN None
                      ELSE tr[Opposite(Side(tr, n))][tr.parent[n]]
Grandparent(tr, n) == IF tr.parent[n] = None THEN None ELSE tr.parent[tr.parent[n]]
Uncle(tr, n)       == IF Grandparent(tr, n) = None THEN None ELSE Sibling(tr, tr.parent[n])

Paint(tr, n, c) == [tr EXCEPT !.color[n] = c]

\* new comes into the place of old.
ReplaceNode(tr, old, new) ==
    LET p == tr.parent[old]
        u == IF p = None THEN [tr EXCEPT !.root = new]
                         ELSE [tr EXCEPT ![Side(tr, old)][p] = new]
    IN  IF new = None THEN u ELSE [u EXCEPT !.parent[new] = p]

\* Two nodes trade names.
Trade(tr, a, b) ==
    LET name(n) == CASE n = a -> b [] n = b -> a [] OTHER -> n
        renamed(f) == [n \in Keys |-> name(f[name(n)])]
    IN  [root |-> name(tr.root), left |-> renamed(tr.left), right |-> renamed(tr.right),
         parent |-> renamed(tr.parent), color |-> [n \in Keys |-> tr.color[name(n)]]]

\* Mistake: the inner subtree keeps its old parent.
RotateForgetful(tr, n, side) ==
    LET up == tr[Opposite(side)][n]
        u  == ReplaceNode(tr, n, up)
    IN  [u EXCEPT ![Opposite(side)][n] = u[side][up], ![side][up] = n, !.parent[n] = up]

\* rotateLeft and rotateRight.
Rotate(tr, n, side) ==
    LET up    == tr[Opposite(side)][n]
        u     == ReplaceNode(tr, n, up)
        inner == u[side][up]
        v     == [u EXCEPT ![Opposite(side)][n] = inner, ![side][up] = n, !.parent[n] = up]
    IN  IF inner = None THEN v ELSE [v EXCEPT !.parent[inner] = n]

-----------------------------------------------------------------------------
(* Calls and returns. *)

Goes(place) == pc' = place

Return == pc' = "idle" /\ at' = None /\ op' = "none" /\ arg' = None
          /\ best' = None /\ victim' = None /\ child' = None /\ answer' = None

\* A query returns the key of node n, or not found.
Found(n) ==
    /\ answer' = n
    /\ Goes("answered") /\ at' = None /\ best' = None
    /\ UNCHANGED <<t, size, op, arg, victim, child>>

Answered == pc = "answered" /\ Return /\ UNCHANGED <<t, size>>

Call(o, k) ==
    /\ pc = "idle"
    /\ CASE o = "put"    -> InTree \cup {k} \subseteq Free \/ InTree = {n \in Keys : n < k}
         [] o = "remove" -> TRUE
         [] OTHER        -> InTree \subseteq Free
    /\ Goes("search") /\ op' = o /\ arg' = k /\ at' = t.root
    /\ UNCHANGED <<t, size, best, victim, child, answer>>

Clear ==
    /\ pc = "idle"
    /\ t' = NewMap /\ size' = 0
    /\ UNCHANGED <<pc, at, calls>>

\* Where the loops over the nodes turn to.
Turn == IF arg < at THEN "left" ELSE "right"
Searching(os) == pc = "search" /\ op \in os
Hit == at # None /\ arg = at

-----------------------------------------------------------------------------
(* Put. *)

PutDescend ==
    /\ Searching({"put"}) /\ at # None /\ ~Hit /\ t[Turn][at] # None
    /\ at' = t[Turn][at]
    /\ UNCHANGED <<t, size, pc, calls>>

\* The key is there: only the value is replaced.
PutFound == Searching({"put"}) /\ Hit /\ Return /\ UNCHANGED <<t, size>>

\* A new node, red, as the root or under the last node.
PutLink ==
    /\ Searching({"put"})
    /\ at # None => ~Hit /\ t[Turn][at] = None
    /\ t' = IF at = None
              THEN [t EXCEPT !.root = arg, !.color[arg] = "red"]
              ELSE [t EXCEPT ![Turn][at] = arg, !.parent[arg] = at, !.color[arg] = "red"]
    /\ at' = arg
    /\ Goes("insert1")
    /\ UNCHANGED <<size, calls>>

PutReturns == size' = size + 1 /\ Return

InsertCase1 ==
    /\ pc = "insert1"
    /\ IF t.parent[at] = None
         THEN t' = Paint(t, at, "black") /\ PutReturns
         ELSE Goes("insert2") /\ UNCHANGED <<t, size, at, calls>>

InsertCase2 ==
    /\ pc = "insert2"
    /\ IF NodeColor(t, t.parent[at]) = "black"
         THEN PutReturns
         ELSE Goes("insert3") /\ UNCHANGED <<size, at, calls>>
    /\ UNCHANGED t

\* Mistake: the case is not repeated from the grandparent on.
InsertCase3Once ==
    /\ pc = "insert3"
    /\ IF NodeColor(t, Uncle(t, at)) = "red"
         THEN /\ t' = Paint(Paint(Paint(t, t.parent[at], "black"), Uncle(t, at), "black"),
                            Grandparent(t, at), "red")
              /\ PutReturns
         ELSE Goes("insert4") /\ UNCHANGED <<t, size, at, calls>>

InsertCase3 ==
    /\ pc = "insert3"
    /\ IF NodeColor(t, Uncle(t, at)) = "red"
         THEN /\ t' = Paint(Paint(Paint(t, t.parent[at], "black"), Uncle(t, at), "black"),
                            Grandparent(t, at), "red")
              /\ at' = Grandparent(t, at) /\ Goes("insert1")
         ELSE Goes("insert4") /\ UNCHANGED <<t, at>>
    /\ UNCHANGED <<size, calls>>

\* An inner grandchild is turned outside first.
InsertCase4 ==
    /\ pc = "insert4"
    /\ IF Side(t, at) # Side(t, t.parent[at])
         THEN /\ t' = Rotate(t, t.parent[at], Side(t, t.parent[at]))
              /\ at' = t'[Side(t, t.parent[at])][at]
         ELSE UNCHANGED <<t, at>>
    /\ Goes("insert5")
    /\ UNCHANGED <<size, calls>>

InsertCase5 ==
    /\ pc = "insert5"
    /\ LET u == Paint(Paint(t, t.parent[at], "black"), Grandparent(t, at), "red") IN
         t' = IF Side(u, at) = Side(u, u.parent[at])
                THEN Rotate(u, Grandparent(u, at), Opposite(Side(u, at)))
                ELSE u
    /\ PutReturns

-----------------------------------------------------------------------------
(* lookup, Ceiling, Floor, and the iterator. *)

LookupDescend ==
    /\ Searching({"get", "remove"}) /\ at # None /\ ~Hit
    /\ at' = t[Turn][at]
    /\ UNCHANGED <<t, size, pc, calls>>

GetFound == Searching({"get"}) /\ (Hit \/ at = None) /\ Found(at)

\* The side on which a node left behind is a candidate.
Keeps(o) == IF o = "ceiling" THEN "left" ELSE "right"

\* Mistake: an earlier candidate is kept.
NearestDescendFirst ==
    /\ Searching({"ceiling", "floor"}) /\ at # None /\ ~Hit
    /\ best' = IF Turn = Keeps(op) /\ best = None THEN at ELSE best
    /\ at' = t[Turn][at]
    /\ UNCHANGED <<t, size, pc, op, arg, victim, child, answer>>

NearestDescend ==
    /\ Searching({"ceiling", "floor"}) /\ at # None /\ ~Hit
    /\ best' = IF Turn = Keeps(op) THEN at ELSE best
    /\ at' = t[Turn][at]
    /\ UNCHANGED <<t, size, pc, op, arg, victim, child, answer>>

NearestFound ==
    /\ Searching({"ceiling", "floor"}) /\ (Hit \/ at = None)
    /\ Found(IF at = None THEN best ELSE at)

\* The side towards which Next and First, or Prev and Last, look.
Near == IF op \in {"first", "next"} THEN "left" ELSE "right"

\* Iterator.First and Last: Map.Left or Map.Right from the root.
IteratorEnd(o, k) ==
    /\ pc = "idle" /\ InTree \subseteq Free
    /\ Goes("outermost") /\ op' = o /\ arg' = k /\ at' = t.root
    /\ UNCHANGED <<t, size, best, victim, child, answer>>

\* Iterator.Next and Prev from the node of a key: down on the far side, or up.
IteratorStep(o, n) ==
    /\ pc = "idle" /\ n \in InTree /\ InTree \subseteq Free
    /\ op' = o /\ arg' = n
    /\ LET far == IF o = "next" THEN "right" ELSE "left" IN
         IF t[far][n] # None
           THEN Goes("outermost") /\ at' = t[far][n]
           ELSE Goes("climb") /\ at' = t.parent[n]
    /\ UNCHANGED <<t, size, best, victim, child, answer>>

Outermost ==
    /\ pc = "outermost"
    /\ IF at # None /\ t[Near][at] # None
         THEN at' = t[Near][at] /\ UNCHANGED <<t, size, pc, calls>>
         ELSE Found(at)

\* The node has no key on the side looked for.
Passed == at # None /\ IF op = "next" THEN arg > at ELSE arg < at

\* Mistake: every step up starts from the same node.
ClimbFromStart ==
    /\ pc = "climb"
    /\ IF Passed
         THEN at' = t.parent[arg] /\ UNCHANGED <<t, size, pc, calls>>
         ELSE Found(at)

Climb ==
    /\ pc = "climb"
    /\ IF Passed
         THEN at' = t.parent[at] /\ UNCHANGED <<t, size, pc, calls>>
         ELSE Found(at)

-----------------------------------------------------------------------------
(* Remove. *)

RemoveMissed == Searching({"remove"}) /\ at = None /\ Return /\ UNCHANGED <<t, size>>

\* A node with two children takes the key of its predecessor, which is
\* unlinked in its stead.
RemoveFound ==
    /\ Searching({"remove"}) /\ Hit
    /\ IF t.left[at] # None /\ t.right[at] # None
         THEN Goes("pred") /\ victim' = at /\ at' = t.left[at]
         ELSE Goes("unlink1") /\ victim' = at /\ at' = None
    /\ UNCHANGED <<t, size, op, arg, best, child, answer>>

\* Mistake: the left child is taken for the predecessor.
RemovePredNear ==
    /\ pc = "pred"
    /\ t' = Trade(t, victim, at)
    /\ at' = None /\ Goes("unlink1")
    /\ UNCHANGED <<size, op, arg, best, victim, child, answer>>

\* maximumNode, and the copy.
RemovePred ==
    /\ pc = "pred"
    /\ IF t.right[at] # None
         THEN at' = t.right[at] /\ UNCHANGED <<t, pc, victim>>
         ELSE /\ t' = Trade(t, victim, at)
              /\ at' = None /\ Goes("unlink1") /\ UNCHANGED victim
    /\ UNCHANGED <<size, op, arg, best, child, answer>>

\* A black node takes the colour of its child, and the cases begin.
RemoveColor ==
    /\ pc = "unlink1"
    /\ child' = IF t.right[victim] = None THEN t.left[victim] ELSE t.right[victim]
    /\ IF t.color[victim] = "black"
         THEN /\ t' = Paint(t, victim, NodeColor(t, child'))
              /\ Goes("delete1") /\ at' = victim
         ELSE Goes("unlink2") /\ UNCHANGED <<t, at>>
    /\ UNCHANGED <<size, op, arg, best, victim, answer>>

DeleteCase1 ==
    /\ pc = "delete1"
    /\ Goes(IF t.parent[at] = None THEN "unlink2" ELSE "delete2")
    /\ UNCHANGED <<t, size, at, calls>>

\* A red sibling is turned up.
DeleteCase2 ==
    /\ pc = "delete2"
    /\ LET s == Sibling(t, at) IN
         t' = IF NodeColor(t, s) = "red"
                THEN Rotate(Paint(Paint(t, t.parent[at], "red"), s, "black"),
                            t.parent[at], Side(t, at))
                ELSE t
    /\ Goes("delete3")
    /\ UNCHANGED <<size, at, calls>>

\* The colours of a node, its sibling and the sibling's children.
AllBlack(tr, s) == \A n \in {s, tr.left[s], tr.right[s]} : NodeColor(tr, n) = "black"

\* Mistake: the cases stop here.
DeleteCase3Once ==
    /\ pc = "delete3"
    /\ LET s == Sibling(t, at) IN
         IF t.color[t.parent[at]] = "black" /\ AllBlack(t, s)
           THEN t' = Paint(t, s, "red") /\ Goes("unlink2") /\ UNCHANGED at
           ELSE Goes("delete4") /\ UNCHANGED <<t, at>>
    /\ UNCHANGED <<size, calls>>

DeleteCase3 ==
    /\ pc = "delete3"
    /\ LET s == Sibling(t, at) IN
         IF t.color[t.parent[at]] = "black" /\ AllBlack(t, s)
           THEN t' = Paint(t, s, "red") /\ at' = t.parent[at] /\ Goes("delete1")
           ELSE Goes("delete4") /\ UNCHANGED <<t, at>>
    /\ UNCHANGED <<size, calls>>

DeleteCase4 ==
    /\ pc = "delete4"
    /\ LET s == Sibling(t, at) IN
         IF t.color[t.parent[at]] = "red" /\ AllBlack(t, s)
           THEN t' = Paint(Paint(t, s, "red"), t.parent[at], "black") /\ Goes("unlink2")
           ELSE Goes("delete5") /\ UNCHANGED t
    /\ UNCHANGED <<size, at, calls>>

\* A red nephew on the near side is turned to the far side.
DeleteCase5 ==
    /\ pc = "delete5"
    /\ LET s == Sibling(t, at)  near == Side(t, at) IN
         t' = IF /\ NodeColor(t, s) = "black"
                 /\ NodeColor(t, t[near][s]) = "red"
                 /\ NodeColor(t, t[Opposite(near)][s]) = "black"
                THEN Rotate(Paint(Paint(t, s, "red"), t[near][s], "black"), s, Opposite(near))
                ELSE t
    /\ Goes("delete6")
    /\ UNCHANGED <<size, at, calls>>

\* The parent is turned down.  (Both tests are the code's: the second is not
\* restricted to a right child.)
DeleteCase6 ==
    /\ pc = "delete6"
    /\ LET s == Sibling(t, at)  p == t.parent[at]
           u == Paint(Paint(t, s, NodeColor(t, p)), p, "black")
       IN  t' = IF Side(t, at) = "left" /\ NodeColor(u, u.right[s]) = "red"
                  THEN Rotate(Paint(u, u.right[s], "black"), p, "left")
                ELSE IF NodeColor(u, u.left[s]) = "red"
                  THEN Rotate(Paint(u, u.left[s], "black"), p, "right")
                ELSE u
    /\ Goes("unlink2")
    /\ UNCHANGED <<size, at, calls>>

\* The node is unlinked.
RemoveUnlink ==
    /\ pc = "unlink2"
    /\ LET u == ReplaceNode(t, victim, child)
           v == IF u.parent[victim] = None /\ child # None THEN Paint(u, child, "black") ELSE u
       IN  t' = [v EXCEPT !.color[victim] = "red", !.left[victim] = None,
                          !.right[victim] = None, !.parent[victim] = None]
    /\ size' = size - 1
    /\ Return

-----------------------------------------------------------------------------
Steps ==
    \/ PutDescend \/ PutFound \/ PutLink
    \/ InsertCase1 \/ InsertCase2 \/ InsertCase3 \/ InsertCase4 \/ InsertCase5
    \/ LookupDescend \/ GetFound \/ NearestDescend \/ NearestFound
    \/ Outermost \/ Climb \/ Answered
    \/ RemoveMissed \/ RemoveFound \/ RemovePred \/ RemoveColor \/ RemoveUnlink
    \/ DeleteCase1 \/ DeleteCase2 \/ DeleteCase3 \/ DeleteCase4 \/ DeleteCase5 \/ DeleteCase6

Next ==
    \/ Steps \/ Clear
    \/ \E k \in Keys :
         \/ \E o \in {"put", "remove", "get", "ceiling", "floor"} : Call(o, k)
         \/ \E o \in {"first", "last"} : IteratorEnd(o, k)
         \/ \E o \in {"next", "prev"} : IteratorStep(o, k)

\* A call goes on until it returns.
Spec == Init /\ [][Next]_vars /\ WF_vars(Steps)

-----------------------------------------------------------------------------
(* Properties. *)

\* The ancestors of a node, itself included.
Ancestors(n) ==
    LET up[i \in 0 .. Cardinality(Keys)] ==
          IF i = 0 THEN {n}
          ELSE LET found == up[i - 1] IN found \cup {t.parent[m] : m \in found \ {None}}
    IN  up[Cardinality(Keys)] \ {None}

\* Parent and child pointers agree, and every node hangs on the root, also
\* while a call is under way.
Linked ==
    \A n \in InTree :
        /\ t.root \in Ancestors(n) /\ t.parent[t.root] = None
        /\ \A s \in {"left", "right"} : t[s][n] # None => t.parent[t[s][n]] = n
        /\ n # t.root => n \in {t.left[t.parent[n]], t.right[t.parent[n]]}

\* No rotation, and no step between two rotations, breaks the order of the
\* keys that the searches rely on.  (The node that Remove is about to unlink
\* is left aside: in the code it holds the same key as another node.)
Ordered ==
    \A m \in InTree \ {victim} : \A n \in Ancestors(m) \ {victim} :
        /\ t.left[n] \in Ancestors(m) => m < n
        /\ t.right[n] \in Ancestors(m) => m > n

BlackDepth(n) == Cardinality({m \in Ancestors(n) : t.color[m] = "black"})
Outer == {n \in InTree : t.left[n] = None \/ t.right[n] = None}

\* Between calls the tree is a red-black tree: the root is black, no red node
\* has a red child, and the ways from the root to a missing child meet the
\* same number of black nodes, so its height stays logarithmic; and size
\* counts its nodes.
RedBlack ==
    pc \in {"idle", "answered"} =>
        /\ NodeColor(t, t.root) = "black"
        /\ \A n \in InTree \ {t.root} : t.color[n] = "red" => t.color[t.parent[n]] = "black"
        /\ \A m, n \in Outer : BlackDepth(m) = BlackDepth(n)
        /\ size = Cardinality(InTree)

\* Every call returns: no loop over the nodes and no chain of cases goes on
\* for ever.
CallsReturn == pc # "idle" ~> pc = "idle"

Abstract == INSTANCE OrderedMap WITH
    keys  <- InTree,
    reply <- IF pc = "answered" THEN [op |-> op, arg |-> arg, key |-> answer] ELSE None

\* The tree is a set of keys that Put and Remove change by one key, whatever
\* they turn around, and Ceiling, Floor, Get and the iterator answer from it.
OrderedMapSpec == Abstract!Spec
=============================================================================
