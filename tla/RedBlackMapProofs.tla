-------------------------- MODULE RedBlackMapProofs --------------------------
(***************************************************************************)
(* Theorems about the ordered map of maps.go, for any set of keys and any  *)
(* order of calls: in every state, also in the middle of Put and Remove,   *)
(* its nodes are one linked tree (TreeKept); between calls the links       *)
(* agree, the keys are in order and the colors balance (TreeLinked,        *)
(* TreeOrdered, TreeRedBlack); and every call does what a sorted set of    *)
(* keys would do (TreeIsSet).                                              *)
(*                                                                         *)
(* What the tree looks like in the middle of a call is TreeInv, with one   *)
(* lemma per step of a call that says the step keeps it.  Nothing here     *)
(* inducts over the tree: "all ancestors" is a set that is closed under    *)
(* Parent, and every node carries the bounds of its subtree's keys and the *)
(* number of black nodes below it.                                         *)
(***************************************************************************)
EXTENDS RedBlackMap, FiniteSetTheorems, NaturalsInduction, WellFoundedInduction, TLAPS

Sides == {"left", "right"}
Nil   == Keys \cup {None}

-----------------------------------------------------------------------------
(* Trees. *)

TreeType(tr) ==
    tr \in [root : Nil, left : [Keys -> Nil], right : [Keys -> Nil], parent : [Keys -> Nil],
            color : [Keys -> {"red", "black"}]]

Nodes(tr) == {n \in Keys : n = tr.root \/ tr.parent[n] # None}

\* Parent and child pointers agree.
Agree(tr) ==
    /\ tr.root # None => tr.parent[tr.root] = None
    /\ \A n \in Keys : \A s \in Sides : tr[s][n] # None => n \in Nodes(tr) /\ tr.parent[tr[s][n]] = n
    /\ \A n \in Keys : tr.parent[n] # None =>
          tr.parent[n] \in Nodes(tr) /\ \E s \in Sides : tr[s][tr.parent[n]] = n
    /\ \A n \in Keys : tr.left[n] # None => tr.left[n] # tr.right[n]

\* Every node hangs on the root: no set of others holds the parents of all its
\* members.
Hang(tr) ==
    \A S \in SUBSET (Nodes(tr) \ {tr.root}) : S # {} => \E n \in S : tr.parent[n] \notin S

Shape(tr) == TreeType(tr) /\ Agree(tr) /\ Hang(tr)

\* a lies to that side of b.
Less(side, a, b) == IF side = "left" THEN a < b ELSE b < a

\* b.left and b.right are the nearest keys of the ancestors of each node on
\* either side, which leave it the keys between.  The node waived may itself
\* be out of order and leaves its child all that it has.
Inside(b, n, k) == \A s \in Sides : b[s][n] = None \/ Less(s, b[s][n], k)

Bounds == [Sides -> [Keys -> Nil]]
Bounded(tr, b, waived) ==
    /\ tr.root # None => \A s \in Sides : b[s][tr.root] = None
    /\ \A n \in Keys : \A s \in Sides : tr[s][n] # None =>
          /\ b[s][tr[s][n]] = b[s][n]
          /\ b[Opposite(s)][tr[s][n]] = IF n = waived THEN b[Opposite(s)][n] ELSE n
    /\ \A n \in Nodes(tr) \ {waived} : Inside(b, n, n)

\* Each way down from a node meets nodes of the same weight, bh[n].
Height(bh, n) == IF n = None THEN 0 ELSE bh[n]
Heights(tr, w, bh) ==
    \A n \in Nodes(tr) : \A s \in Sides : bh[n] = Height(bh, tr[s][n]) + w[n]
Even(tr, w) == \E bh \in [Keys -> Nat] : Heights(tr, w, bh)

\* No red node has a red parent, and the root is black, but for the node that
\* has been put and where the node to be unlinked is involved.
Coloured(tr, new, gone) ==
    /\ tr.root \notin {None, new, gone} => tr.color[tr.root] = "black"
    /\ \A n \in Nodes(tr) \ {tr.root, new, gone} :
          tr.parent[n] # gone /\ tr.color[n] = "red" => tr.color[tr.parent[n]] = "black"

\* A black node weighs one, the node to be unlinked nothing, and the node
\* short of a black one in its subtree one more.
Weight(tr, gone, short) ==
    [n \in Keys |-> (IF tr.color[n] = "black" /\ n # gone THEN 1 ELSE 0)
                      + (IF n = short THEN 1 ELSE 0)]

Sorted(tr, waived) == \E b \in Bounds : Bounded(tr, b, waived)

Healthy(tr, new, gone, short, waived) ==
    /\ Shape(tr) /\ Coloured(tr, new, gone) /\ Even(tr, Weight(tr, gone, short))
    /\ Sorted(tr, waived)

OnlyChild(tr, n) == IF tr.right[n] = None THEN tr.left[n] ELSE tr.right[n]

\* The way up from the node to be unlinked, gone, to the node that is short.
Way(tr, way, short, gone) ==
    /\ way \subseteq Nodes(tr) /\ short \in way /\ gone \in way /\ tr.parent[short] \notin way
    /\ \A n \in way \ {short} : tr.parent[n] \in way

\* gone, with the only child c, can be unlinked ...
Going(tr, way, short, gone, c) ==
    /\ short \in Nodes(tr) /\ gone \in Nodes(tr) /\ Way(tr, way, short, gone)
    /\ (tr.left[gone] = None \/ tr.right[gone] = None) /\ c = OnlyChild(tr, gone)

\* ... once the other nodes are even; and now they are.
Deleting(tr, way, short, gone, c) ==
    /\ Healthy(tr, None, gone, short, gone) /\ Going(tr, way, short, gone, c)
    /\ short = gone \/ tr.color[short] = "black"
    /\ short # gone /\ c # None
         => tr.parent[gone] = None \/ tr.color[tr.parent[gone]] = "black"

Deleted(tr, gone, c) ==
    /\ Healthy(tr, None, gone, None, gone) /\ gone \in Nodes(tr)
    /\ (tr.left[gone] = None \/ tr.right[gone] = None) /\ c = OnlyChild(tr, gone)
    /\ c # None => tr.parent[gone] = None \/ tr.color[tr.parent[gone]] = "black"

-----------------------------------------------------------------------------
(* Calls. *)

Inserts == {"insert1", "insert2", "insert3", "insert4", "insert5"}
Deletes == {"delete1", "delete2", "delete3", "delete4", "delete5", "delete6"}
Unlinks == Deletes \cup {"unlink1", "unlink2"}
Others  == {"idle", "search", "answered", "outermost", "climb", "pred"}

Waived == IF pc \in Unlinks THEN victim ELSE None
Gone   == IF pc \in Unlinks \ {"unlink1"} THEN victim ELSE None
Short  == IF pc \in Deletes THEN at ELSE None
New    == IF pc \in Inserts THEN at ELSE None

Calling ==
    /\ pc \in Others \cup Inserts \cup Unlinks
    /\ pc = "search" => arg \in Keys /\ at \in Nodes(t) \cup {None}
    /\ pc \in Others \ {"pred"} => victim = None

Inserted ==
    /\ pc \in Inserts => at \in Nodes(t) /\ t.color[at] = "red"
    /\ pc \in Inserts \ {"insert1"} => t.parent[at] # None
    /\ pc \in {"insert3", "insert4", "insert5"} => t.color[t.parent[at]] = "red"
    /\ pc \in {"insert4", "insert5"} => NodeColor(t, Uncle(t, at)) = "black"
    /\ pc = "insert5" => Side(t, at) = Side(t, t.parent[at])

Removed ==
    /\ pc = "pred" => at \in Nodes(t) /\ victim \in Nodes(t)
                      /\ t.left[victim] # None /\ t.right[victim] # None
    /\ pc \in Unlinks => victim \in Nodes(t) /\ (t.left[victim] = None \/ t.right[victim] = None)
    /\ pc \in Unlinks \ {"unlink1"} => child = OnlyChild(t, victim)
    /\ (pc = "unlink2" \/ (pc \in Deletes /\ at # victim)) /\ child # None
         => t.parent[victim] = None \/ t.color[t.parent[victim]] = "black"

Mended ==
    /\ pc \in Deletes => at \in Nodes(t) /\ (at = victim \/ t.color[at] = "black")
    /\ pc \in Deletes \ {"delete1"} => t.parent[at] # None
    /\ pc \in Deletes \ {"delete1", "delete2"} => NodeColor(t, Sibling(t, at)) = "black"
    /\ pc = "delete4" => t.color[t.parent[at]] = "red" \/ ~AllBlack(t, Sibling(t, at))
    /\ pc = "delete5" => ~AllBlack(t, Sibling(t, at))
    /\ pc = "delete6" => NodeColor(t, t[Opposite(Side(t, at))][Sibling(t, at)]) = "red"

\* The search of Put goes along path, away from which its key cannot be.
Search(b, path) ==
    /\ path \subseteq Nodes(t) /\ arg \notin path
    /\ IF at = None THEN t.root = None ELSE Inside(b, at, arg)
    /\ t.root \in path \cup {at}
    /\ \A n \in path : (IF arg < n THEN t.left[n] ELSE t.right[n]) \in path \cup {at}

\* On its way to the predecessor Remove follows the nodes that are bounded by
\* the victim.
Pred(b) ==
    /\ b.right[at] = victim /\ t.left[victim] <= at
    /\ \A n \in Nodes(t) : b.right[n] = victim /\ n < at => t.right[n] # None /\ t.right[n] <= at

Ordering == \E b \in Bounds :
    /\ Bounded(t, b, Waived)
    /\ pc = "search" /\ op = "put" => \E path \in SUBSET Nodes(t) : Search(b, path)
    /\ pc = "pred" => Pred(b)

Count == size = Cardinality(Nodes(t)) - IF pc \in Inserts THEN 1 ELSE 0

TreeInv ==
    /\ Healthy(t, New, Gone, Short, Waived) /\ Ordering
    /\ Calling /\ Inserted /\ Removed /\ Mended /\ Count
    /\ pc \in Deletes => \E way \in SUBSET Nodes(t) : Way(t, way, at, victim)

-----------------------------------------------------------------------------
(* What the operations do, pointer by pointer. *)

\* v has the pointers of tr.
Same(tr, v) == /\ v.root = tr.root /\ v.left = tr.left /\ v.right = tr.right
               /\ v.parent = tr.parent

LEMMA Painted ==
    ASSUME MapOK, NEW tr, TreeType(tr), NEW n \in Keys, NEW c \in {"red", "black"}
    PROVE  /\ TreeType(Paint(tr, n, c)) /\ Same(tr, Paint(tr, n, c))
           /\ Paint(tr, n, c).color = [tr.color EXCEPT ![n] = c]
  BY DEF MapOK, TreeType, Paint, Same, Nil

LEMMA Replaced ==
    ASSUME MapOK, NEW tr, TreeType(tr), NEW old \in Keys, NEW new \in Nil
    PROVE  LET u == ReplaceNode(tr, old, new)  p == tr.parent[old] IN
           /\ TreeType(u) /\ u.color = tr.color
           /\ u.root = IF p = None THEN new ELSE tr.root
           /\ \A m \in Keys, x \in Sides :
                u[x][m] = IF p # None /\ m = p /\ x = Side(tr, old) THEN new ELSE tr[x][m]
           /\ \A m \in Keys : u.parent[m] = IF m = new THEN p ELSE tr.parent[m]
  BY DEF MapOK, TreeType, ReplaceNode, Side, Sides, Nil

\* v is tr with node n turned down to side s, below its child up.
Turned(tr, v, n, s) ==
    LET up == tr[Opposite(s)][n]  inner == tr[s][up] IN
    /\ TreeType(v)
    /\ v.root = IF n = tr.root THEN up ELSE tr.root
    /\ v[s][n] = tr[s][n] /\ v[Opposite(s)][n] = inner
    /\ v[s][up] = n /\ v[Opposite(s)][up] = tr[Opposite(s)][up]
    /\ \A m \in Keys \ {n, up}, x \in Sides : v[x][m] = IF tr[x][m] = n THEN up ELSE tr[x][m]
    /\ v.parent[n] = up /\ v.parent[up] = tr.parent[n] /\ (inner # None => v.parent[inner] = n)
    /\ \A m \in Keys \ {n, up, inner} : v.parent[m] = tr.parent[m]

LEMMA Opposites ==
    ASSUME NEW s \in Sides
    PROVE  /\ Opposite(s) \in Sides /\ Opposite(s) # s /\ Opposite(Opposite(s)) = s
           /\ \A x \in Sides : x = s \/ x = Opposite(s)
  BY DEF Sides, Opposite

LEMMA Types ==
    ASSUME MapOK, NEW tr, TreeType(tr)
    PROVE  /\ tr.root \in Nil /\ None \notin Keys
           /\ \A n \in Keys : tr.parent[n] \in Nil /\ tr.color[n] \in {"red", "black"}
           /\ \A n \in Keys, s \in Sides : tr[s][n] \in Nil
           /\ Nodes(tr) \subseteq Keys
           /\ \A n : n \in Nodes(tr) <=> n \in Keys /\ (n = tr.root \/ tr.parent[n] # None)
  BY DEF MapOK, TreeType, Sides, Nil, Nodes

\* No two nodes are the parents of each other.
LEMMA Pair ==
    ASSUME MapOK, NEW tr, Shape(tr), NEW n \in Nodes(tr), NEW m \in Nodes(tr), tr.parent[n] = m
    PROVE  tr.parent[m] # n /\ n # m
<1>1. n \in Keys /\ m \in Keys /\ m # None BY Types DEF Shape
<1>2. tr.root # None => tr.parent[tr.root] = None BY DEF Shape, Agree
<1>3. ASSUME tr.parent[m] = n PROVE FALSE
  <2>1. {n, m} \in SUBSET (Nodes(tr) \ {tr.root}) BY <1>1, <1>2, <1>3, Types DEF Shape
  <2>2. \E k \in {n, m} : tr.parent[k] \notin {n, m} BY <2>1 DEF Shape, Hang
  <2> QED BY <1>3, <2>2
<1> QED BY <1>3

\* The child of a node.
LEMMA Child ==
    ASSUME MapOK, NEW tr, Shape(tr), NEW n \in Keys, NEW s \in Sides, tr[s][n] # None
    PROVE  /\ tr[s][n] \in Nodes(tr) /\ tr[s][n] \in Keys /\ n \in Nodes(tr)
           /\ tr.parent[tr[s][n]] = n /\ tr[s][n] # n /\ tr[s][n] # tr.root
           /\ tr.parent[n] # tr[s][n] /\ tr[Opposite(s)][n] # tr[s][n]
<1> DEFINE c == tr[s][n]
<1>1. c \in Keys /\ n \in Keys BY Types DEF Shape, Nil
<1>2. n \in Nodes(tr) /\ tr.parent[c] = n BY DEF Shape, Agree
<1>3. c \in Nodes(tr) BY <1>1, <1>2, Types DEF Shape
<1>4. c # tr.root BY <1>1, <1>2, Types DEF Shape, Agree
<1>5. tr.parent[n] # c /\ c # n BY <1>2, <1>3, Pair
<1>6. tr.left[n] # None => tr.left[n] # tr.right[n] BY DEF Shape, Agree
<1>7. tr[Opposite(s)][n] # c BY <1>6 DEF Sides, Opposite
<1> QED BY <1>1, <1>2, <1>3, <1>4, <1>5, <1>7

\* The parent of a node.
LEMMA Parent ==
    ASSUME MapOK, NEW tr, Shape(tr), NEW n \in Nodes(tr)
    PROVE  /\ n = tr.root <=> tr.parent[n] = None
           /\ n # tr.root =>
                 /\ tr.parent[n] \in Nodes(tr) /\ tr.parent[n] # n /\ Side(tr, n) \in Sides
                 /\ \A s \in Sides : tr[s][tr.parent[n]] = n <=> s = Side(tr, n)
<1>1. n \in Keys /\ n # None BY Types DEF Shape
<1>2. n = tr.root <=> tr.parent[n] = None BY <1>1, Types DEF Shape, Agree
<1>3. ASSUME n # tr.root
      PROVE  /\ tr.parent[n] \in Nodes(tr) /\ tr.parent[n] # n /\ Side(tr, n) \in Sides
             /\ \A s \in Sides : tr[s][tr.parent[n]] = n <=> s = Side(tr, n)
  <2>1. tr.parent[n] \in Nodes(tr) /\ \E s \in Sides : tr[s][tr.parent[n]] = n
    BY <1>1, <1>2, <1>3 DEF Shape, Agree
  <2>2. tr.parent[n] # n BY <2>1, Pair
  <2>3. tr.parent[n] \in Keys BY <2>1, Types DEF Shape
  <2>4. tr.left[tr.parent[n]] # None => tr.left[tr.parent[n]] # tr.right[tr.parent[n]]
    BY <2>3 DEF Shape, Agree
  <2>5. Side(tr, n) \in Sides /\ \A s \in Sides : tr[s][tr.parent[n]] = n <=> s = Side(tr, n)
    BY <1>1, <2>1, <2>4 DEF Side, Sides
  <2> QED BY <2>1, <2>2, <2>5
<1> QED BY <1>2, <1>3

LEMMA Rotates ==
    ASSUME MapOK, NEW tr, Shape(tr), NEW n \in Nodes(tr), NEW s \in Sides,
           tr[Opposite(s)][n] # None
    PROVE  Turned(tr, Rotate(tr, n, s), n, s) /\ Rotate(tr, n, s).color = tr.color
<1> DEFINE up == tr[Opposite(s)][n]
           u  == ReplaceNode(tr, n, up)
           p  == tr.parent[n]
           inner == tr[s][up]
           v  == [u EXCEPT ![Opposite(s)][n] = inner, ![s][up] = n, !.parent[n] = up]
           w  == IF inner = None THEN v ELSE [v EXCEPT !.parent[inner] = n]
<1>1. /\ n \in Keys /\ up \in Keys /\ inner \in Nil /\ p \in Nil /\ up # n /\ TreeType(tr)
      /\ tr.parent[up] = n /\ p # up /\ p # n /\ n # None
      /\ Opposite(s) \in Sides /\ Opposite(s) # s /\ \A x \in Sides : x = s \/ x = Opposite(s)
  <2>1. n \in Keys /\ n # None /\ TreeType(tr) /\ p \in Nil BY Types DEF Shape
  <2>2. Opposite(s) \in Sides /\ Opposite(s) # s /\ \A x \in Sides : x = s \/ x = Opposite(s)
    BY Opposites
  <2>3. up \in Keys /\ up # n /\ tr.parent[up] = n /\ p # up BY <2>1, <2>2, Child
  <2>4. tr[s][up] \in Nil BY <2>1, <2>3, Types
  <2>5. p # n BY <2>1, Parent
  <2> QED BY <2>1, <2>2, <2>3, <2>4, <2>5
<1>2. /\ inner # None => tr.parent[inner] = up
      /\ inner # up /\ inner # n
  <2>1. CASE inner = None BY <1>1, <2>1, Types
  <2>2. CASE inner # None
    <3> HIDE DEF up
    <3>1. up \in Keys /\ tr[s][up] # None BY <1>1, <2>2
    <3>2. tr.parent[inner] = up /\ inner # up /\ tr.parent[up] # inner BY <3>1, Child
    <3> QED BY <1>1, <3>2
  <2> QED BY <2>1, <2>2
<1>3. p = None <=> n = tr.root BY Parent
<1>4. /\ TreeType(u) /\ u.color = tr.color
      /\ u.root = IF p = None THEN up ELSE tr.root
      /\ \A m \in Keys, x \in Sides :
           u[x][m] = IF p # None /\ m = p /\ x = Side(tr, n) THEN up ELSE tr[x][m]
      /\ \A m \in Keys : u.parent[m] = IF m = up THEN p ELSE tr.parent[m]
  <2>1. up \in Nil BY <1>1 DEF Nil
  <2> HIDE DEF up
  <2> QED BY <1>1, <2>1, Replaced
<1>5. Rotate(tr, n, s) = w
  <2>1. u[s][up] = inner BY <1>1, <1>4
  <2> QED BY <2>1 DEF Rotate
<1> HIDE DEF u
<1>6. /\ TreeType(w) /\ w.color = u.color /\ w.root = u.root
      /\ \A m \in Keys, x \in Sides :
           w[x][m] = IF m = n /\ x # s THEN inner ELSE IF m = up /\ x = s THEN n ELSE u[x][m]
      /\ \A m \in Keys :
           w.parent[m] = IF m = n THEN up ELSE IF m = inner THEN n ELSE u.parent[m]
  <2> HIDE DEF inner, up, p
  <2>1. n \in Keys /\ up \in Keys /\ inner \in Nil /\ None \notin Keys /\ s \in Sides BY <1>1, Types
  <2>2. TreeType(u) BY <1>4
  <2>3. CASE s = "left" /\ inner = None
    BY <1>1, <1>2, <2>1, <2>2, <2>3 DEF TreeType, Sides, Nil, Opposite
  <2>4. CASE s = "left" /\ inner # None
    BY <1>1, <1>2, <2>1, <2>2, <2>4 DEF TreeType, Sides, Nil, Opposite
  <2>5. CASE s = "right" /\ inner = None
    BY <1>1, <1>2, <2>1, <2>2, <2>5 DEF TreeType, Sides, Nil, Opposite
  <2>6. CASE s = "right" /\ inner # None
    BY <1>1, <1>2, <2>1, <2>2, <2>6 DEF TreeType, Sides, Nil, Opposite
  <2> QED BY <2>1, <2>3, <2>4, <2>5, <2>6 DEF Sides
<1> HIDE DEF w
<1>7. ASSUME NEW m \in Keys \ {n, up}, NEW x \in Sides
      PROVE  w[x][m] = IF tr[x][m] = n THEN up ELSE tr[x][m]
  <2>1. w[x][m] = u[x][m] BY <1>6
  <2>2. tr[x][m] = n => tr.parent[n] = m BY Child, <1>1
  <2>3. p # None => (tr[x][p] = n <=> x = Side(tr, n)) BY Parent, <1>3
  <2> QED BY <1>1, <1>4, <2>1, <2>2, <2>3, Types DEF Shape
<1>8. /\ w[s][n] = tr[s][n] /\ w[Opposite(s)][n] = inner
      /\ w[s][up] = n /\ w[Opposite(s)][up] = tr[Opposite(s)][up]
  <2>1. \A x \in Sides : u[x][n] = tr[x][n] /\ u[x][up] = tr[x][up] BY <1>1, <1>4
  <2> HIDE DEF up, inner, p
  <2> QED BY <1>1, <1>6, <2>1
<1>9. /\ w.parent[n] = up /\ w.parent[up] = p /\ (inner # None => w.parent[inner] = n)
      /\ \A m \in Keys \ {n, up, inner} : w.parent[m] = tr.parent[m]
  BY <1>1, <1>2, <1>4, <1>6 DEF Nil
<1> QED BY <1>3, <1>4, <1>5, <1>6, <1>7, <1>8, <1>9 DEF Turned

\* The shape of a tree depends on its pointers only.
LEMMA SameShape ==
    ASSUME MapOK, NEW tr, Shape(tr), NEW v, TreeType(v), Same(tr, v)
    PROVE  Shape(v) /\ Nodes(v) = Nodes(tr) /\ \A s \in Sides : v[s] = tr[s]
<1>1. Nodes(v) = Nodes(tr) BY DEF Nodes, Same
<1>2. \A s \in Sides : v[s] = tr[s] BY DEF Same, Sides
<1>3. Agree(v) BY <1>1, <1>2 DEF Shape, Agree, Same
<1>4. Hang(v) BY <1>1 DEF Shape, Hang, Same
<1> QED BY <1>1, <1>2, <1>3, <1>4 DEF Shape

\* A rotation keeps the shape.
LEMMA TurnShape ==
    ASSUME MapOK, NEW tr, Shape(tr), NEW n \in Nodes(tr), NEW s \in Sides,
           tr[Opposite(s)][n] # None, NEW v, Turned(tr, v, n, s)
    PROVE  Shape(v) /\ Nodes(v) = Nodes(tr)
<1> DEFINE up == tr[Opposite(s)][n]
           inner == tr[s][up]
<1>1. /\ n \in Keys /\ Opposite(s) \in Sides /\ Opposite(s) # s
      /\ \A x \in Sides : x = s \/ x = Opposite(s)
  BY Types, Opposites DEF Shape
<1>2. /\ up \in Nodes(tr) /\ up \in Keys /\ up # None /\ up # n /\ up # tr.root
      /\ tr.parent[up] = n /\ tr.parent[n] # up /\ tr[s][n] # up /\ tr.parent[n] # n
  <2>1. /\ up \in Nodes(tr) /\ up \in Keys /\ up # n /\ up # tr.root
        /\ tr.parent[up] = n /\ tr.parent[n] # up /\ tr[Opposite(Opposite(s))][n] # up
    BY <1>1, Child
  <2>2. tr.parent[n] # n BY Parent, <1>1, Types DEF Shape
  <2> QED BY <2>1, <2>2, Opposites
<1>3. /\ v[s][n] = tr[s][n] /\ v[Opposite(s)][n] = inner
      /\ v[s][up] = n /\ v[Opposite(s)][up] = tr[Opposite(s)][up]
      /\ \A m \in Keys \ {n, up}, x \in Sides : v[x][m] = IF tr[x][m] = n THEN up ELSE tr[x][m]
      /\ v.parent[n] = up /\ v.parent[up] = tr.parent[n] /\ (inner # None => v.parent[inner] = n)
      /\ \A m \in Keys \ {n, up, inner} : v.parent[m] = tr.parent[m]
      /\ v.root = IF n = tr.root THEN up ELSE tr.root
      /\ TreeType(v)
  BY DEF Turned
<1> HIDE DEF up
<1>4. /\ inner # None => inner \in Nodes(tr) /\ inner \in Keys /\ tr.parent[inner] = up /\ inner # tr.root
      /\ inner # up /\ inner # n
  <2>1. CASE inner = None BY <1>1, <1>2, <2>1, Types DEF Shape
  <2>2. CASE inner # None
    <3>1. /\ inner \in Nodes(tr) /\ inner \in Keys /\ inner # tr.root
          /\ tr.parent[inner] = up /\ inner # up /\ tr.parent[up] # inner
      BY <1>2, <2>2, Child
    <3> QED BY <1>2, <3>1
  <2> QED BY <2>1, <2>2
<1> HIDE DEF inner
<1>5. /\ tr.root # None => tr.parent[tr.root] = None
      /\ \A m \in Keys : tr.parent[m] \in Nil
      /\ None \notin Keys /\ tr.root \in Nil
  BY Types DEF Shape, Agree
<1>6. \A m \in Keys :
        v.parent[m] = None <=> (tr.parent[m] = None /\ m # n) \/ (m = up /\ n = tr.root)
  <2>1. tr.parent[n] = None <=> n = tr.root BY Parent
  <2>2. inner # None => v.parent[inner] # None BY <1>1, <1>3, <1>5
  <2> QED BY <1>1, <1>2, <1>3, <1>4, <1>5, <2>1, <2>2
<1>7. Nodes(v) = Nodes(tr)
  <2>1. ASSUME NEW m \in Keys PROVE m \in Nodes(v) <=> m \in Nodes(tr)
    <3>1. m \in Nodes(v) <=> m = v.root \/ v.parent[m] # None BY <1>3, Types
    <3>2. m \in Nodes(tr) <=> m = tr.root \/ tr.parent[m] # None BY Types DEF Shape
    <3> QED BY <1>1, <1>2, <1>3, <1>6, <3>1, <3>2
  <2> QED BY <2>1, <1>3, Types DEF Shape
<1>8. ASSUME NEW k \in Keys, NEW y \in Sides, tr[y][k] # None
      PROVE  /\ tr[y][k] \in Keys /\ tr[y][k] # k /\ k \in Nodes(tr) /\ tr.parent[tr[y][k]] = k
             /\ tr[Opposite(y)][k] # tr[y][k]
  BY <1>8, Child
<1>9. Agree(v)
  <2>1. v.root # None => v.parent[v.root] = None BY <1>2, <1>3, <1>4, <1>5, <1>6 DEF Nil
  <2>2. ASSUME NEW m \in Keys, NEW x \in Sides, v[x][m] # None
        PROVE  m \in Nodes(v) /\ v.parent[v[x][m]] = m
    <3>1. m \in Nodes(v)
      <4>1. m # n /\ m # up /\ tr[x][m] # n => tr[x][m] # None BY <1>3, <2>2
      <4> QED BY <1>1, <1>2, <1>5, <1>7, <1>8, <4>1
    <3>2. CASE m = n /\ x = s
      <4>1. v[x][m] = tr[s][n] BY <1>3, <3>2
      <4>2. tr[s][n] \in Keys /\ tr[s][n] # n /\ tr.parent[tr[s][n]] = n BY <1>1, <1>8, <2>2, <4>1
      <4>3. tr[s][n] # inner BY <1>2, <1>4, <2>2, <4>1, <4>2
      <4>4. tr[s][n] \in Keys \ {n, up, inner} BY <1>2, <4>2, <4>3
      <4>5. v.parent[tr[s][n]] = n BY <1>3, <4>2, <4>4
      <4> QED BY <3>1, <3>2, <4>1, <4>5
    <3>3. CASE m = n /\ x = Opposite(s)
      <4>1. v[x][m] = inner BY <1>3, <3>3
      <4> QED BY <1>3, <2>2, <3>1, <3>3, <4>1
    <3>4. CASE m = up /\ x = s
      <4>1. v[x][m] = n BY <1>3, <3>4
      <4> QED BY <1>3, <3>1, <3>4, <4>1
    <3>5. CASE m = up /\ x = Opposite(s)
      <4>1. v[x][m] = tr[x][up] BY <1>3, <3>5
      <4>2. tr[x][up] \in Keys /\ tr[x][up] # up /\ tr.parent[tr[x][up]] = up
            /\ tr[Opposite(x)][up] # tr[x][up]
        BY <1>2, <1>8, <2>2, <4>1
      <4>3. tr[x][up] # inner /\ tr[x][up] # n BY <1>2, <3>5, <4>2, Opposites DEF inner
      <4>4. tr[x][up] \in Keys \ {n, up, inner} BY <4>2, <4>3
      <4>5. v.parent[tr[x][up]] = up BY <1>3, <4>2, <4>4
      <4> QED BY <3>1, <3>5, <4>1, <4>5
    <3>6. CASE m # n /\ m # up /\ tr[x][m] = n
      <4>1. v[x][m] = up BY <1>3, <3>6
      <4>2. tr.parent[n] = m BY <1>1, <1>5, <1>8, <3>6
      <4> QED BY <1>3, <3>1, <4>1, <4>2
    <3>7. CASE m # n /\ m # up /\ tr[x][m] # n
      <4>1. v[x][m] = tr[x][m] BY <1>3, <3>7
      <4>2. tr[x][m] \in Keys /\ tr.parent[tr[x][m]] = m BY <1>8, <2>2, <4>1
      <4>3. tr[x][m] # up /\ tr[x][m] # inner BY <1>2, <1>4, <1>5, <3>7, <4>2
      <4>4. tr[x][m] \in Keys \ {n, up, inner} BY <3>7, <4>2, <4>3
      <4>5. v.parent[tr[x][m]] = m BY <1>3, <4>2, <4>4
      <4> QED BY <3>1, <4>1, <4>5
    <3> QED BY <1>1, <3>2, <3>3, <3>4, <3>5, <3>6, <3>7
  <2>3. ASSUME NEW m \in Keys, v.parent[m] # None
        PROVE  v.parent[m] \in Nodes(v) /\ \E x \in Sides : v[x][v.parent[m]] = m
    <3>1. CASE m = n BY <1>1, <1>2, <1>3, <1>7, <3>1
    <3>2. CASE m = up
      <4>1. v.parent[m] = tr.parent[n] /\ n # tr.root BY <1>2, <1>3, <1>6, <2>3, <3>2
      <4>2. tr.parent[n] \in Nodes(tr) /\ tr.parent[n] # n /\ \E x \in Sides : tr[x][tr.parent[n]] = n
        BY <4>1, Parent
      <4>3. tr.parent[n] \in Keys \ {n, up} BY <1>2, <4>2, Types DEF Shape
      <4>4. PICK x \in Sides : tr[x][tr.parent[n]] = n BY <4>2
      <4>5. v[x][tr.parent[n]] = up BY <1>3, <4>3, <4>4
      <4> QED BY <1>7, <3>2, <4>1, <4>2, <4>5
    <3>3. CASE m = inner
      <4>1. v.parent[m] = n /\ v[Opposite(s)][n] = m BY <1>3, <1>5, <3>3
      <4> QED BY <1>1, <1>7, <4>1
    <3>4. CASE m # n /\ m # up /\ m # inner
      <4>1. v.parent[m] = tr.parent[m] /\ m \in Nodes(tr) /\ m # tr.root
        BY <1>3, <1>5, <2>3, <3>4, Types DEF Shape
      <4>2. PICK x \in Sides : tr[x][tr.parent[m]] = m BY <4>1, Parent
      <4>3. tr.parent[m] \in Nodes(tr) /\ tr.parent[m] \in Keys BY <4>1, Parent, Types DEF Shape
      <4>4. v[x][tr.parent[m]] = m
        <5>1. CASE tr.parent[m] = n
          <6>1. x = s BY <1>1, <3>4, <4>2, <5>1 DEF up
          <6> QED BY <1>3, <4>2, <5>1, <6>1
        <5>2. CASE tr.parent[m] = up
          <6>1. x = Opposite(s) BY <1>1, <3>4, <4>2, <5>2 DEF inner
          <6> QED BY <1>3, <4>2, <5>2, <6>1
        <5>3. CASE tr.parent[m] # n /\ tr.parent[m] # up
          BY <1>3, <3>4, <4>2, <4>3, <5>3
        <5> QED BY <5>1, <5>2, <5>3
      <4> QED BY <1>7, <4>1, <4>3, <4>4
    <3> QED BY <3>1, <3>2, <3>3, <3>4
  <2>4. ASSUME NEW m \in Keys, v.left[m] # None, v.left[m] = v.right[m] PROVE FALSE
    <3>1. \A x \in Sides : v[x][m] = v.left[m] BY <2>4 DEF Sides
    <3>2. v[s][m] = v[Opposite(s)][m] BY <1>1, <3>1
    <3>3. v[s][m] # None BY <2>4, <3>1
    <3>4. CASE m = n
      <4>1. tr[s][n] = inner BY <1>3, <3>2, <3>4
      <4> QED BY <1>1, <1>2, <1>3, <1>4, <1>8, <3>3, <3>4, <4>1
    <3>5. CASE m = up
      <4>1. tr[Opposite(s)][up] = n BY <1>3, <3>2, <3>5
      <4> QED BY <1>1, <1>2, <1>5, <1>8, <4>1
    <3>6. CASE m # n /\ m # up
      <4>1. ASSUME NEW y \in Sides PROVE tr[y][m] # up BY <1>2, <1>5, <1>8, <3>6
      <4>2. ASSUME NEW y \in Sides PROVE v[y][m] = IF tr[y][m] = n THEN up ELSE tr[y][m]
        BY <1>3, <3>6
      <4>3. tr[s][m] = tr[Opposite(s)][m] BY <1>1, <3>2, <4>1, <4>2
      <4>4. tr[s][m] # None BY <1>1, <1>5, <3>3, <4>2
      <4> QED BY <1>8, <4>3, <4>4
    <3> QED BY <3>4, <3>5, <3>6
  <2> QED BY <2>1, <2>2, <2>3, <2>4 DEF Agree
<1>10. Hang(v)
  <2>1. SUFFICES ASSUME NEW S \in SUBSET (Nodes(v) \ {v.root}), S # {}, \A m \in S : v.parent[m] \in S
                 PROVE  FALSE
    BY DEF Hang
  <2> DEFINE R == IF up \in S THEN S \cup {n} ELSE S
  <2>2. S \subseteq Keys /\ S \subseteq Nodes(tr) BY <1>7, Types DEF Shape
  <2>3. n \in S => up \in S BY <1>1, <1>3, <2>1
  <2>4. up \in S => n # tr.root /\ tr.parent[n] \in S BY <1>2, <1>3, <2>1
  <2>5. R \in SUBSET (Nodes(tr) \ {tr.root}) /\ R # {} BY <1>2, <1>3, <1>7, <2>1, <2>2, <2>3, <2>4
  <2>6. ASSUME NEW m \in R PROVE tr.parent[m] \in R
    <3>1. CASE m = n BY <2>3, <2>4, <2>6, <3>1
    <3>2. CASE m = up BY <1>2, <2>6, <3>2
    <3>3. CASE m # n /\ m # up
      <4>1. m \in S /\ m \in Keys BY <2>2, <2>6, <3>3
      <4>2. v.parent[m] \in S BY <2>1, <4>1
      <4>3. CASE m = inner
        <5>1. v.parent[m] = n /\ tr.parent[m] = up BY <1>2, <1>3, <1>4, <1>5, <3>3, <4>1, <4>3
        <5> QED BY <2>3, <4>2, <5>1
      <4>4. CASE m # inner
        <5>1. v.parent[m] = tr.parent[m] BY <1>3, <3>3, <4>1, <4>4
        <5> QED BY <4>2, <5>1
      <4> QED BY <4>3, <4>4
    <3> QED BY <3>1, <3>2, <3>3
  <2> QED BY <2>5, <2>6 DEF Shape, Hang
<1> QED BY <1>3, <1>7, <1>9, <1>10 DEF Shape

\* The nodes of a rotation.
LEMMA Turning ==
    ASSUME MapOK, NEW tr, Shape(tr), NEW n \in Nodes(tr), NEW s \in Sides,
           tr[Opposite(s)][n] # None
    PROVE  LET o == Opposite(s)  up == tr[o][n]  inner == tr[s][up] IN
           /\ n \in Keys /\ n # None /\ o \in Sides /\ o # s /\ Opposite(o) = s
           /\ \A x \in Sides : x = s \/ x = o
           /\ up \in Keys /\ up \in Nodes(tr) /\ up # None /\ up # n /\ up # tr.root
           /\ tr[s][n] # up /\ tr[o][up] # n /\ tr[s][n] # n
           /\ tr.parent[up] = n /\ tr.parent[n] # up /\ tr.parent[n] # n
           /\ tr[s][n] \in Nil \ {n, up} /\ inner \in Nil \ {n, up} /\ tr[o][up] \in Nil \ {n, up}
           /\ inner # None => tr.parent[inner] = up /\ inner \in Nodes(tr)
<1> DEFINE o == Opposite(s)
           up == tr[o][n]
           inner == tr[s][up]
<1>1. n \in Keys /\ n # None /\ \A k \in Keys, y \in Sides : tr[y][k] \in Nil BY Types DEF Shape
<1>2. o \in Sides /\ o # s /\ Opposite(o) = s /\ \A x \in Sides : x = s \/ x = o BY Opposites
<1>3. /\ up \in Nodes(tr) /\ up \in Keys /\ up # n /\ up # tr.root
      /\ tr.parent[up] = n /\ tr.parent[n] # up /\ tr[Opposite(o)][n] # up
  BY <1>1, <1>2, Child
<1>4. tr.parent[n] # n /\ n \notin {tr.parent[up]} \ {n} BY Parent, <1>1
<1>5. ASSUME NEW y \in Sides, NEW k \in Keys, tr[y][k] # None
      PROVE  tr[y][k] # k /\ tr.parent[tr[y][k]] = k /\ tr[y][k] \in Nodes(tr)
  BY <1>5, Child
<1>6. tr[s][n] # n /\ tr[o][up] # n /\ tr[o][up] # up /\ inner # n /\ inner # up
  <2>1. tr[s][n] # n BY <1>1, <1>5
  <2> HIDE DEF up
  <2>2. ASSUME NEW y \in Sides PROVE tr[y][up] # n /\ tr[y][up] # up
    <3>1. tr[y][up] # None => tr[y][up] # up /\ tr.parent[tr[y][up]] = up BY <1>3, <1>5
    <3> QED BY <1>1, <1>3, <3>1, Types DEF Shape
  <2>3. inner # n /\ inner # up BY <2>2
  <2> QED BY <1>2, <2>1, <2>2, <2>3
<1>7. inner # None => tr.parent[inner] = up /\ inner \in Nodes(tr) BY <1>3, <1>5
<1> HIDE DEF up, inner, o
<1>8. tr[s][n] # up /\ tr[o][up] \in Nil /\ inner \in Nil /\ tr[s][n] \in Nil
  BY <1>1, <1>2, <1>3 DEF inner
<1> QED BY <1>1, <1>2, <1>3, <1>4, <1>6, <1>7, <1>8, Types DEF up, inner, o, Shape

\* Order on either side.
LEMMA Sided ==
    ASSUME MapOK, NEW s \in Sides, NEW i \in Keys, NEW j \in Keys
    PROVE  /\ Less(s, i, j) <=> Less(Opposite(s), j, i)
           /\ ~Less(s, i, i) /\ (Less(s, i, j) => ~Less(s, j, i))
           /\ i # j => Less(s, i, j) \/ Less(s, j, i)
           /\ \A k \in Keys : Less(s, i, j) /\ Less(s, j, k) => Less(s, i, k)
  BY DEF MapOK, Less, Opposite, Sides

\* What Bounded says of a child.
LEMMA ChildBounds ==
    ASSUME MapOK, NEW tr, NEW b \in Bounds, NEW waived, Bounded(tr, b, waived),
           NEW n \in Keys, NEW s \in Sides, tr[s][n] # None
    PROVE  /\ b[s][tr[s][n]] = b[s][n]
           /\ n # waived => b[Opposite(s)][tr[s][n]] = n
           /\ n = waived => b[Opposite(s)][tr[s][n]] = b[Opposite(s)][n]
  BY DEF Bounded

\* A rotation of two nodes other than the waived one keeps the order.
LEMMA TurnBounds ==
    ASSUME MapOK, NEW tr, Shape(tr), NEW n \in Nodes(tr), NEW s \in Sides,
           tr[Opposite(s)][n] # None, NEW v, Turned(tr, v, n, s),
           NEW waived, waived \notin {n, tr[Opposite(s)][n]},
           NEW b \in Bounds, Bounded(tr, b, waived)
    PROVE  \E c \in Bounds : Bounded(v, c, waived)
<1> DEFINE o  == Opposite(s)
           up == tr[o][n]
           inner == tr[s][up]
           c == [x \in Sides |-> [m \in Keys |->
                   IF x = s /\ m = up THEN b[s][n] ELSE IF x = o /\ m = n THEN up ELSE b[x][m]]]
<1>1. /\ n \in Keys /\ o \in Sides /\ o # s /\ Opposite(o) = s
      /\ \A x \in Sides : x = s \/ x = o
  BY Types, Opposites DEF Shape
<1>2. up \in Keys /\ up \in Nodes(tr) /\ up # None /\ up # n /\ up # tr.root /\ tr[s][n] # up
  BY <1>1, Child
<1>3. \A x \in Sides, m \in Keys : b[x][m] \in Nil BY DEF Bounds
<1>4. b[o][up] = b[o][n] /\ b[s][up] = n BY <1>1, ChildBounds
<1> HIDE DEF up
<1>5. c \in Bounds BY <1>1, <1>2, <1>3 DEF Bounds, Nil
<1>6. /\ c[s][up] = b[s][n] /\ c[o][up] = b[o][n] /\ c[o][n] = up /\ c[s][n] = b[s][n]
      /\ \A x \in Sides, m \in Keys \ {n, up} : c[x][m] = b[x][m]
  BY <1>1, <1>2, <1>4
<1> HIDE DEF c
<1>7. Nodes(v) = Nodes(tr) /\ Shape(v) BY TurnShape
<1>8. v.root # None => \A x \in Sides : c[x][v.root] = None
  <2>1. v.root = IF n = tr.root THEN up ELSE tr.root BY DEF Turned, up
  <2>2. tr.root # None => \A x \in Sides : b[x][tr.root] = None BY DEF Bounded
  <2>3. tr.root \in Nil BY Types DEF Shape
  <2>4. CASE n = tr.root BY <1>1, <1>2, <1>6, <2>1, <2>2, <2>4, Types DEF Shape
  <2>5. CASE n # tr.root BY <1>2, <1>6, <2>1, <2>2, <2>3, <2>5 DEF Nil
  <2> QED BY <2>4, <2>5
<1>9. ASSUME NEW m \in Keys, NEW x \in Sides, v[x][m] # None
      PROVE  /\ c[x][v[x][m]] = c[x][m]
             /\ c[Opposite(x)][v[x][m]] = IF m = waived THEN c[Opposite(x)][m] ELSE m
  <2>1. /\ v[s][n] = tr[s][n] /\ v[o][n] = inner /\ v[s][up] = n /\ v[o][up] = tr[o][up]
        /\ m \notin {n, up} => v[x][m] = IF tr[x][m] = n THEN up ELSE tr[x][m]
    BY DEF Turned, up
  <2>2. \A k \in Keys, y \in Sides : tr[y][k] # None =>
          tr[y][k] \in Keys /\ tr.parent[tr[y][k]] = k /\ tr[y][k] # k
    BY Child
  <2>3. /\ tr.parent[up] = n /\ tr.parent[n] # up /\ tr.parent[n] # n
        /\ inner \in Nil \ {n, up} /\ tr[o][up] \in Nil \ {n, up}
    BY Turning DEF up
  <2>10. waived # up BY DEF up
  <2>4. CASE m = n /\ x = s
    <3>1. v[x][m] = tr[s][n] /\ tr[s][n] # None BY <1>9, <2>1, <2>4
    <3>2. tr[s][n] \in Keys \ {n, up} BY <1>1, <1>2, <2>2, <3>1
    <3>3. b[s][tr[s][n]] = b[s][n] /\ b[o][tr[s][n]] = n BY <1>1, <3>1, ChildBounds
    <3>4. c[s][tr[s][n]] = b[s][n] /\ c[o][tr[s][n]] = n BY <1>1, <1>6, <3>2, <3>3
    <3>5. c[s][n] = b[s][n] /\ n # waived BY <1>6
    <3> QED BY <1>1, <2>4, <3>1, <3>4, <3>5
  <2>5. CASE m = n /\ x = o
    <3>1. v[x][m] = inner /\ inner # None BY <1>9, <2>1, <2>5
    <3>2. inner \in Keys \ {n, up} BY <2>3, <3>1 DEF Nil
    <3>3. b[s][inner] = b[s][up] /\ b[o][inner] = up BY <1>1, <1>2, <2>10, <3>1, ChildBounds
    <3>4. c[o][inner] = up /\ c[s][inner] = n BY <1>1, <1>4, <1>6, <3>2, <3>3
    <3>5. c[o][n] = up /\ n # waived BY <1>6
    <3> QED BY <1>1, <2>5, <3>1, <3>4, <3>5
  <2>6. CASE m = up /\ x = s
    BY <1>1, <1>6, <2>1, <2>6 DEF up
  <2>7. CASE m = up /\ x = o
    <3>1. v[x][m] = tr[o][up] /\ tr[o][up] # None BY <1>9, <2>1, <2>7
    <3>2. tr[o][up] \in Keys \ {n, up} BY <2>3, <3>1 DEF Nil
    <3>3. b[o][tr[o][up]] = b[o][up] /\ b[s][tr[o][up]] = up
      BY <1>1, <1>2, <2>10, <3>1, ChildBounds
    <3>4. c[o][tr[o][up]] = b[o][n] /\ c[s][tr[o][up]] = up BY <1>1, <1>4, <1>6, <3>2, <3>3
    <3>5. c[o][up] = b[o][n] BY <1>6
    <3> QED BY <1>1, <2>7, <2>10, <3>1, <3>4, <3>5
  <2>8. CASE m \notin {n, up} /\ tr[x][m] = n
    <3>1. v[x][m] = up BY <2>1, <2>8
    <3>2. n # None BY <1>1, Types DEF Shape
    <3>3. /\ b[x][n] = b[x][m]
          /\ b[Opposite(x)][n] = IF m = waived THEN b[Opposite(x)][m] ELSE m
      BY <2>8, <3>2, ChildBounds
    <3>4. \A y \in Sides : c[y][up] = b[y][n] /\ c[y][m] = b[y][m] BY <1>1, <1>6, <2>8
    <3> QED BY <3>1, <3>3, <3>4, Opposites
  <2>9. CASE m \notin {n, up} /\ tr[x][m] # n
    <3>1. v[x][m] = tr[x][m] BY <2>1, <2>9
    <3>2. tr[x][m] \in Keys \ {n, up} BY <1>9, <2>2, <2>3, <2>9, <3>1
    <3>3. /\ b[x][tr[x][m]] = b[x][m]
          /\ b[Opposite(x)][tr[x][m]] = IF m = waived THEN b[Opposite(x)][m] ELSE m
      BY <1>9, <3>1, ChildBounds
    <3>4. \A y \in Sides : c[y][tr[x][m]] = b[y][tr[x][m]] /\ c[y][m] = b[y][m] BY <1>6, <2>9, <3>2
    <3> QED BY <3>1, <3>3, <3>4, Opposites
  <2> QED BY <1>1, <2>4, <2>5, <2>6, <2>7, <2>8, <2>9
<1>10. ASSUME NEW m \in Nodes(v) \ {waived} PROVE Inside(c, m, m)
  <2>1. m \in Keys /\ Inside(b, m, m) BY <1>7, Types DEF Bounded, Shape
  <2>2. Inside(b, n, n) /\ Inside(b, up, up) BY <1>2 DEF Bounded, up
  <2>3. Less(s, n, up) /\ Less(o, up, n)
    <3>1. Less(s, n, up) BY <1>1, <1>4, <2>2, Types DEF Inside, Shape
    <3> QED BY <1>1, <1>2, <3>1, Sided
  <2>4. CASE m = n BY <1>1, <1>6, <2>2, <2>3, <2>4 DEF Inside
  <2>5. CASE m = up
    <3>1. c[o][up] = None \/ Less(o, c[o][up], up) BY <1>1, <1>4, <1>6, <2>2 DEF Inside
    <3>2. b[s][n] # None => Less(s, b[s][n], n) /\ b[s][n] \in Keys BY <1>1, <1>3, <2>2 DEF Inside, Nil
    <3>3. ASSUME b[s][n] # None PROVE Less(s, b[s][n], up)
      <4> DEFINE i == b[s][n]
      <4>1. i \in Keys /\ Less(s, i, n) BY <3>2, <3>3
      <4> HIDE DEF i
      <4>2. Less(s, i, up) BY <1>1, <1>2, <2>3, <4>1, Sided
      <4> QED BY <4>2 DEF i
    <3>4. c[s][up] = None \/ Less(s, c[s][up], up) BY <1>6, <3>3
    <3> QED BY <1>1, <2>5, <3>1, <3>4 DEF Inside
  <2>6. CASE m \notin {n, up} BY <1>6, <2>1, <2>6 DEF Inside
  <2> QED BY <2>4, <2>5, <2>6
<1> QED BY <1>5, <1>8, <1>9, <1>10 DEF Bounded

\* A rotation around a node of no weight keeps the heights, when the two trade
\* their weights.
LEMMA TurnEven ==
    ASSUME MapOK, NEW tr, Shape(tr), NEW n \in Nodes(tr), NEW s \in Sides,
           tr[Opposite(s)][n] # None, NEW v, Turned(tr, v, n, s),
           NEW w \in [Keys -> Nat], Even(tr, w), w[tr[Opposite(s)][n]] = 0,
           NEW y \in [Keys -> Nat], y[tr[Opposite(s)][n]] = w[n], y[n] = 0,
           \A m \in Keys \ {n, tr[Opposite(s)][n]} : y[m] = w[m]
    PROVE  Even(v, y)
<1> DEFINE o  == Opposite(s)
           up == tr[o][n]
           inner == tr[s][up]
<1>1. /\ n \in Keys /\ o \in Sides /\ o # s /\ Opposite(o) = s
      /\ \A x \in Sides : x = s \/ x = o
  BY Types, Opposites DEF Shape
<1>2. /\ up \in Keys /\ up \in Nodes(tr) /\ up # None /\ up # n /\ tr[s][n] # up
      /\ tr.parent[up] = n /\ tr.parent[n] # up
      /\ tr[s][n] \in Nil \ {n, up} /\ inner \in Nil \ {n, up} /\ tr[o][up] \in Nil \ {n, up}
  BY Turning
<1>3. PICK bh \in [Keys -> Nat] : Heights(tr, w, bh) BY DEF Even
<1> DEFINE h == [bh EXCEPT ![up] = bh[n], ![n] = bh[up]]
<1>4. /\ bh[n] = Height(bh, tr[s][n]) + w[n] /\ bh[n] = bh[up] + w[n]
      /\ bh[up] = Height(bh, inner) + 0 /\ bh[up] = Height(bh, tr[o][up]) + 0
  <2>1. \A x \in Sides : /\ bh[n] = Height(bh, tr[x][n]) + w[n]
                         /\ bh[up] = Height(bh, tr[x][up]) + w[up]
    BY <1>2, <1>3 DEF Heights
  <2>2. w[up] = 0 OBVIOUS
  <2>3. Height(bh, up) = bh[up] BY <1>2 DEF Height
  <2>4. tr[o][n] = up OBVIOUS
  <2> HIDE DEF up
  <2> QED BY <1>1, <2>1, <2>2, <2>3, <2>4
<1> HIDE DEF up
<1>5. h \in [Keys -> Nat] /\ h[up] = bh[n] /\ h[n] = bh[up] /\ \A m \in Keys \ {n, up} : h[m] = bh[m]
  BY <1>1, <1>2
<1> HIDE DEF h
<1>6. Nodes(v) = Nodes(tr) BY TurnShape
<1>7. ASSUME NEW m \in Nodes(v), NEW x \in Sides PROVE h[m] = Height(h, v[x][m]) + y[m]
  <2>1. /\ v[s][n] = tr[s][n] /\ v[o][n] = inner /\ v[s][up] = n /\ v[o][up] = tr[o][up]
        /\ m \in Keys \ {n, up} => v[x][m] = IF tr[x][m] = n THEN up ELSE tr[x][m]
    BY DEF Turned, up
  <2>2. m \in Keys /\ None \notin Keys BY <1>6, Types DEF Shape
  <2>3. \A k \in Keys, z \in Sides : tr[z][k] # None =>
          tr[z][k] \in Keys /\ tr.parent[tr[z][k]] = k /\ tr[z][k] # k
    BY Child
  <2>4. \A k \in Nil \ {n, up} : Height(h, k) = Height(bh, k) BY <1>5 DEF Height, Nil
  <2>5. \A k \in Keys, z \in Sides : tr[z][k] \in Nil BY Types DEF Shape
  <2>6. bh[n] \in Nat /\ bh[up] \in Nat /\ w[n] \in Nat BY <1>1, <1>2
  <2>7. y[up] = w[n] /\ y[n] = 0 BY DEF up
  <2>8. CASE m = n
    <3>1. tr[s][n] \in Nil \ {n, up} /\ inner \in Nil \ {n, up}
      BY <1>2
    <3>2. Height(bh, tr[s][n]) = bh[up] /\ Height(bh, inner) = bh[up]
      <4>1. Height(bh, tr[s][n]) \in Nat /\ Height(bh, inner) \in Nat BY <3>1 DEF Height, Nil
      <4> QED BY <1>4, <2>6, <4>1
    <3>3. v[x][m] \in {tr[s][n], inner} BY <1>1, <2>1, <2>8
    <3> QED BY <1>5, <2>4, <2>6, <2>7, <2>8, <3>1, <3>2, <3>3
  <2>9. CASE m = up
    <3>1. tr[o][up] \in Nil \ {n, up} BY <1>2
    <3>2. Height(bh, tr[o][up]) = bh[up]
      <4>1. Height(bh, tr[o][up]) \in Nat BY <3>1 DEF Height, Nil
      <4> QED BY <1>4, <2>6, <4>1
    <3>3. CASE x = s BY <1>1, <1>4, <1>5, <2>1, <2>2, <2>6, <2>7, <2>9, <3>3 DEF Height
    <3>4. CASE x = o BY <1>4, <1>5, <2>1, <2>4, <2>6, <2>7, <2>9, <3>1, <3>2, <3>4
    <3> QED BY <1>1, <3>3, <3>4
  <2>10. CASE m \notin {n, up}
    <3>1. bh[m] = Height(bh, tr[x][m]) + w[m] /\ h[m] = bh[m] /\ y[m] = w[m]
      <4>1. y[m] = w[m] BY <2>2, <2>10 DEF up
      <4>2. bh[m] = Height(bh, tr[x][m]) + w[m] BY <1>3, <1>6 DEF Heights
      <4> QED BY <1>5, <2>2, <2>10, <4>1, <4>2
    <3>2. tr[x][m] # up BY <1>1, <1>2, <2>2, <2>3, <2>10
    <3>3. CASE tr[x][m] = n
      BY <1>1, <1>2, <1>5, <2>1, <2>2, <2>10, <3>1, <3>3 DEF Height
    <3>4. CASE tr[x][m] # n
      BY <2>1, <2>2, <2>4, <2>5, <2>10, <3>1, <3>2, <3>4
    <3> QED BY <3>3, <3>4
  <2> QED BY <2>8, <2>9, <2>10
<1> QED BY <1>5, <1>7 DEF Even, Heights

\* Weight goes up from two siblings to their parent, or down.
Pushed(tr, n, s, w, y, d) ==
    /\ d \in Int /\ y[n] = w[n] + d
    /\ y[tr[s][n]] = w[tr[s][n]] - d /\ y[tr[Opposite(s)][n]] = w[tr[Opposite(s)][n]] - d
    /\ \A m \in Keys \ {n, tr[s][n], tr[Opposite(s)][n]} : y[m] = w[m]

LEMMA PushEven ==
    ASSUME MapOK, NEW tr, Shape(tr), NEW n \in Keys, NEW s \in Sides,
           tr[s][n] # None, tr[Opposite(s)][n] # None,
           NEW w \in [Keys -> Nat], Even(tr, w), NEW y \in [Keys -> Nat],
           NEW d, Pushed(tr, n, s, w, y, d)
    PROVE  Even(tr, y)
<1> USE DEF Pushed
<1> DEFINE l == tr[s][n]
           r == tr[Opposite(s)][n]
<1>1. /\ l \in Keys /\ r \in Keys /\ l # r /\ l # n /\ r # n /\ tr.parent[l] = n /\ tr.parent[r] = n
      /\ l \in Nodes(tr) /\ r \in Nodes(tr) /\ n \in Nodes(tr) /\ tr.parent[n] \notin {l, r}
      /\ \A x \in Sides : x = s \/ x = Opposite(s)
  BY Child, Opposites
<1>2. PICK bh \in [Keys -> Nat] : Heights(tr, w, bh) BY DEF Even
<1> DEFINE h == [bh EXCEPT ![l] = bh[l] - d, ![r] = bh[r] - d]
<1>3. \A m \in Nodes(tr), x \in Sides : bh[m] = Height(bh, tr[x][m]) + w[m] BY <1>2 DEF Heights
<1>4. \A m \in Keys, x \in Sides : tr[x][m] # None => tr[x][m] \in Keys /\ tr.parent[tr[x][m]] = m
  BY Child
<1>5. \A m \in Keys, x \in Sides : Height(bh, tr[x][m]) \in Nat
  BY <1>4 DEF Height
<1>6. bh[l] - d \in Nat /\ bh[r] - d \in Nat
  <2>1. bh[l] = Height(bh, tr[s][l]) + w[l] /\ bh[r] = Height(bh, tr[s][r]) + w[r] BY <1>1, <1>3
  <2>2. w[l] - d \in Nat /\ w[r] - d \in Nat
    <3>1. y[l] \in Nat /\ y[r] \in Nat BY <1>1
    <3> QED BY <3>1
  <2>3. Height(bh, tr[s][l]) \in Nat /\ Height(bh, tr[s][r]) \in Nat BY <1>1, <1>5
  <2>4. w[l] \in Nat /\ w[r] \in Nat BY <1>1
  <2> QED BY <2>1, <2>2, <2>3, <2>4
<1>7. y[l] = w[l] - d /\ y[r] = w[r] - d /\ \A m \in Keys \ {n, l, r} : y[m] = w[m] OBVIOUS
<1> HIDE DEF l, r
<1>8. /\ h \in [Keys -> Nat] /\ h[l] = bh[l] - d /\ h[r] = bh[r] - d
      /\ \A m \in Keys \ {l, r} : h[m] = bh[m]
  BY <1>1, <1>6
<1> HIDE DEF h
<1>9. ASSUME NEW m \in Nodes(tr), NEW x \in Sides PROVE h[m] = Height(h, tr[x][m]) + y[m]
  <2>1. m \in Keys /\ None \notin Keys BY Types DEF Shape
  <2>2. bh[m] = Height(bh, tr[x][m]) + w[m] BY <1>3
  <2>3. /\ bh[m] \in Nat /\ w[m] \in Nat /\ Height(bh, tr[x][m]) \in Nat
        /\ bh[l] \in Nat /\ bh[r] \in Nat /\ bh[n] \in Nat /\ w[n] \in Nat
    BY <1>1, <1>5, <2>1
  <2>4. CASE m = n
    <3>1. tr[x][m] \in {l, r} BY <1>1, <2>4 DEF l, r
    <3>2. Height(bh, tr[x][m]) = bh[tr[x][m]] /\ Height(h, tr[x][m]) = bh[tr[x][m]] - d
      BY <1>1, <1>8, <2>1, <3>1 DEF Height
    <3>3. h[m] = bh[m] /\ y[m] = w[m] + d BY <1>1, <1>8, <2>4
    <3> QED BY <2>2, <2>3, <3>2, <3>3
  <2>5. CASE m # n
    <3>1. Height(h, tr[x][m]) = Height(bh, tr[x][m])
      <4>1. CASE tr[x][m] = None BY <4>1 DEF Height
      <4>2. CASE tr[x][m] # None
        <5>1. tr[x][m] \in Keys \ {l, r} BY <1>1, <1>4, <2>1, <2>5, <4>2
        <5> QED BY <1>8, <4>2, <5>1 DEF Height
      <4> QED BY <4>1, <4>2
    <3>2. CASE m \in {l, r} BY <1>7, <1>8, <2>2, <2>3, <3>1, <3>2
    <3>3. CASE m \notin {l, r} BY <1>7, <1>8, <2>1, <2>2, <2>5, <3>1, <3>3
    <3> QED BY <3>2, <3>3
  <2> QED BY <2>4, <2>5
<1> QED BY <1>8, <1>9 DEF Even, Heights

\* Order and heights depend on the pointers of a tree only.
LEMMA SameInv ==
    ASSUME MapOK, NEW tr, Shape(tr), NEW v, TreeType(v), Same(tr, v)
    PROVE  /\ \A b, waived : Bounded(tr, b, waived) => Bounded(v, b, waived)
           /\ \A waived : Sorted(tr, waived) => Sorted(v, waived)
           /\ \A w : Even(tr, w) => Even(v, w)
<1>1. Nodes(v) = Nodes(tr) /\ \A s \in Sides : v[s] = tr[s] BY SameShape
<1>2. ASSUME NEW b, NEW waived, Bounded(tr, b, waived) PROVE Bounded(v, b, waived)
  <2>1. v.root = tr.root BY DEF Same
  <2>2. tr.root # None => \A s \in Sides : b[s][tr.root] = None BY <1>2 DEF Bounded
  <2>3. ASSUME NEW n \in Keys, NEW s \in Sides, v[s][n] # None
        PROVE  /\ b[s][v[s][n]] = b[s][n]
               /\ b[Opposite(s)][v[s][n]] = IF n = waived THEN b[Opposite(s)][n] ELSE n
    <3>1. v[s][n] = tr[s][n] BY <1>1
    <3> QED BY <1>2, <2>3, <3>1 DEF Bounded
  <2>4. \A n \in Nodes(v) \ {waived} : Inside(b, n, n) BY <1>1, <1>2 DEF Bounded
  <2> QED BY <2>1, <2>2, <2>3, <2>4 DEF Bounded
<1>3. ASSUME NEW w, NEW bh, Heights(tr, w, bh) PROVE Heights(v, w, bh)
  BY <1>1, <1>3 DEF Heights
<1> QED BY <1>2, <1>3 DEF Sorted, Even

\* Where n is turned down, its weight goes up to its weightless child.
Moved(tr, n, s, w, y) ==
    /\ w[tr[Opposite(s)][n]] = 0 /\ y[tr[Opposite(s)][n]] = w[n] /\ y[n] = 0
    /\ \A m \in Keys \ {n, tr[Opposite(s)][n]} : y[m] = w[m]

\* A rotation of the repainted tree u, with all that it keeps.
LEMMA Turns ==
    ASSUME MapOK, NEW tr, Shape(tr), NEW u, TreeType(u), Same(tr, u),
           NEW n \in Nodes(tr), NEW s \in Sides, tr[Opposite(s)][n] # None,
           NEW waived, waived \notin {n, tr[Opposite(s)][n]}, Sorted(tr, waived),
           NEW w \in [Keys -> Nat], Even(tr, w), NEW y \in [Keys -> Nat], Moved(tr, n, s, w, y)
    PROVE  LET v == Rotate(u, n, s) IN
           /\ Turned(tr, v, n, s) /\ v.color = u.color
           /\ Shape(v) /\ Nodes(v) = Nodes(tr) /\ Sorted(v, waived) /\ Even(v, y)
           /\ \A m \in Keys : v.parent[m] =
                IF m = n THEN tr[Opposite(s)][n]
                ELSE IF m = tr[Opposite(s)][n] THEN tr.parent[n]
                ELSE IF m = tr[s][tr[Opposite(s)][n]] THEN n ELSE tr.parent[m]
<1> USE DEF Moved
<1> DEFINE v == Rotate(u, n, s)
<1>1. Shape(u) /\ Nodes(u) = Nodes(tr) /\ \A x \in Sides : u[x] = tr[x] BY SameShape
<1>2. Opposite(s) \in Sides BY Opposites
<1>3. Turned(u, v, n, s) /\ v.color = u.color BY <1>1, <1>2, Rotates
<1> HIDE DEF v
<1>4. Turned(tr, v, n, s) BY <1>1, <1>2, <1>3 DEF Turned, Same
<1>5. Shape(v) /\ Nodes(v) = Nodes(tr) BY <1>4, TurnShape
<1>6. Sorted(v, waived) BY <1>4, TurnBounds DEF Sorted
<1>7. Even(v, y) BY <1>4, TurnEven
<1>8. \A m \in Keys : v.parent[m] =
        IF m = n THEN tr[Opposite(s)][n]
        ELSE IF m = tr[Opposite(s)][n] THEN tr.parent[n]
        ELSE IF m = tr[s][tr[Opposite(s)][n]] THEN n ELSE tr.parent[m]
  BY <1>4, Types DEF Turned, Shape
<1> QED BY <1>3, <1>4, <1>5, <1>6, <1>7, <1>8 DEF v

\* The weight of the root is seen by no other node.
LEMMA RootEven ==
    ASSUME MapOK, NEW tr, Shape(tr), tr.root # None, NEW w \in [Keys -> Nat], Even(tr, w),
           NEW y \in [Keys -> Nat], \A m \in Keys \ {tr.root} : y[m] = w[m]
    PROVE  Even(tr, y)
<1>1. PICK bh \in [Keys -> Nat] : Heights(tr, w, bh) BY DEF Even
<1> DEFINE r == tr.root
           h == [bh EXCEPT ![r] = Height(bh, tr["left"][r]) + y[r]]
<1>2. r \in Keys /\ r \in Nodes(tr) BY Types DEF Shape, Nil, Nodes
<1>3. \A m \in Keys, x \in Sides : tr[x][m] # None => tr[x][m] \in Keys \ {r} BY Child
<1>4. \A m \in Keys, x \in Sides : Height(bh, tr[x][m]) \in Nat BY <1>3 DEF Height
<1>5. /\ h \in [Keys -> Nat] /\ \A m \in Keys \ {r} : h[m] = bh[m]
      /\ h[r] = Height(bh, tr["left"][r]) + y[r]
  <2> HIDE DEF r
  <2>1. Height(bh, tr["left"][r]) \in Nat /\ y[r] \in Nat BY <1>2, <1>4 DEF Sides
  <2>2. Height(bh, tr["left"][r]) + y[r] \in Nat BY <2>1
  <2> QED BY <1>2, <2>2
<1> HIDE DEF h, r
<1>6. ASSUME NEW m \in Nodes(tr), NEW x \in Sides PROVE h[m] = Height(h, tr[x][m]) + y[m]
  <2>1. m \in Keys BY Types DEF Shape
  <2>2. Height(h, tr[x][m]) = Height(bh, tr[x][m]) BY <1>3, <1>5, <2>1 DEF Height
  <2>3. bh[m] = Height(bh, tr[x][m]) + w[m] /\ bh[m] = Height(bh, tr["left"][m]) + w[m]
    BY <1>1 DEF Heights, Sides
  <2>4. Height(bh, tr[x][m]) = Height(bh, tr["left"][m])
    <3>1. Height(bh, tr[x][m]) \in Nat /\ Height(bh, tr["left"][m]) \in Nat /\ w[m] \in Nat
      BY <1>4, <2>1 DEF Sides
    <3> QED BY <2>3, <3>1
  <2>5. CASE m = r BY <1>5, <2>2, <2>4, <2>5
  <2>6. CASE m # r
    <3>1. h[m] = bh[m] /\ y[m] = w[m] BY <1>5, <2>1, <2>6 DEF r
    <3> QED BY <2>2, <2>3, <3>1
  <2> QED BY <2>5, <2>6
<1> QED BY <1>5, <1>6 DEF Even, Heights

-----------------------------------------------------------------------------
(* A new leaf. *)

\* v is tr with n as the child of p at side s.
Hung(tr, v, n, p, s) ==
    /\ TreeType(v) /\ v.root = tr.root
    /\ v[s][p] = n /\ \A m \in Keys, x \in Sides : m # p \/ x # s => v[x][m] = tr[x][m]
    /\ v.parent[n] = p /\ \A m \in Keys \ {n} : v.parent[m] = tr.parent[m]

LEMMA HungShape ==
    ASSUME MapOK, NEW tr, Shape(tr), NEW p \in Nodes(tr), NEW s \in Sides, tr[s][p] = None,
           NEW n \in Keys \ Nodes(tr), NEW v, Hung(tr, v, n, p, s)
    PROVE  Shape(v) /\ Nodes(v) = Nodes(tr) \cup {n} /\ \A x \in Sides : tr[x][n] = None
<1>1. /\ p \in Keys /\ p # None /\ n # p /\ n # None
      /\ \A m \in Nodes(tr) : m # n
  BY Types DEF Shape
<1>2. /\ \A m \in Keys, x \in Sides : tr[x][m] # None =>
            tr[x][m] \in Nodes(tr) /\ tr[x][m] \in Keys /\ m \in Nodes(tr) /\ tr.parent[tr[x][m]] = m
      /\ \A x \in Sides : tr[x][n] = None
  BY Child
<1>3. n # tr.root /\ tr.parent[n] = None BY Types DEF Shape
<1>4. Nodes(v) = Nodes(tr) \cup {n}
  <2>1. ASSUME NEW m \in Keys PROVE m \in Nodes(v) <=> m \in Nodes(tr) \/ m = n
    BY <1>1, Types DEF Hung, Shape
  <2> QED BY <2>1, Types DEF Hung, Shape
<1>5. Agree(v)
  <2>1. v.root # None => v.parent[v.root] = None
    <3>1. v.root = tr.root /\ v.root \in Nil BY Types DEF Hung, Shape
    <3>2. tr.root # None => tr.parent[tr.root] = None BY DEF Shape, Agree
    <3> QED BY <1>3, <3>1, <3>2 DEF Hung, Nil
  <2>2. ASSUME NEW m \in Keys, NEW x \in Sides, v[x][m] # None
        PROVE  m \in Nodes(v) /\ v.parent[v[x][m]] = m
    <3>1. CASE m = p /\ x = s BY <1>4, <3>1 DEF Hung
    <3>2. CASE m # p \/ x # s
      <4>1. v[x][m] = tr[x][m] BY <3>2 DEF Hung
      <4>2. tr[x][m] \in Keys \ {n} /\ m \in Nodes(tr) /\ tr.parent[tr[x][m]] = m
        BY <1>1, <1>2, <2>2, <4>1
      <4> QED BY <1>4, <4>1, <4>2 DEF Hung
    <3> QED BY <3>1, <3>2
  <2>3. ASSUME NEW m \in Keys, v.parent[m] # None
        PROVE  v.parent[m] \in Nodes(v) /\ \E x \in Sides : v[x][v.parent[m]] = m
    <3>1. CASE m = n BY <1>4, <3>1 DEF Hung
    <3>2. CASE m # n
      <4>1. v.parent[m] = tr.parent[m] /\ m # None BY <3>2, Types DEF Hung, Shape
      <4>2. PICK x \in Sides : tr[x][tr.parent[m]] = m BY <2>3, <4>1 DEF Shape, Agree
      <4>3. tr.parent[m] \in Nodes(tr) /\ tr.parent[m] \in Keys
        BY <2>3, <4>1, Types DEF Shape, Agree
      <4>4. v[x][tr.parent[m]] = m BY <4>1, <4>2, <4>3 DEF Hung
      <4> QED BY <1>4, <4>1, <4>3, <4>4
    <3> QED BY <3>1, <3>2
  <2>4. ASSUME NEW m \in Keys, v.left[m] # None, v.left[m] = v.right[m] PROVE FALSE
    <3>1. \A x \in Sides : v[x][m] = tr[x][m] \/ (v[x][m] = n /\ m = p /\ x = s) BY DEF Hung
    <3>2. tr.left[m] # None => tr.left[m] # tr.right[m] BY DEF Shape, Agree
    <3>3. tr.left[m] # n /\ tr.right[m] # n BY <1>1, <1>2 DEF Sides
    <3>4. v.left[m] = tr.left[m] \/ (v.left[m] = n /\ s = "left") BY <3>1 DEF Sides
    <3>5. v.right[m] = tr.right[m] \/ (v.right[m] = n /\ s = "right") BY <3>1 DEF Sides
    <3> QED BY <2>4, <3>2, <3>3, <3>4, <3>5
  <2> QED BY <2>1, <2>2, <2>3, <2>4 DEF Agree
<1>6. Hang(v)
  <2>1. SUFFICES ASSUME NEW S \in SUBSET (Nodes(v) \ {v.root}), S # {}, \A m \in S : v.parent[m] \in S
                 PROVE  FALSE
    BY DEF Hang
  <2>2. v.root = tr.root /\ v.parent[n] = p BY DEF Hung
  <2>3. S \ {n} \in SUBSET (Nodes(tr) \ {tr.root}) /\ S \ {n} # {} BY <1>1, <1>4, <2>1, <2>2
  <2>4. ASSUME NEW m \in S \ {n} PROVE tr.parent[m] \in S \ {n}
    <3>1. m \in Nodes(tr) /\ m \in Keys /\ m # tr.root BY <2>3, Types DEF Shape
    <3>2. v.parent[m] = tr.parent[m] BY <3>1 DEF Hung
    <3>3. tr.parent[m] \in Nodes(tr) BY <3>1, Parent
    <3> QED BY <1>1, <2>1, <3>2, <3>3
  <2> QED BY <2>3, <2>4 DEF Shape, Hang
<1> QED BY <1>2, <1>4, <1>5, <1>6 DEF Shape, Hung

LEMMA HungBounds ==
    ASSUME MapOK, NEW tr, Shape(tr), NEW p \in Nodes(tr), NEW s \in Sides, tr[s][p] = None,
           NEW n \in Keys \ Nodes(tr), NEW v, Hung(tr, v, n, p, s),
           NEW b \in Bounds, Bounded(tr, b, None), Inside(b, p, n), Less(s, n, p)
    PROVE  Sorted(v, None)
<1>5. Nodes(v) = Nodes(tr) \cup {n} /\ \A x \in Sides : tr[x][n] = None BY HungShape, SMTT(30)
<1> DEFINE o == Opposite(s)
           c == [x \in Sides |-> [m \in Keys |->
                   IF m # n THEN b[x][m] ELSE IF x = s THEN b[s][p] ELSE p]]
<1>1. p \in Keys /\ p # None /\ n # p /\ n # None /\ \A m \in Nodes(tr) : m # n BY Types DEF Shape
<1>2. o \in Sides /\ o # s /\ Opposite(o) = s /\ \A x \in Sides : x = s \/ x = o BY Opposites
<1>3. c \in Bounds BY <1>1 DEF Bounds, Nil
<1>4. c[s][n] = b[s][p] /\ c[o][n] = p /\ \A x \in Sides, m \in Keys \ {n} : c[x][m] = b[x][m]
  BY <1>2
<1> HIDE DEF c
<1>6. v.root # None => \A x \in Sides : c[x][v.root] = None
  <2>1. v.root = tr.root BY DEF Hung
  <2>2. tr.root # n /\ tr.root \in Nil BY Types DEF Shape
  <2>3. tr.root # None => \A x \in Sides : b[x][tr.root] = None BY DEF Bounded
  <2>4. ASSUME v.root # None, NEW x \in Sides PROVE c[x][v.root] = None
    <3>1. tr.root \in Keys \ {n} /\ b[x][tr.root] = None BY <2>1, <2>2, <2>3, <2>4 DEF Nil
    <3> QED BY <1>4, <2>1, <3>1
  <2> QED BY <2>4
<1>7. ASSUME NEW m \in Keys, NEW x \in Sides, v[x][m] # None
      PROVE  /\ c[x][v[x][m]] = c[x][m]
             /\ c[Opposite(x)][v[x][m]] = IF m = None THEN c[Opposite(x)][m] ELSE m
  <2>1. m # None BY Types DEF Shape
  <2>2. CASE m = p /\ x = s BY <1>1, <1>2, <1>4, <2>1, <2>2 DEF Hung
  <2>3. CASE m # p \/ x # s
    <3>1. v[x][m] = tr[x][m] BY <2>3 DEF Hung
    <3>5. tr[x][m] \in Nodes(tr) /\ m # n BY <1>1, <1>5, <1>7, <3>1, Child
    <3>2. tr[x][m] \in Keys \ {n} /\ m # n BY <3>5, Types DEF Shape
    <3>6. tr[x][m] # None BY <1>7, <3>1
    <3>3. b[x][tr[x][m]] = b[x][m] /\ b[Opposite(x)][tr[x][m]] = m
      BY <2>1, <3>6, ChildBounds
    <3>4. Opposite(x) \in Sides BY Opposites
    <3> QED BY <1>4, <2>1, <3>1, <3>2, <3>3, <3>4
  <2> QED BY <2>2, <2>3
<1>8. ASSUME NEW m \in Nodes(v) \ {None} PROVE Inside(c, m, m)
  <2>1. CASE m = n
    <3>1. Less(o, p, n) BY <1>1, <1>2, Sided
    <3> QED BY <1>2, <1>4, <2>1, <3>1 DEF Inside
  <2>2. CASE m # n
    <3>1. m \in Keys /\ Inside(b, m, m) BY <1>5, <2>2, Types DEF Bounded, Shape
    <3> QED BY <1>4, <2>2, <3>1 DEF Inside
  <2> QED BY <2>1, <2>2
<1> QED BY <1>3, <1>6, <1>7, <1>8 DEF Sorted, Bounded

LEMMA HungEven ==
    ASSUME MapOK, NEW tr, Shape(tr), NEW p \in Nodes(tr), NEW s \in Sides, tr[s][p] = None,
           NEW n \in Keys \ Nodes(tr), NEW v, Hung(tr, v, n, p, s),
           NEW w \in [Keys -> Nat], Even(tr, w), NEW y \in [Keys -> Nat],
           y[n] = 0, \A m \in Keys \ {n} : y[m] = w[m]
    PROVE  Even(v, y)
<1>1. PICK bh \in [Keys -> Nat] : Heights(tr, w, bh) BY DEF Even
<1> DEFINE h == [bh EXCEPT ![n] = 0]
<1>2. h \in [Keys -> Nat] /\ h[n] = 0 /\ \A m \in Keys \ {n} : h[m] = bh[m] OBVIOUS
<1> HIDE DEF h
<1>3. Nodes(v) = Nodes(tr) \cup {n} /\ \A x \in Sides : tr[x][n] = None BY HungShape, SMTT(30)
<1>4. ASSUME NEW m \in Nodes(v), NEW x \in Sides PROVE h[m] = Height(h, v[x][m]) + y[m]
  <2>1. m \in Keys /\ n # p /\ p \in Keys /\ n # None BY <1>3, Types DEF Shape
  <2>2. CASE m = n
    <3>1. v[x][n] = None BY <1>3, <2>1 DEF Hung
    <3> QED BY <1>2, <2>2, <3>1 DEF Height
  <2>3. CASE m # n
    <3>1. bh[m] = Height(bh, tr[x][m]) + w[m] /\ h[m] = bh[m] /\ y[m] = w[m]
      BY <1>1, <1>2, <1>3, <2>1, <2>3 DEF Heights
    <3>2. Height(h, v[x][m]) = Height(bh, tr[x][m])
      <4>1. CASE m = p /\ x = s BY <1>2, <2>1, <4>1 DEF Hung, Height
      <4>2. CASE m # p \/ x # s
        <5>1. v[x][m] = tr[x][m] BY <2>1, <4>2 DEF Hung
        <5>2. tr[x][m] # None => tr[x][m] \in Nodes(tr) BY <2>1, Child
        <5>3. tr[x][m] # None => tr[x][m] \in Keys \ {n} BY <5>2, Types DEF Shape
        <5> QED BY <1>2, <5>1, <5>3 DEF Height
      <4> QED BY <4>1, <4>2
    <3> QED BY <3>1, <3>2
  <2> QED BY <2>2, <2>3
<1> QED BY <1>2, <1>4 DEF Even, Heights

-----------------------------------------------------------------------------
(* The node to be unlinked. *)

\* The bounds of the nodes when a has left all that it has to its children.
Skip(b, a) ==
    [x \in Sides |-> [m \in Keys |-> IF b[x][m] = a THEN b[x][a] ELSE b[x][m]]]

LEMMA Waive ==
    ASSUME MapOK, NEW tr, Shape(tr), NEW b \in Bounds, Bounded(tr, b, None), NEW a \in Nodes(tr)
    PROVE  /\ Skip(b, a) \in Bounds /\ Bounded(tr, Skip(b, a), a)
           /\ \A x \in Sides, m \in Keys : Skip(b, a)[x][m] # a
<1> DEFINE c == Skip(b, a)
<1>1. a \in Keys /\ None \notin Keys /\ tr.root \in Nil BY Types DEF Shape
<1>2. \A x \in Sides, m \in Keys : b[x][m] \in Nil BY DEF Bounds
<1>3. c \in Bounds /\ \A x \in Sides, m \in Keys : c[x][m] = IF b[x][m] = a THEN b[x][a] ELSE b[x][m]
  BY <1>1, <1>2 DEF Bounds, Skip
<1> HIDE DEF c
<1>4. ASSUME NEW x \in Sides PROVE b[x][a] = None \/ Less(x, b[x][a], a)
  BY <1>1 DEF Bounded, Inside
<1>5. ASSUME NEW x \in Sides PROVE b[x][a] # a
  <2>1. ~Less(x, a, a) BY <1>1, Sided
  <2> QED BY <1>1, <1>4, <2>1
<1>6. \A x \in Sides, m \in Keys : c[x][m] # a BY <1>3, <1>5
<1>7. tr.root # None => \A x \in Sides : c[x][tr.root] = None
  <2>1. tr.root # None => \A x \in Sides : b[x][tr.root] = None BY DEF Bounded
  <2> QED BY <1>1, <1>3, <2>1 DEF Nil
<1>8. ASSUME NEW m \in Keys, NEW x \in Sides, tr[x][m] # None
      PROVE  /\ c[x][tr[x][m]] = c[x][m]
             /\ c[Opposite(x)][tr[x][m]] = IF m = a THEN c[Opposite(x)][m] ELSE m
  <2>1. b[x][tr[x][m]] = b[x][m] /\ b[Opposite(x)][tr[x][m]] = m BY <1>1, <1>8, ChildBounds
  <2>2. tr[x][m] \in Keys BY <1>8, Child
  <2>3. Opposite(x) \in Sides BY Opposites
  <2>4. c[x][tr[x][m]] = c[x][m] BY <1>3, <2>1, <2>2
  <2>5. c[Opposite(x)][tr[x][m]] = IF m = a THEN b[Opposite(x)][a] ELSE m
    BY <1>3, <2>1, <2>2, <2>3
  <2>6. c[Opposite(x)][a] = b[Opposite(x)][a] BY <1>1, <1>3, <1>5, <2>3
  <2> QED BY <2>4, <2>5, <2>6
<1>9. ASSUME NEW m \in Nodes(tr) \ {a} PROVE Inside(c, m, m)
  <2>1. m \in Keys /\ m # None BY Types DEF Shape
  <2>2. ASSUME NEW x \in Sides PROVE c[x][m] = None \/ Less(x, c[x][m], m)
    <3>1. b[x][m] = None \/ Less(x, b[x][m], m) BY <2>1 DEF Bounded, Inside
    <3>2. CASE b[x][m] # a BY <1>3, <2>1, <3>1, <3>2
    <3>3. CASE b[x][m] = a
      <4>1. c[x][m] = b[x][a] /\ Less(x, a, m) BY <1>1, <1>3, <2>1, <3>1, <3>3
      <4>2. b[x][a] # None => b[x][a] \in Keys /\ Less(x, b[x][a], a) BY <1>1, <1>2, <1>4 DEF Nil
      <4>3. ASSUME b[x][a] # None PROVE Less(x, b[x][a], m) BY <1>1, <2>1, <4>1, <4>2, <4>3, Sided
      <4> QED BY <4>1, <4>3
    <3> QED BY <3>2, <3>3
  <2> QED BY <2>2 DEF Inside
<1> QED BY <1>3, <1>6, <1>7, <1>8, <1>9 DEF Bounded, c

\* The name of a node when a and d trade theirs.
Named(a, d, n) == IF n = a THEN d ELSE IF n = d THEN a ELSE n

LEMMA Trades ==
    ASSUME MapOK, NEW tr, TreeType(tr), NEW a \in Keys, NEW d \in Keys
    PROVE  LET v == Trade(tr, a, d) IN
           /\ TreeType(v) /\ v.root = Named(a, d, tr.root)
           /\ \A m \in Keys, x \in Sides : v[x][m] = Named(a, d, tr[x][Named(a, d, m)])
           /\ \A m \in Keys : v.parent[m] = Named(a, d, tr.parent[Named(a, d, m)])
           /\ \A m \in Keys : v.color[m] = tr.color[Named(a, d, m)]
<1> DEFINE name(n) == CASE n = a -> d [] n = d -> a [] OTHER -> n
<1>1. ASSUME NEW n PROVE name(n) = Named(a, d, n) BY DEF Named
<1> DEFINE renamed(f) == [n \in Keys |-> Named(a, d, f[Named(a, d, n)])]
           v == [root |-> Named(a, d, tr.root), left |-> renamed(tr.left),
                 right |-> renamed(tr.right), parent |-> renamed(tr.parent),
                 color |-> [n \in Keys |-> tr.color[Named(a, d, n)]]]
<1>2. Trade(tr, a, d) = v BY <1>1, Zenon DEF Trade, Named
<1>3. ASSUME NEW n \in Nil PROVE Named(a, d, n) \in Nil /\ (n \in Keys => Named(a, d, n) \in Keys)
  BY DEF Named, Nil
<1>4. TreeType(v)
  <2>1. ASSUME NEW f \in [Keys -> Nil] PROVE renamed(f) \in [Keys -> Nil]
    <3>1. ASSUME NEW n \in Keys PROVE Named(a, d, f[Named(a, d, n)]) \in Nil
      <4>1. n \in Nil BY DEF Nil
      <4>2. f[Named(a, d, n)] \in Nil BY <1>3, <4>1
      <4> QED BY <1>3, <4>2
    <3> QED BY <3>1
  <2>2. [n \in Keys |-> tr.color[Named(a, d, n)]] \in [Keys -> {"red", "black"}]
    BY <1>3 DEF TreeType, Nil
  <2>3. /\ Named(a, d, tr.root) \in Nil /\ tr.left \in [Keys -> Nil]
        /\ tr.right \in [Keys -> Nil] /\ tr.parent \in [Keys -> Nil]
    BY <1>3 DEF TreeType
  <2>4. renamed(tr.left) \in [Keys -> Nil] /\ renamed(tr.right) \in [Keys -> Nil]
        /\ renamed(tr.parent) \in [Keys -> Nil]
    BY <2>1, <2>3
  <2> HIDE DEF renamed
  <2> QED BY <2>2, <2>3, <2>4 DEF TreeType
<1>5. \A m \in Keys, x \in Sides : v[x][m] = Named(a, d, tr[x][Named(a, d, m)]) BY DEF Sides
<1> QED BY <1>2, <1>4, <1>5

\* v is tr where a and d trade names.
Traded(tr, v, a, d) ==
    /\ TreeType(v) /\ v.root = Named(a, d, tr.root)
    /\ \A m \in Keys, x \in Sides : v[x][m] = Named(a, d, tr[x][Named(a, d, m)])
    /\ \A m \in Keys : v.parent[m] = Named(a, d, tr.parent[Named(a, d, m)])

LEMMA Names ==
    ASSUME MapOK, NEW a \in Keys, NEW d \in Keys
    PROVE  /\ \A n : Named(a, d, Named(a, d, n)) = n
           /\ \A n \in Keys : Named(a, d, n) \in Keys
           /\ \A n : Named(a, d, n) = None <=> n = None
           /\ \A m, n : Named(a, d, m) = Named(a, d, n) => m = n
  BY DEF Named, MapOK

LEMMA TradeShape ==
    ASSUME MapOK, NEW tr, Shape(tr), NEW a \in Nodes(tr), NEW d \in Nodes(tr),
           NEW v, Traded(tr, v, a, d)
    PROVE  Shape(v) /\ Nodes(v) = Nodes(tr)
<1> DEFINE N(n) == Named(a, d, n)
<1>1. a \in Keys /\ d \in Keys /\ None \notin Keys BY Types DEF Shape
<1>2. /\ \A n : N(N(n)) = n
      /\ \A n \in Keys : N(n) \in Keys
      /\ \A n : N(n) = None <=> n = None
      /\ \A m, n : N(m) = N(n) => m = n
  BY <1>1, Names
<1>3. /\ v.root = N(tr.root)
      /\ \A m \in Keys, x \in Sides : v[x][m] = N(tr[x][N(m)])
      /\ \A m \in Keys : v.parent[m] = N(tr.parent[N(m)])
  BY DEF Traded
<1>4. ASSUME NEW n \in Nodes(tr) PROVE N(n) \in Nodes(tr) BY DEF Named
<1> HIDE DEF N
<1>5. Nodes(v) = Nodes(tr)
  <2>1. ASSUME NEW m \in Keys PROVE m \in Nodes(v) <=> N(m) \in Nodes(tr)
    <3>1. m \in Nodes(v) <=> m = v.root \/ v.parent[m] # None BY Types DEF Traded
    <3>2. N(m) \in Nodes(tr) <=> N(m) = tr.root \/ tr.parent[N(m)] # None
      BY <1>2, Types DEF Shape
    <3>3. m = v.root <=> N(m) = tr.root BY <1>2, <1>3
    <3> QED BY <1>2, <1>3, <3>1, <3>2, <3>3
  <2>2. ASSUME NEW m \in Keys PROVE N(m) \in Nodes(tr) <=> m \in Nodes(tr) BY <1>2, <1>4
  <2>3. Nodes(v) \subseteq Keys /\ Nodes(tr) \subseteq Keys BY Types DEF Traded, Shape
  <2> QED BY <2>1, <2>2, <2>3
<1>6. Agree(v)
  <2>1. v.root # None => v.parent[v.root] = None
    <3>1. tr.root # None => tr.parent[tr.root] = None BY DEF Shape, Agree
    <3>2. tr.root \in Nil BY Types DEF Shape
    <3>3. ASSUME v.root # None PROVE v.parent[v.root] = None
      <4>1. tr.root \in Keys /\ tr.root # None /\ v.root = N(tr.root) BY <1>2, <1>3, <3>2, <3>3 DEF Nil
      <4>2. N(tr.root) \in Keys /\ N(N(tr.root)) = tr.root BY <1>2, <4>1
      <4>3. v.parent[v.root] = N(tr.parent[tr.root]) BY <1>3, <4>1, <4>2
      <4> QED BY <1>2, <3>1, <4>1, <4>3
    <3> QED BY <3>3
  <2>2. ASSUME NEW m \in Keys, NEW x \in Sides, v[x][m] # None
        PROVE  m \in Nodes(v) /\ v.parent[v[x][m]] = m
    <3>1. v[x][m] = N(tr[x][N(m)]) /\ tr[x][N(m)] # None /\ N(m) \in Keys BY <1>2, <1>3, <2>2
    <3>2. tr[x][N(m)] \in Keys /\ N(m) \in Nodes(tr) /\ tr.parent[tr[x][N(m)]] = N(m)
      BY <3>1, Child
    <3>3. m \in Nodes(tr) BY <1>2, <1>4, <3>2
    <3>4. v.parent[N(tr[x][N(m)])] = m
      <4> DEFINE q == tr[x][N(m)]
      <4>1. N(q) \in Keys BY <1>2, <3>2
      <4>2. v.parent[N(q)] = N(tr.parent[N(N(q))]) BY <1>3, <4>1
      <4>3. N(N(q)) = q /\ N(N(m)) = m BY <1>2
      <4> QED BY <3>2, <4>2, <4>3
    <3> QED BY <1>5, <3>1, <3>3, <3>4
  <2>3. ASSUME NEW m \in Keys, v.parent[m] # None
        PROVE  v.parent[m] \in Nodes(v) /\ \E x \in Sides : v[x][v.parent[m]] = m
    <3>1. v.parent[m] = N(tr.parent[N(m)]) /\ tr.parent[N(m)] # None /\ N(m) \in Keys
      BY <1>2, <1>3, <2>3
    <3>2. tr.parent[N(m)] \in Nodes(tr) /\ \E x \in Sides : tr[x][tr.parent[N(m)]] = N(m)
      BY <3>1 DEF Shape, Agree
    <3>3. PICK x \in Sides : tr[x][tr.parent[N(m)]] = N(m) BY <3>2
    <3>4. N(tr.parent[N(m)]) \in Nodes(tr) /\ N(tr.parent[N(m)]) \in Keys
      BY <1>4, <3>2, Types DEF Shape
    <3>5. v[x][v.parent[m]] = m
      <4> DEFINE q == tr.parent[N(m)]
      <4>1. v[x][N(q)] = N(tr[x][N(N(q))]) BY <1>3, <3>4
      <4>2. N(N(q)) = q /\ N(N(m)) = m BY <1>2
      <4> QED BY <3>1, <3>3, <4>1, <4>2
    <3> QED BY <1>5, <3>1, <3>4, <3>5
  <2>4. ASSUME NEW m \in Keys, v.left[m] # None PROVE v.left[m] # v.right[m]
    <3>1. v.left[m] = N(tr["left"][N(m)]) /\ v.right[m] = N(tr["right"][N(m)]) BY <1>3 DEF Sides
    <3>2. tr.left[N(m)] # None => tr.left[N(m)] # tr.right[N(m)] BY <1>2 DEF Shape, Agree
    <3> QED BY <1>2, <2>4, <3>1, <3>2
  <2> QED BY <2>1, <2>2, <2>3, <2>4 DEF Agree
<1>7. Hang(v)
  <2>1. SUFFICES ASSUME NEW S \in SUBSET (Nodes(v) \ {v.root}), S # {}, \A m \in S : v.parent[m] \in S
                 PROVE  FALSE
    BY DEF Hang
  <2> DEFINE R == {m \in Nodes(tr) : N(m) \in S}
  <2>2. PICK k \in S : TRUE BY <2>1
  <2>3. N(k) \in R BY <1>2, <1>4, <1>5, <2>1, <2>2
  <2>4. R \in SUBSET (Nodes(tr) \ {tr.root}) BY <1>3, <2>1
  <2>5. ASSUME NEW m \in R PROVE tr.parent[m] \in R
    <3>1. N(m) \in S /\ m \in Nodes(tr) /\ m # tr.root /\ N(m) \in Keys
      BY <1>2, <2>4, Types DEF Shape
    <3>2. v.parent[N(m)] = N(tr.parent[m])
      <4>1. v.parent[N(m)] = N(tr.parent[N(N(m))]) BY <1>3, <3>1
      <4>2. N(N(m)) = m BY <1>2
      <4> QED BY <4>1, <4>2
    <3>3. tr.parent[m] \in Nodes(tr) BY <3>1, Parent
    <3> QED BY <2>1, <3>1, <3>2, <3>3
  <2> QED BY <2>3, <2>4, <2>5 DEF Shape, Hang
<1> QED BY <1>5, <1>6, <1>7 DEF Shape, Traded

LEMMA TradeEven ==
    ASSUME MapOK, NEW tr, Shape(tr), NEW a \in Nodes(tr), NEW d \in Nodes(tr),
           NEW v, Traded(tr, v, a, d), NEW w \in [Keys -> Nat], Even(tr, w),
           NEW y, \A m \in Keys : y[m] = w[Named(a, d, m)]
    PROVE  Even(v, y)
<1>1. PICK bh \in [Keys -> Nat] : Heights(tr, w, bh) BY DEF Even
<1> DEFINE N(n) == Named(a, d, n)
           h == [m \in Keys |-> bh[N(m)]]
<1>2. /\ \A n : N(N(n)) = n
      /\ \A n \in Keys : N(n) \in Keys
      /\ \A n : N(n) = None <=> n = None
  BY Types, Names DEF Shape
<1>3. \A m \in Keys, x \in Sides : v[x][m] = N(tr[x][N(m)]) BY DEF Traded
<1>4. \A n \in Nodes(tr) : N(n) \in Nodes(tr) BY DEF Named
<1>5. Nodes(v) = Nodes(tr) BY TradeShape
<1>9. \A m \in Keys : y[m] = w[N(m)] OBVIOUS
<1> HIDE DEF N
<1>6. h \in [Keys -> Nat] /\ \A m \in Keys : h[m] = bh[N(m)] BY <1>2
<1> HIDE DEF h
<1>7. ASSUME NEW m \in Nodes(v), NEW x \in Sides PROVE h[m] = Height(h, v[x][m]) + y[m]
  <2>1. m \in Keys /\ N(m) \in Nodes(tr) /\ N(m) \in Keys BY <1>2, <1>4, <1>5, Types DEF Shape
  <2>2. bh[N(m)] = Height(bh, tr[x][N(m)]) + w[N(m)] BY <1>1, <2>1 DEF Heights
  <2>3. Height(h, v[x][m]) = Height(bh, tr[x][N(m)])
    <3>1. tr[x][N(m)] \in Nil BY <2>1, Types DEF Shape
    <3>2. CASE tr[x][N(m)] = None BY <1>2, <1>3, <2>1, <3>2 DEF Height
    <3>3. CASE tr[x][N(m)] # None
      <4>1. tr[x][N(m)] \in Keys /\ N(tr[x][N(m)]) \in Keys BY <1>2, <3>1, <3>3 DEF Nil
      <4>2. v[x][m] = N(tr[x][N(m)]) /\ v[x][m] # None BY <1>2, <1>3, <2>1, <3>3
      <4>3. h[N(tr[x][N(m)])] = bh[N(N(tr[x][N(m)]))] BY <1>6, <4>1
      <4>4. N(N(tr[x][N(m)])) = tr[x][N(m)] BY <1>2
      <4> QED BY <3>3, <4>2, <4>3, <4>4 DEF Height
    <3> QED BY <3>2, <3>3
  <2> QED BY <1>6, <1>9, <2>1, <2>2, <2>3
<1> QED BY <1>6, <1>7 DEF Even, Heights

LEMMA TradeColoured ==
    ASSUME MapOK, NEW tr, Shape(tr), NEW a \in Nodes(tr), NEW d \in Nodes(tr),
           NEW v, Traded(tr, v, a, d), \A m \in Keys : v.color[m] = tr.color[Named(a, d, m)],
           Coloured(tr, None, None)
    PROVE  Coloured(v, None, None)
<1> DEFINE N(n) == Named(a, d, n)
<1>1. /\ \A n : N(N(n)) = n
      /\ \A n \in Keys : N(n) \in Keys
      /\ \A n : N(n) = None <=> n = None
  BY Types, Names DEF Shape
<1>2. \A n \in Nodes(tr) : N(n) \in Nodes(tr) BY DEF Named
<1>3. /\ v.root = N(tr.root)
      /\ \A m \in Keys : v.parent[m] = N(tr.parent[N(m)]) /\ v.color[m] = tr.color[N(m)]
  BY DEF Traded
<1>4. Nodes(v) = Nodes(tr) BY TradeShape
<1> HIDE DEF N
<1>5. ASSUME v.root # None PROVE v.color[v.root] = "black"
  <2>1. tr.root \in Keys /\ tr.root # None BY <1>1, <1>3, <1>5, Types DEF Shape, Nil
  <2>2. v.color[N(tr.root)] = tr.color[N(N(tr.root))] BY <1>1, <1>3, <2>1
  <2> QED BY <1>1, <1>3, <2>1, <2>2 DEF Coloured
<1>6. ASSUME NEW m \in Nodes(v) \ {v.root}, v.color[m] = "red"
      PROVE  v.color[v.parent[m]] = "black"
  <2>1. m \in Keys /\ N(m) \in Nodes(tr) /\ N(m) # tr.root /\ N(m) # None
    BY <1>1, <1>2, <1>3, <1>4, Types DEF Shape
  <2>2. tr.parent[N(m)] \in Keys /\ tr.parent[N(m)] # None BY <2>1, Parent, Types DEF Shape
  <2>3. tr.color[tr.parent[N(m)]] = "black" BY <1>3, <1>6, <2>1, <2>2 DEF Coloured
  <2>4. v.color[N(tr.parent[N(m)])] = tr.color[N(N(tr.parent[N(m)]))] BY <1>1, <1>3, <2>2
  <2> QED BY <1>1, <1>3, <2>1, <2>3, <2>4
<1> QED BY <1>5, <1>6 DEF Coloured

\* The way to the predecessor of a misses no key between, to the right ...
LEMMA Nearest ==
    ASSUME MapOK, NEW tr, Shape(tr), NEW b \in Bounds, Bounded(tr, b, None),
           NEW a \in Nodes(tr), NEW d \in Nodes(tr), tr.left[a] # None, tr.left[a] <= d,
           \A n \in Nodes(tr) : b.right[n] = a /\ n < d => tr.right[n] # None /\ tr.right[n] <= d,
           NEW k \in Nodes(tr), b.right[k] = a, d < k
    PROVE  tr.right[d] # None /\ tr.right[d] <= k
<1> DEFINE S == {n \in Nodes(tr) : b.right[n] = a /\ d < n /\ ~(tr.right[d] # None /\ tr.right[d] <= n)}
<1>1. /\ Nodes(tr) \subseteq Keys /\ Keys \subseteq Int /\ None \notin Keys
      /\ a \in Keys /\ d \in Int /\ d \in Keys /\ k \in Keys /\ k \in Int
      /\ tr.right[d] \in Nil /\ tr.left[a] \in Int
  BY Types DEF Shape, MapOK, Sides, Nil
<1>2. ASSUME NEW n \in S PROVE n # tr.root /\ tr.parent[n] \in S
  <2>1. n \in Keys /\ n \in Nodes(tr) /\ b.right[n] = a /\ d < n BY <1>1
  <2>2. n # tr.root
    <3>1. tr.root # None => b["right"][tr.root] = None BY DEF Bounded, Sides
    <3> QED BY <1>1, <2>1, <3>1
  <2> DEFINE p == tr.parent[n]
             x == Side(tr, n)
  <2>3. p \in Nodes(tr) /\ p \in Keys /\ x \in Sides /\ tr[x][p] = n BY <1>1, <2>1, <2>2, Parent
  <2>10. n \in Int /\ p \in Int BY <1>1, <2>1, <2>3
  <2> HIDE DEF p, x
  <2>4. b[x][n] = b[x][p] /\ b[Opposite(x)][n] = p
    <3>1. tr[x][p] # None /\ p # None BY <1>1, <2>1, <2>3
    <3> QED BY <2>3, <3>1, ChildBounds
  <2>5. x # "left"
    <3>1. ASSUME x = "left" PROVE FALSE
      <4>1. p = a BY <2>1, <2>4, <3>1 DEF Opposite
      <4>2. tr.left[a] = n BY <2>3, <3>1, <4>1
      <4> QED BY <1>1, <2>1, <2>10, <4>2
    <3> QED BY <3>1
  <2>6. x = "right" /\ b.right[p] = a /\ tr.right[p] = n BY <2>1, <2>3, <2>4, <2>5 DEF Sides
  <2>7. p < n
    <3>1. b["left"][n] = p BY <2>4, <2>6 DEF Opposite
    <3>2. Inside(b, n, n) BY <1>1, <2>1 DEF Bounded
    <3> QED BY <1>1, <2>3, <2>10, <3>1, <3>2 DEF Inside, Sides, Less
  <2>8. d < p
    <3>1. p # d
      <4>1. ASSUME p = d PROVE FALSE
        <5>1. tr.right[d] = n /\ n # None BY <1>1, <2>1, <2>6, <4>1
        <5> QED BY <2>1, <2>10, <5>1
      <4> QED BY <4>1
    <3>2. ~(p < d)
      <4>1. ASSUME p < d PROVE FALSE
        <5>1. tr.right[p] <= d BY <2>3, <2>6, <4>1
        <5> QED BY <1>1, <2>1, <2>6, <2>10, <5>1
      <4> QED BY <4>1
    <3> QED BY <1>1, <2>10, <3>1, <3>2
  <2>9. ~(tr.right[d] # None /\ tr.right[d] <= p)
    <3>1. ASSUME tr.right[d] # None, tr.right[d] <= p PROVE FALSE
      <4>1. tr.right[d] \in Int BY <1>1, <3>1 DEF Nil
      <4>2. tr.right[d] <= n BY <2>7, <2>10, <3>1, <4>1
      <4> QED BY <2>1, <3>1, <4>2
    <3> QED BY <3>1
  <2> QED BY <2>2, <2>3, <2>6, <2>8, <2>9 DEF p
<1>3. S \in SUBSET (Nodes(tr) \ {tr.root}) BY <1>2
<1> HIDE DEF S
<1>4. S = {} BY <1>2, <1>3 DEF Shape, Hang
<1> QED BY <1>4 DEF S

\* ... nor to the left.
LEMMA Leftmost ==
    ASSUME MapOK, NEW tr, Shape(tr), NEW b \in Bounds, Bounded(tr, b, None),
           NEW a \in Nodes(tr), tr.left[a] # None, NEW k \in Nodes(tr), b.right[k] = a
    PROVE  tr.left[a] <= k
<1> DEFINE S == {n \in Nodes(tr) : b.right[n] = a /\ n < tr.left[a]}
<1>1. /\ Nodes(tr) \subseteq Keys /\ Keys \subseteq Int /\ None \notin Keys
      /\ a \in Keys /\ k \in Keys /\ k \in Int /\ tr.left[a] \in Keys /\ tr.left[a] \in Int
  BY Types DEF Shape, MapOK, Sides, Nil
<1>2. ASSUME NEW n \in S PROVE n # tr.root /\ tr.parent[n] \in S
  <2>1. n \in Keys /\ n \in Nodes(tr) /\ b.right[n] = a /\ n < tr.left[a] BY <1>1
  <2>2. n # tr.root
    <3>1. tr.root # None => b["right"][tr.root] = None BY DEF Bounded, Sides
    <3> QED BY <1>1, <2>1, <3>1
  <2> DEFINE p == tr.parent[n]
             x == Side(tr, n)
  <2>3. p \in Nodes(tr) /\ p \in Keys /\ x \in Sides /\ tr[x][p] = n BY <1>1, <2>1, <2>2, Parent
  <2>10. n \in Int /\ p \in Int BY <1>1, <2>1, <2>3
  <2> HIDE DEF p, x
  <2>4. b[x][n] = b[x][p] /\ b[Opposite(x)][n] = p
    <3>1. tr[x][p] # None /\ p # None BY <1>1, <2>1, <2>3
    <3> QED BY <2>3, <3>1, ChildBounds
  <2>5. x # "left"
    <3>1. ASSUME x = "left" PROVE FALSE
      <4>1. p = a BY <2>1, <2>4, <3>1 DEF Opposite
      <4>2. tr.left[a] = n BY <2>3, <3>1, <4>1
      <4> QED BY <1>1, <2>1, <2>10, <4>2
    <3> QED BY <3>1
  <2>6. x = "right" /\ b.right[p] = a /\ tr.right[p] = n BY <2>1, <2>3, <2>4, <2>5 DEF Sides
  <2>7. p < n
    <3>1. b["left"][n] = p BY <2>4, <2>6 DEF Opposite
    <3>2. Inside(b, n, n) BY <1>1, <2>1 DEF Bounded
    <3> QED BY <1>1, <2>3, <2>10, <3>1, <3>2 DEF Inside, Sides, Less
  <2>8. p < tr.left[a] BY <1>1, <2>1, <2>10, <2>7
  <2> QED BY <2>2, <2>3, <2>6, <2>8 DEF p
<1>3. S \in SUBSET (Nodes(tr) \ {tr.root}) BY <1>2
<1> HIDE DEF S
<1>4. S = {} BY <1>2, <1>3 DEF Shape, Hang
<1>5. k \notin S BY <1>4
<1>6. ~(k < tr.left[a]) BY <1>5 DEF S
<1> QED BY <1>1, <1>6

\* The predecessor d takes the place of a, and a that of d.
LEMMA TradeBounds ==
    ASSUME MapOK, NEW tr, Shape(tr), NEW b \in Bounds, Bounded(tr, b, None),
           NEW a \in Nodes(tr), NEW d \in Nodes(tr), tr.left[a] # None, tr.left[a] <= d,
           b.right[d] = a, tr.right[d] = None,
           \A n \in Nodes(tr) : b.right[n] = a /\ n < d => tr.right[n] # None /\ tr.right[n] <= d,
           NEW v, Traded(tr, v, a, d)
    PROVE  Sorted(v, a)
<1> DEFINE N(n) == Named(a, d, n)
           e == Skip(b, d)
           c == [x \in Sides |-> [m \in Keys |-> N(e[x][N(m)])]]
<1>1. /\ a \in Keys /\ d \in Keys /\ None \notin Keys /\ tr.root \in Nil /\ Keys \subseteq Int
      /\ Nodes(tr) \subseteq Keys /\ a \in Int /\ d \in Int
  BY Types DEF Shape, MapOK
<1>2. Inside(b, d, d) BY <1>1 DEF Bounded
<1>3. d < a BY <1>1, <1>2 DEF Inside, Less, Sides
<1>4. e \in Bounds /\ Bounded(tr, e, d) /\ \A x \in Sides, m \in Keys : e[x][m] # d BY Waive
<1>5. \A x \in Sides, m \in Keys : e[x][m] = IF b[x][m] = d THEN b[x][d] ELSE b[x][m] BY DEF Skip
<1>6. \A x \in Sides, m \in Keys : e[x][m] \in Nil /\ b[x][m] \in Nil BY <1>4 DEF Bounds
<1>7. /\ \A n : N(N(n)) = n
      /\ \A n \in Keys : N(n) \in Keys
      /\ N(None) = None /\ N(a) = d /\ N(d) = a /\ \A n : n \notin {a, d} => N(n) = n
  BY <1>1, Names DEF Named
<1>8. /\ v.root = N(tr.root) /\ \A m \in Keys, x \in Sides : v[x][m] = N(tr[x][N(m)])
      /\ Nodes(v) = Nodes(tr)
  BY TradeShape DEF Traded
<1> HIDE DEF e, N
<1>9. c \in Bounds /\ \A x \in Sides, m \in Keys : c[x][m] = N(e[x][N(m)])
  <2>1. ASSUME NEW n \in Nil PROVE N(n) \in Nil BY <1>7 DEF Nil
  <2> QED BY <1>6, <1>7, <2>1 DEF Bounds
<1> HIDE DEF c
<1>10. v.root # None => \A x \in Sides : c[x][v.root] = None
  <2>1. tr.root # None => \A x \in Sides : e[x][tr.root] = None BY <1>4 DEF Bounded
  <2>2. ASSUME v.root # None, NEW x \in Sides PROVE c[x][v.root] = None
    <3>1. tr.root \in Keys /\ tr.root # None BY <1>1, <1>7, <1>8, <2>2 DEF Nil
    <3>2. c[x][N(tr.root)] = N(e[x][N(N(tr.root))]) BY <1>7, <1>9, <3>1
    <3> QED BY <1>7, <1>8, <2>1, <3>1, <3>2
  <2> QED BY <2>2
<1>11. ASSUME NEW m \in Keys, NEW x \in Sides, v[x][m] # None
       PROVE  /\ c[x][v[x][m]] = c[x][m]
              /\ c[Opposite(x)][v[x][m]] = IF m = a THEN c[Opposite(x)][m] ELSE m
  <2> DEFINE q == N(m)
             k == tr[x][q]
  <2>1. v[x][m] = N(k) /\ q \in Keys /\ N(q) = m BY <1>7, <1>8
  <2>2. k # None BY <1>7, <1>11, <2>1
  <2>3. k \in Keys /\ N(k) \in Keys /\ N(N(k)) = k BY <1>7, <2>1, <2>2, Child
  <2>4. Opposite(x) \in Sides BY Opposites
  <2>5. /\ e[x][k] = e[x][q] /\ (q # d => e[Opposite(x)][k] = q)
        /\ (q = d => e[Opposite(x)][k] = e[Opposite(x)][q])
    <3> HIDE DEF q
    <3> QED BY <1>4, <2>1, <2>2, ChildBounds
  <2>6. q = d <=> m = a BY <1>7
  <2> HIDE DEF k, q
  <2>7. c[x][N(k)] = N(e[x][k]) /\ c[Opposite(x)][N(k)] = N(e[Opposite(x)][k])
    <3>1. /\ c[x][N(k)] = N(e[x][N(N(k))])
          /\ c[Opposite(x)][N(k)] = N(e[Opposite(x)][N(N(k))])
      BY <1>9, <2>3, <2>4
    <3> QED BY <2>3, <3>1
  <2>8. c[x][m] = N(e[x][q]) /\ c[Opposite(x)][m] = N(e[Opposite(x)][q]) BY <1>9, <2>4 DEF q
  <2> QED BY <2>1, <2>5, <2>6, <2>7, <2>8
<1>12. ASSUME NEW m \in Nodes(tr) \ {a} PROVE Inside(c, m, m)
  <2>1. ASSUME NEW x \in Sides PROVE c[x][m] = None \/ Less(x, c[x][m], m)
    <3>1. m \in Keys BY <1>1
    <3>2. ASSUME NEW n \in Nodes(tr) \ {d} PROVE e[x][n] = None \/ Less(x, e[x][n], n)
      BY <1>4 DEF Bounded, Inside
    <3>3. CASE m = d
      <4>1. c[x][m] = N(e[x][a]) /\ e[x][a] \in Nil BY <1>1, <1>6, <1>7, <1>9, <3>1, <3>3
      <4>2. e[x][a] # None => Less(x, e[x][a], a) /\ a # d BY <1>1, <1>3, <3>2
      <4>3. e[x][a] # a BY <1>1, <4>2, Sided
      <4>4. c[x][m] = e[x][a] BY <1>1, <1>4, <1>7, <4>1, <4>3
      <4>5. ASSUME e[x][a] # None PROVE Less(x, e[x][a], d)
        <5>3. e[x][a] \in Int BY <1>1, <4>1, <4>5 DEF Nil
        <5>1. CASE x = "right" BY <1>1, <1>3, <4>2, <4>5, <5>1, <5>3 DEF Less
        <5>2. CASE x = "left"
          <6>1. CASE b[x][a] = d
            <7>1. e[x][a] = b[x][d] BY <1>1, <1>5, <6>1
            <7> QED BY <1>2, <4>5, <7>1 DEF Inside
          <6>2. CASE b[x][a] # d
            <7> DEFINE l == tr[x][a]
            <7>1. tr[x][a] # None /\ tr[x][a] <= d BY <5>2
            <7>2. l \in Keys /\ l \in Int /\ l \in Nodes(tr) BY <1>1, <7>1, Child
            <7>3. b[x][l] = b[x][a] BY <1>1, <7>1, ChildBounds
            <7> HIDE DEF l
            <7>4. Inside(b, l, l) BY <1>1, <7>2 DEF Bounded
            <7>5. e[x][a] = b[x][l] BY <1>1, <1>5, <6>2, <7>3
            <7>6. Less(x, b[x][l], l) BY <4>5, <7>4, <7>5 DEF Inside
            <7>8. l <= d BY <7>1 DEF l
            <7> QED BY <1>1, <5>2, <5>3, <7>2, <7>5, <7>6, <7>8 DEF Less
          <6> QED BY <6>1, <6>2
        <5> QED BY <5>1, <5>2 DEF Sides
      <4> QED BY <3>3, <4>4, <4>5
    <3>4. CASE m # d
      <4>1. c[x][m] = N(e[x][m]) /\ e[x][m] \in Nil /\ e[x][m] # d BY <1>4, <1>6, <1>7, <1>9, <3>1, <3>4
      <4>2. e[x][m] # None => Less(x, e[x][m], m) BY <3>2, <3>4
      <4>3. CASE e[x][m] # a BY <1>7, <4>1, <4>2, <4>3
      <4>4. CASE e[x][m] = a
        <5>1. c[x][m] = d BY <1>7, <4>1, <4>4
        <5>2. Less(x, a, m) BY <1>1, <4>2, <4>4
        <5>5. m \in Int BY <1>1, <3>1
        <5>3. CASE x = "left" BY <1>1, <1>3, <5>1, <5>2, <5>3, <5>5 DEF Less
        <5>4. CASE x = "right"
          <6>1. b[x][m] = a \/ b[x][m] = d BY <1>5, <3>1, <4>4
          <6>2. CASE b[x][m] = d
            <7>1. Inside(b, m, m) BY <1>1, <3>1 DEF Bounded
            <7> QED BY <1>1, <5>1, <6>2, <7>1 DEF Inside
          <6>3. CASE b[x][m] = a
            <7>1. ~(d < m)
              <8>1. ASSUME d < m PROVE FALSE
                <9>1. b.right[m] = a BY <5>4, <6>3
                <9> QED BY <8>1, <9>1, Nearest
              <8> QED BY <8>1
            <7>2. m < d BY <1>1, <5>5, <3>4, <7>1
            <7> QED BY <5>1, <5>4, <7>2 DEF Less
          <6> QED BY <6>1, <6>2, <6>3
        <5> QED BY <5>3, <5>4 DEF Sides
      <4> QED BY <4>3, <4>4
    <3> QED BY <3>3, <3>4
  <2> QED BY <2>1 DEF Inside
<1> QED BY <1>8, <1>9, <1>10, <1>11, <1>12 DEF Sorted, Bounded

\* v is tr without g, in whose place is c.
Unlinked(tr, v, g, c) ==
    /\ TreeType(v) /\ v.root = IF g = tr.root THEN c ELSE tr.root
    /\ \A m \in Keys \ {g}, x \in Sides : v[x][m] = IF tr[x][m] = g THEN c ELSE tr[x][m]
    /\ \A x \in Sides : v[x][g] = None
    /\ v.parent[g] = None /\ (c # None => v.parent[c] = tr.parent[g])
    /\ \A m \in Keys \ {g, c} : v.parent[m] = tr.parent[m]

Unlink(tr, g, c) ==
    LET u == ReplaceNode(tr, g, c)
        v == IF u.parent[g] = None /\ c # None THEN Paint(u, c, "black") ELSE u
    IN  [v EXCEPT !.color[g] = "red", !.left[g] = None, !.right[g] = None, !.parent[g] = None]

\* The child of the node to be unlinked.
LEMMA Only ==
    ASSUME MapOK, NEW tr, Shape(tr), NEW g \in Nodes(tr), tr.left[g] = None \/ tr.right[g] = None,
           NEW c, c = OnlyChild(tr, g)
    PROVE  /\ g \in Keys /\ g # None /\ c \in Nil /\ c # g
           /\ \A x \in Sides : tr[x][g] # None => tr[x][g] = c
           /\ c # None => /\ c \in Nodes(tr) /\ c \in Keys /\ tr.parent[c] = g
                          /\ c # tr.root /\ tr.parent[g] # c
                          /\ \E x \in Sides : tr[x][g] = c /\ tr[Opposite(x)][g] = None
<1>1. g \in Keys /\ g # None BY Types DEF Shape
<1>2. c \in {tr["left"][g], tr["right"][g]} /\ "left" \in Sides /\ "right" \in Sides
  BY DEF OnlyChild, Sides
<1>3. \A x \in Sides : tr[x][g] # None => tr[x][g] = c
  <2>1. tr.left[g] # None => c = tr.left[g] BY DEF OnlyChild
  <2>2. tr.right[g] # None => c = tr.right[g] BY DEF OnlyChild
  <2> QED BY <2>1, <2>2 DEF Sides
<1>4. c \in Nil BY <1>1, <1>2, Types DEF Shape
<1>5. ASSUME c # None
      PROVE  /\ c \in Nodes(tr) /\ c \in Keys /\ tr.parent[c] = g /\ c # g
             /\ c # tr.root /\ tr.parent[g] # c
             /\ \E x \in Sides : tr[x][g] = c /\ tr[Opposite(x)][g] = None
  <2>1. PICK x \in Sides : tr[x][g] = c BY <1>2
  <2>2. tr[Opposite(x)][g] # c BY <1>1, <1>5, <2>1, Child
  <2>3. tr[Opposite(x)][g] = None BY <1>3, <2>2, Opposites
  <2>4. /\ c \in Nodes(tr) /\ c \in Keys /\ tr.parent[c] = g /\ c # g
        /\ c # tr.root /\ tr.parent[g] # c
    BY <1>1, <1>5, <2>1, Child
  <2> QED BY <2>1, <2>3, <2>4
<1> QED BY <1>1, <1>3, <1>4, <1>5

LEMMA UnlinkTree ==
    ASSUME MapOK, NEW tr, Shape(tr), NEW g \in Nodes(tr), tr.left[g] = None \/ tr.right[g] = None,
           NEW c, c = OnlyChild(tr, g)
    PROVE  /\ Unlinked(tr, Unlink(tr, g, c), g, c)
           /\ \A m \in Keys : Unlink(tr, g, c).color[m] =
                IF m = g THEN "red" ELSE IF m = c /\ g = tr.root THEN "black" ELSE tr.color[m]
<1> DEFINE u == ReplaceNode(tr, g, c)
           p == tr.parent[g]
<1>1. /\ g \in Keys /\ g # None /\ c \in Nil /\ c # g /\ TreeType(tr) /\ None \notin Keys
      /\ c # None => tr.parent[c] = g /\ c \in Keys
  BY Only, Types DEF Shape, Nil
<1>2. (p = None <=> g = tr.root) /\ p \in Nil /\ p # g BY Parent, Types, <1>1 DEF Shape
<1>3. /\ TreeType(u) /\ u.color = tr.color
      /\ u.root = IF p = None THEN c ELSE tr.root
      /\ \A m \in Keys, x \in Sides :
           u[x][m] = IF p # None /\ m = p /\ x = Side(tr, g) THEN c ELSE tr[x][m]
      /\ \A m \in Keys : u.parent[m] = IF m = c THEN p ELSE tr.parent[m]
  BY <1>1, Replaced
<1>4. ASSUME NEW m \in Keys, NEW x \in Sides
      PROVE  u[x][m] = IF tr[x][m] = g THEN c ELSE tr[x][m]
  <2>1. tr[x][m] = g => tr.parent[g] = m BY <1>1, Child
  <2>2. p # None => (tr[x][p] = g <=> x = Side(tr, g)) BY <1>2, Parent
  <2>3. m # None BY <1>1
  <2> QED BY <1>3, <2>1, <2>2, <2>3
<1> HIDE DEF u
<1> DEFINE v == IF u.parent[g] = None /\ c # None THEN Paint(u, c, "black") ELSE u
           z == [v EXCEPT !.color[g] = "red", !.left[g] = None, !.right[g] = None, !.parent[g] = None]
<1>5. Unlink(tr, g, c) = z BY DEF Unlink, u
<1>6. /\ TreeType(v) /\ Same(u, v)
      /\ \A m \in Keys : v.color[m] = IF m = c /\ g = tr.root THEN "black" ELSE tr.color[m]
  <2>1. u.parent[g] = p BY <1>1, <1>3
  <2>2. CASE p = None /\ c # None
    <3>1. v = Paint(u, c, "black") /\ c \in Keys BY <1>1, <2>1, <2>2
    <3> HIDE DEF v
    <3>5. TreeType(u) BY <1>3
    <3>2. TreeType(v) /\ Same(u, v) /\ v.color = [u.color EXCEPT ![c] = "black"]
      BY <3>1, <3>5, Painted
    <3>3. tr.color \in [Keys -> {"red", "black"}] BY <1>1 DEF TreeType
    <3>4. \A m \in Keys : v.color[m] = IF m = c THEN "black" ELSE tr.color[m] BY <1>3, <3>2, <3>3
    <3> QED BY <1>2, <2>2, <3>2, <3>4
  <2>3. CASE ~(p = None /\ c # None) BY <1>1, <1>2, <1>3, <2>1, <2>3 DEF Same
  <2> QED BY <2>2, <2>3
<1> HIDE DEF v
<1>7. /\ TreeType(z) /\ z.root = u.root
      /\ \A m \in Keys, x \in Sides : z[x][m] = IF m = g THEN None ELSE u[x][m]
      /\ \A m \in Keys : z.parent[m] = IF m = g THEN None ELSE u.parent[m]
      /\ \A m \in Keys : z.color[m] = IF m = g THEN "red" ELSE v.color[m]
  <2>1. TreeType(z)
    BY <1>1, <1>6 DEF TreeType, Nil
  <2>2. ASSUME NEW m \in Keys, NEW x \in Sides
        PROVE  z[x][m] = IF m = g THEN None ELSE u[x][m]
    BY <1>1, <1>6 DEF TreeType, Sides, Same
  <2>3. \A m \in Keys : z.parent[m] = IF m = g THEN None ELSE u.parent[m]
    BY <1>1, <1>6 DEF TreeType, Same
  <2>4. \A m \in Keys : z.color[m] = IF m = g THEN "red" ELSE v.color[m]
    BY <1>1, <1>6 DEF TreeType
  <2>5. z.root = u.root BY <1>6 DEF TreeType, Same
  <2> QED BY <2>1, <2>2, <2>3, <2>4, <2>5
<1> HIDE DEF z
<1>8. Unlinked(tr, z, g, c)
  <2>1. z.root = IF g = tr.root THEN c ELSE tr.root BY <1>2, <1>3, <1>7
  <2>2. ASSUME NEW m \in Keys \ {g}, NEW x \in Sides
        PROVE  z[x][m] = IF tr[x][m] = g THEN c ELSE tr[x][m]
    <3>1. z[x][m] = u[x][m] BY <1>7
    <3> QED BY <1>4, <3>1
  <2>3. \A x \in Sides : z[x][g] = None BY <1>1, <1>7
  <2>4. z.parent[g] = None /\ (c # None => z.parent[c] = p) BY <1>1, <1>3, <1>7
  <2>5. \A m \in Keys \ {g, c} : z.parent[m] = tr.parent[m] BY <1>3, <1>7
  <2> QED BY <1>7, <2>1, <2>2, <2>3, <2>4, <2>5 DEF Unlinked
<1>9. \A m \in Keys : z.color[m] =
        IF m = g THEN "red" ELSE IF m = c /\ g = tr.root THEN "black" ELSE tr.color[m]
  BY <1>6, <1>7
<1> QED BY <1>5, <1>8, <1>9

LEMMA UnlinkShape ==
    ASSUME MapOK, NEW tr, Shape(tr), NEW g \in Nodes(tr), tr.left[g] = None \/ tr.right[g] = None,
           NEW c, c = OnlyChild(tr, g), NEW v, Unlinked(tr, v, g, c)
    PROVE  Shape(v) /\ Nodes(v) = Nodes(tr) \ {g}
<1>1. /\ g \in Keys /\ g # None /\ c \in Nil /\ c # g /\ None \notin Keys /\ tr.root \in Nil
      /\ \A x \in Sides : tr[x][g] # None => tr[x][g] = c
      /\ c # None => /\ c \in Nodes(tr) /\ c \in Keys /\ tr.parent[c] = g
                     /\ c # tr.root /\ tr.parent[g] # c
  BY Only, Types DEF Shape, Nil
<1>2. /\ TreeType(v) /\ v.root = IF g = tr.root THEN c ELSE tr.root
      /\ \A m \in Keys \ {g}, x \in Sides : v[x][m] = IF tr[x][m] = g THEN c ELSE tr[x][m]
      /\ \A x \in Sides : v[x][g] = None
      /\ v.parent[g] = None /\ (c # None => v.parent[c] = tr.parent[g])
      /\ \A m \in Keys \ {g, c} : v.parent[m] = tr.parent[m]
  BY DEF Unlinked
<1>3. (tr.parent[g] = None <=> g = tr.root) /\ tr.parent[g] \in Nil /\ tr.parent[g] # g
  BY Parent, Types, <1>1 DEF Shape
<1>4. ASSUME NEW m \in Keys, NEW x \in Sides, tr[x][m] # None
      PROVE  /\ tr[x][m] \in Nodes(tr) /\ tr[x][m] \in Keys /\ m \in Nodes(tr)
             /\ tr.parent[tr[x][m]] = m /\ tr[x][m] # m
  BY <1>4, Child
<1>5. Nodes(v) = Nodes(tr) \ {g}
  <2>1. ASSUME NEW m \in Keys PROVE m \in Nodes(v) <=> m \in Nodes(tr) /\ m # g
    <3>1. m \in Nodes(v) <=> m = v.root \/ v.parent[m] # None BY <1>2, Types
    <3>2. m \in Nodes(tr) <=> m = tr.root \/ tr.parent[m] # None BY Types DEF Shape
    <3>3. CASE m = g BY <1>1, <1>2, <3>1, <3>3
    <3>4. CASE m = c BY <1>1, <1>2, <1>3, <3>1, <3>4
    <3>5. CASE m # g /\ m # c
      <4>1. v.parent[m] = tr.parent[m] BY <1>2, <3>5
      <4>2. m = v.root <=> m = tr.root BY <1>2, <3>5
      <4> QED BY <3>1, <3>2, <3>5, <4>1, <4>2
    <3> QED BY <3>3, <3>4, <3>5
  <2>2. Nodes(v) \subseteq Keys /\ Nodes(tr) \subseteq Keys BY <1>2, Types DEF Shape
  <2> QED BY <2>1, <2>2
<1>6. Agree(v)
  <2>1. v.root # None => v.parent[v.root] = None
    <3>1. tr.root # None => tr.parent[tr.root] = None BY DEF Shape, Agree
    <3>2. CASE g = tr.root BY <1>2, <1>3, <3>2
    <3>3. CASE g # tr.root BY <1>1, <1>2, <3>1, <3>3 DEF Nil
    <3> QED BY <3>2, <3>3
  <2>2. ASSUME NEW m \in Keys, NEW x \in Sides, v[x][m] # None
        PROVE  m \in Nodes(v) /\ v.parent[v[x][m]] = m
    <3>1. m # g /\ v[x][m] = IF tr[x][m] = g THEN c ELSE tr[x][m] BY <1>2, <2>2
    <3>2. tr[x][m] # None BY <1>1, <2>2, <3>1
    <3>3. /\ tr[x][m] \in Keys /\ m \in Nodes(tr) /\ tr.parent[tr[x][m]] = m BY <1>4, <3>2
    <3>4. CASE tr[x][m] = g BY <1>2, <1>5, <2>2, <3>1, <3>3, <3>4
    <3>5. CASE tr[x][m] # g
      <4>1. tr[x][m] # c BY <1>1, <3>1, <3>2, <3>3
      <4>2. tr[x][m] \in Keys \ {g, c} BY <3>3, <3>5, <4>1
      <4>3. v.parent[tr[x][m]] = tr.parent[tr[x][m]] BY <1>2, <4>2
      <4> QED BY <1>5, <3>1, <3>3, <3>5, <4>3
    <3> QED BY <3>4, <3>5
  <2>3. ASSUME NEW m \in Keys, v.parent[m] # None
        PROVE  v.parent[m] \in Nodes(v) /\ \E x \in Sides : v[x][v.parent[m]] = m
    <3>1. m # g BY <1>2, <2>3
    <3>2. CASE m = c
      <4>1. v.parent[m] = tr.parent[g] /\ g # tr.root BY <1>1, <1>2, <1>3, <2>3, <3>2
      <4>2. tr.parent[g] \in Nodes(tr) /\ \E x \in Sides : tr[x][tr.parent[g]] = g
        BY <4>1, Parent
      <4>3. PICK x \in Sides : tr[x][tr.parent[g]] = g BY <4>2
      <4>4. tr.parent[g] \in Keys \ {g} BY <1>3, <4>2, Types DEF Shape
      <4>5. v[x][tr.parent[g]] = c BY <1>2, <4>3, <4>4
      <4> QED BY <1>5, <3>2, <4>1, <4>2, <4>4, <4>5
    <3>3. CASE m # c
      <4>1. v.parent[m] = tr.parent[m] BY <1>2, <3>1, <3>3
      <4>2. tr.parent[m] \in Nodes(tr) /\ \E x \in Sides : tr[x][tr.parent[m]] = m
        BY <2>3, <4>1 DEF Shape, Agree
      <4>3. PICK x \in Sides : tr[x][tr.parent[m]] = m BY <4>2
      <4>4. tr.parent[m] # g BY <1>1, <3>3, <4>3
      <4>5. tr.parent[m] \in Keys \ {g} BY <4>2, <4>4, Types DEF Shape
      <4>6. v[x][tr.parent[m]] = m BY <1>2, <3>1, <4>3, <4>5
      <4> QED BY <1>5, <4>1, <4>2, <4>4, <4>6
    <3> QED BY <3>2, <3>3
  <2>4. ASSUME NEW m \in Keys, v.left[m] # None, v.left[m] = v.right[m] PROVE FALSE
    <3>1. "left" \in Sides /\ "right" \in Sides BY DEF Sides
    <3>2. m # g BY <1>2, <2>4, <3>1
    <3>3. /\ v["left"][m] = IF tr["left"][m] = g THEN c ELSE tr["left"][m]
          /\ v["right"][m] = IF tr["right"][m] = g THEN c ELSE tr["right"][m]
      BY <1>2, <3>1, <3>2
    <3>4. tr.left[m] # None => tr.left[m] # tr.right[m] BY DEF Shape, Agree
    <3>5. c # None => tr["left"][m] # c /\ tr["right"][m] # c BY <1>1, <1>4, <3>1, <3>2
    <3> QED BY <1>1, <2>4, <3>3, <3>4, <3>5
  <2> QED BY <2>1, <2>2, <2>3, <2>4 DEF Agree
<1>7. Hang(v)
  <2>1. SUFFICES ASSUME NEW S \in SUBSET (Nodes(v) \ {v.root}), S # {}, \A m \in S : v.parent[m] \in S
                 PROVE  FALSE
    BY DEF Hang
  <2> DEFINE R == IF c \in S THEN S \cup {g} ELSE S
  <2>2. S \subseteq Nodes(tr) /\ S \subseteq Keys /\ g \notin S BY <1>5, <2>1, Types DEF Shape
  <2>3. c \in S => g # tr.root /\ tr.parent[g] \in S BY <1>1, <1>2, <2>1, <2>2
  <2>4. R \in SUBSET (Nodes(tr) \ {tr.root}) /\ R # {} BY <1>2, <2>1, <2>2, <2>3
  <2>5. ASSUME NEW m \in R PROVE tr.parent[m] \in R
    <3>1. CASE m = g BY <2>2, <2>3, <2>5, <3>1
    <3>2. CASE m = c
      <4>1. m \in S /\ m # None BY <1>1, <2>2, <2>5, <3>2
      <4> QED BY <1>1, <3>2, <4>1
    <3>3. CASE m # g /\ m # c
      <4>1. m \in S /\ m \in Keys BY <2>2, <2>5, <3>3
      <4>2. v.parent[m] = tr.parent[m] BY <1>2, <3>3, <4>1
      <4> QED BY <2>1, <4>1, <4>2
    <3> QED BY <3>1, <3>2, <3>3
  <2> QED BY <2>4, <2>5 DEF Shape, Hang
<1> QED BY <1>2, <1>5, <1>6, <1>7 DEF Shape

LEMMA UnlinkBounds ==
    ASSUME MapOK, NEW tr, Shape(tr), NEW g \in Nodes(tr), tr.left[g] = None \/ tr.right[g] = None,
           NEW c, c = OnlyChild(tr, g), NEW v, Unlinked(tr, v, g, c),
           NEW b \in Bounds, Bounded(tr, b, g)
    PROVE  Bounded(v, b, None)
<1>1. /\ g \in Keys /\ g # None /\ c \in Nil /\ None \notin Keys /\ tr.root \in Nil
      /\ c # None => \E x \in Sides : tr[x][g] = c
  BY Only, Types DEF Shape, Nil
<1>2. /\ v.root = IF g = tr.root THEN c ELSE tr.root
      /\ \A m \in Keys \ {g}, x \in Sides : v[x][m] = IF tr[x][m] = g THEN c ELSE tr[x][m]
      /\ \A x \in Sides : v[x][g] = None
  BY DEF Unlinked
<1>3. Nodes(v) = Nodes(tr) \ {g} BY UnlinkShape
<1>4. c # None => \A x \in Sides : b[x][c] = b[x][g]
  <2>1. ASSUME c # None, NEW x \in Sides PROVE b[x][c] = b[x][g]
    <3>1. PICK y \in Sides : tr[y][g] = c BY <1>1, <2>1
    <3>2. tr[y][g] # None BY <2>1, <3>1
    <3>3. b[y][tr[y][g]] = b[y][g] /\ b[Opposite(y)][tr[y][g]] = b[Opposite(y)][g]
      BY <1>1, <3>2, ChildBounds
    <3>4. x = y \/ x = Opposite(y) BY Opposites
    <3> QED BY <3>1, <3>3, <3>4
  <2> QED BY <2>1
<1>5. /\ tr.root # None => \A x \in Sides : b[x][tr.root] = None
      /\ \A m \in Keys : \A x \in Sides : tr[x][m] # None =>
            b[x][tr[x][m]] = b[x][m] /\ b[Opposite(x)][tr[x][m]] = IF m = g THEN b[Opposite(x)][m] ELSE m
  BY DEF Bounded
<1>6. v.root # None => \A x \in Sides : b[x][v.root] = None
  <2>1. CASE g = tr.root BY <1>1, <1>2, <1>4, <1>5, <2>1
  <2>2. CASE g # tr.root BY <1>2, <1>5, <2>2
  <2> QED BY <2>1, <2>2
<1>7. ASSUME NEW m \in Keys, NEW x \in Sides, v[x][m] # None
      PROVE  /\ b[x][v[x][m]] = b[x][m]
             /\ b[Opposite(x)][v[x][m]] = IF m = None THEN b[Opposite(x)][m] ELSE m
  <2>1. m # g /\ m # None /\ v[x][m] = IF tr[x][m] = g THEN c ELSE tr[x][m] BY <1>1, <1>2, <1>7
  <2>2. tr[x][m] # None BY <1>1, <1>7, <2>1
  <2>3. b[x][tr[x][m]] = b[x][m] /\ b[Opposite(x)][tr[x][m]] = m
    BY <1>5, <2>1, <2>2
  <2>4. Opposite(x) \in Sides BY Opposites
  <2> QED BY <1>4, <1>7, <2>1, <2>3, <2>4
<1>8. \A m \in Nodes(v) \ {None} : Inside(b, m, m) BY <1>3 DEF Bounded
<1> QED BY <1>6, <1>7, <1>8 DEF Bounded

LEMMA UnlinkEven ==
    ASSUME MapOK, NEW tr, Shape(tr), NEW g \in Nodes(tr), tr.left[g] = None \/ tr.right[g] = None,
           NEW c, c = OnlyChild(tr, g), NEW v, Unlinked(tr, v, g, c),
           NEW w \in [Keys -> Nat], Even(tr, w), w[g] = 0
    PROVE  Even(v, w)
<1>1. PICK bh \in [Keys -> Nat] : Heights(tr, w, bh) BY DEF Even
<1>2. /\ g \in Keys /\ g # None /\ None \notin Keys
      /\ c # None => \E x \in Sides : tr[x][g] = c /\ tr[Opposite(x)][g] = None
      /\ \A x \in Sides : tr[x][g] # None => tr[x][g] = c
      /\ c \in Nil
  BY Only, Types DEF Shape, Nil
<1>3. \A m \in Nodes(tr), x \in Sides : bh[m] = Height(bh, tr[x][m]) + w[m]
  BY <1>1 DEF Heights
<1>4. Nodes(v) = Nodes(tr) \ {g} BY UnlinkShape
<1>5. Height(bh, c) = bh[g]
  <2>1. CASE c = None
    <3>1. tr["left"][g] = None /\ "left" \in Sides BY <1>2, <2>1 DEF Sides
    <3>2. bh[g] = Height(bh, None) + 0 BY <1>3, <3>1
    <3> QED BY <2>1, <3>2 DEF Height
  <2>2. CASE c # None
    <3>1. PICK x \in Sides : tr[x][g] = c BY <1>2, <2>2
    <3>2. bh[g] = Height(bh, c) + 0 BY <1>3, <3>1
    <3>3. Height(bh, c) \in Nat BY <1>2, <2>2 DEF Height, Nil
    <3> QED BY <3>2, <3>3
  <2> QED BY <2>1, <2>2
<1>6. ASSUME NEW m \in Nodes(v), NEW x \in Sides PROVE bh[m] = Height(bh, v[x][m]) + w[m]
  <2>1. m \in Keys \ {g} /\ m \in Nodes(tr) BY <1>4, Types DEF Shape
  <2>2. v[x][m] = IF tr[x][m] = g THEN c ELSE tr[x][m] BY <2>1 DEF Unlinked
  <2>3. Height(bh, v[x][m]) = Height(bh, tr[x][m]) BY <1>2, <1>5, <2>2 DEF Height
  <2> QED BY <1>3, <2>1, <2>3
<1> QED BY <1>6 DEF Even, Heights

-----------------------------------------------------------------------------
(* The cases of Put. *)

LEMMA Weighed ==
    ASSUME NEW tr, NEW gone, NEW short
    PROVE  /\ Weight(tr, gone, short) \in [Keys -> Nat]
           /\ \A n \in Keys : Weight(tr, gone, short)[n] =
                (IF tr.color[n] = "black" /\ n # gone THEN 1 ELSE 0) + (IF n = short THEN 1 ELSE 0)
  BY DEF Weight

LEMMA Equal ==
    ASSUME NEW w \in [Keys -> Nat], NEW y \in [Keys -> Nat], \A m \in Keys : y[m] = w[m]
    PROVE  y = w
<1>1. y = [m \in Keys |-> y[m]] /\ w = [m \in Keys |-> w[m]] OBVIOUS
<1> QED BY <1>1

\* A red node over a red one has a black parent.
LEMMA Grand ==
    ASSUME MapOK, NEW tr, Shape(tr), NEW n \in Nodes(tr), Coloured(tr, n, None),
           tr.parent[n] # None, tr.color[tr.parent[n]] = "red"
    PROVE  LET p == tr.parent[n]  g == tr.parent[p] IN
           /\ n \in Keys /\ p \in Keys /\ g \in Keys /\ p \in Nodes(tr) /\ g \in Nodes(tr)
           /\ None \notin Keys /\ n # None /\ p # None /\ g # None
           /\ n # p /\ n # g /\ p # g /\ n # tr.root /\ p # tr.root
           /\ tr.color[g] = "black" /\ Grandparent(tr, n) = g
           /\ Side(tr, n) \in Sides /\ tr[Side(tr, n)][p] = n
           /\ Side(tr, p) \in Sides /\ tr[Side(tr, p)][g] = p
           /\ tr[Opposite(Side(tr, p))][g] = Uncle(tr, n)
<1> DEFINE p == tr.parent[n]
           g == tr.parent[p]
<1>1. n \in Keys /\ None \notin Keys /\ Nodes(tr) \subseteq Keys BY Types DEF Shape
<1>2. /\ n # tr.root /\ p \in Nodes(tr) /\ p # n
      /\ Side(tr, n) \in Sides /\ tr[Side(tr, n)][p] = n
  BY Parent
<1>3. p \in Keys /\ p # None /\ n # None BY <1>1, <1>2
<1> HIDE DEF p
<1>4. tr.color[p] = "red" /\ tr.parent[n] = p BY DEF p
<1>5. p # tr.root BY <1>2, <1>3, <1>4 DEF Coloured
<1>6. /\ g \in Nodes(tr) /\ g # p /\ g # None /\ Side(tr, p) \in Sides /\ tr[Side(tr, p)][g] = p
  BY <1>1, <1>2, <1>5, Parent
<1>7. g # n BY <1>2, <1>4, Pair
<1>8. tr.color[g] = "black" BY <1>2, <1>4, <1>5, <1>6 DEF Coloured
<1>9. Grandparent(tr, n) = g BY <1>3, <1>4 DEF Grandparent
<1>10. tr[Opposite(Side(tr, p))][g] = Uncle(tr, n)
  BY <1>4, <1>6, <1>9 DEF Uncle, Sibling
<1> QED BY <1>1, <1>2, <1>3, <1>5, <1>6, <1>7, <1>8, <1>9, <1>10 DEF p

LEMMA PutCase3 ==
    ASSUME MapOK, NEW tr, NEW n \in Nodes(tr), Healthy(tr, n, None, None, None),
           tr.color[n] = "red", tr.parent[n] # None, tr.color[tr.parent[n]] = "red",
           NodeColor(tr, Uncle(tr, n)) = "red"
    PROVE  LET g == Grandparent(tr, n)
               v == Paint(Paint(Paint(tr, tr.parent[n], "black"), Uncle(tr, n), "black"), g, "red")
           IN  /\ Healthy(v, g, None, None, None) /\ Nodes(v) = Nodes(tr)
               /\ g \in Nodes(tr) /\ v.color[g] = "red"
<1> DEFINE p == tr.parent[n]
           g == tr.parent[p]
           u == Uncle(tr, n)
           v == Paint(Paint(Paint(tr, p, "black"), u, "black"), g, "red")
<1>0. Shape(tr) /\ TreeType(tr) /\ Coloured(tr, n, None) BY DEF Healthy, Shape
<1>1. /\ n \in Keys /\ p \in Keys /\ g \in Keys /\ p \in Nodes(tr) /\ g \in Nodes(tr)
      /\ None \notin Keys /\ n # None /\ p # None /\ g # None
      /\ n # p /\ n # g /\ p # g /\ n # tr.root /\ p # tr.root
      /\ tr.color[g] = "black" /\ Grandparent(tr, n) = g
      /\ Side(tr, p) \in Sides /\ tr[Side(tr, p)][g] = p /\ tr[Opposite(Side(tr, p))][g] = u
  BY <1>0, Grand
<1>2. u # None /\ tr.color[u] = "red" BY DEF NodeColor
<1>3. tr.color[n] = "red" /\ tr.parent[n] = p /\ tr.parent[p] = g /\ tr.color[p] = "red" OBVIOUS
<1> HIDE DEF p, g, u
<1> DEFINE s == Side(tr, p)
<1>4. s \in Sides /\ Opposite(s) \in Sides BY <1>1, Opposites
<1>5. /\ u \in Keys /\ u \in Nodes(tr) /\ tr.parent[u] = g /\ u # g /\ u # p /\ u # tr.root
  <2>1. tr[Opposite(s)][g] # None BY <1>1, <1>2
  <2>2. /\ u \in Keys /\ u \in Nodes(tr) /\ tr.parent[u] = g /\ u # g /\ u # tr.root
        /\ tr[Opposite(Opposite(s))][g] # u
    BY <1>0, <1>1, <1>4, <2>1, Child
  <2> QED BY <1>1, <1>4, <2>2, Opposites
<1> HIDE DEF s
<1>6. /\ TreeType(v) /\ Same(tr, v)
      /\ \A m \in Keys : v.color[m] =
           IF m = g THEN "red" ELSE IF m = u \/ m = p THEN "black" ELSE tr.color[m]
  <2> DEFINE v1 == Paint(tr, p, "black")
             v2 == Paint(v1, u, "black")
  <2>1. TreeType(v1) /\ Same(tr, v1) /\ v1.color = [tr.color EXCEPT ![p] = "black"]
    BY <1>0, <1>1, Painted
  <2> HIDE DEF v1
  <2>2. TreeType(v2) /\ Same(v1, v2) /\ v2.color = [v1.color EXCEPT ![u] = "black"]
    BY <1>5, <2>1, Painted
  <2> HIDE DEF v2
  <2>3. /\ TreeType(Paint(v2, g, "red")) /\ Same(v2, Paint(v2, g, "red"))
        /\ Paint(v2, g, "red").color = [v2.color EXCEPT ![g] = "red"]
    BY <1>1, <2>2, Painted
  <2>4. v = Paint(v2, g, "red") BY DEF v1, v2
  <2>5. tr.color \in [Keys -> {"red", "black"}] BY <1>0 DEF TreeType
  <2>6. Same(tr, v) BY <2>1, <2>2, <2>3, <2>4 DEF Same
  <2> HIDE DEF v
  <2> QED BY <1>1, <1>5, <2>1, <2>2, <2>3, <2>4, <2>5, <2>6
<1> HIDE DEF v
<1>7. Shape(v) /\ Nodes(v) = Nodes(tr) BY <1>0, <1>6, SameShape
<1>8. Sorted(v, None) BY <1>0, <1>6, SameInv DEF Healthy
<1>9. Even(v, Weight(v, None, None))
  <2> DEFINE w == Weight(tr, None, None)
             y == Weight(v, None, None)
             d == 0 - 1
  <2>1. w \in [Keys -> Nat] /\ y \in [Keys -> Nat] /\ d \in Int BY Weighed
  <2>2. \A m \in Keys : /\ w[m] = IF tr.color[m] = "black" THEN 1 ELSE 0
                        /\ y[m] = IF v.color[m] = "black" THEN 1 ELSE 0
    BY <1>1, Weighed
  <2>3. Even(tr, w) BY DEF Healthy
  <2> HIDE DEF w, y
  <2>4. y[p] = w[p] - d /\ y[u] = w[u] - d /\ y[g] = w[g] + d
    <3>1. w[p] = 0 /\ w[u] = 0 /\ w[g] = 1 BY <1>1, <1>2, <1>3, <1>5, <2>2
    <3>2. v.color[p] = "black" /\ v.color[u] = "black" /\ v.color[g] = "red"
      BY <1>1, <1>5, <1>6
    <3>3. y[p] = 1 /\ y[u] = 1 /\ y[g] = 0 BY <1>1, <1>5, <2>2, <3>2
    <3> QED BY <3>1, <3>3
  <2>5. \A m \in Keys \ {g, p, u} : y[m] = w[m] BY <1>6, <2>2
  <2>6. tr[s][g] = p /\ tr[Opposite(s)][g] = u BY <1>1 DEF s
  <2> HIDE DEF d
  <2>7. Even(tr, y)
    <3>1. \A m \in Keys \ {g, tr[s][g], tr[Opposite(s)][g]} : y[m] = w[m] BY <2>5, <2>6
    <3>2. y[tr[s][g]] = w[tr[s][g]] - d /\ y[tr[Opposite(s)][g]] = w[tr[Opposite(s)][g]] - d
      BY <2>4, <2>6
    <3>3. tr[s][g] # None /\ tr[Opposite(s)][g] # None BY <1>1, <1>2, <2>6
    <3>4. Shape(tr) /\ g \in Keys /\ s \in Sides /\ y[g] = w[g] + d BY <1>0, <1>1, <1>4, <2>4
    <3>5. Pushed(tr, g, s, w, y, d) BY <2>1, <3>1, <3>2, <3>4 DEF Pushed
    <3> QED BY <2>1, <2>3, <3>3, <3>4, <3>5, PushEven
  <2> QED BY <1>0, <1>6, <2>7, SameInv DEF y
<1>10. Coloured(v, g, None)
  <2>1. v.root \notin {None, g} => v.color[v.root] = "black"
    <3>1. v.root = tr.root /\ tr.root \in Nil BY <1>0, <1>6, Types DEF Same
    <3>2. tr.root # None => tr.color[tr.root] = "black" BY <1>0, <1>1 DEF Coloured
    <3> QED BY <1>1, <1>6, <3>1, <3>2 DEF Nil
  <2>2. ASSUME NEW m \in Nodes(v) \ {v.root, g, None}, v.color[m] = "red"
        PROVE  v.color[v.parent[m]] = "black"
    <3>1. m \in Nodes(tr) /\ m \in Keys /\ m # tr.root /\ m # g /\ v.parent[m] = tr.parent[m]
      BY <1>0, <1>6, <1>7, Types DEF Same
    <3>2. m # p /\ m # u /\ tr.color[m] = "red" BY <1>6, <2>2, <3>1
    <3>3. tr.parent[m] \in Keys /\ tr.parent[m] # None BY <1>0, <1>1, <3>1, Parent, Types
    <3>4. CASE m = n BY <1>1, <1>3, <1>6, <3>1, <3>4
    <3>5. CASE m # n
      <4>1. tr.color[tr.parent[m]] = "black" BY <1>0, <1>1, <3>1, <3>2, <3>3, <3>5 DEF Coloured
      <4>2. tr.parent[m] # g
        <5>1. ASSUME tr.parent[m] = g PROVE FALSE
          <6>1. m # tr.root /\ tr[Side(tr, m)][g] = m /\ Side(tr, m) \in Sides
            BY <1>0, <3>1, <5>1, Parent
          <6>2. Side(tr, m) = s \/ Side(tr, m) = Opposite(s) BY <1>4, <6>1, Opposites
          <6> QED BY <1>1, <3>2, <6>1, <6>2 DEF s
        <5> QED BY <5>1
      <4> QED BY <1>6, <3>1, <3>3, <4>1, <4>2
    <3> QED BY <3>4, <3>5
  <2> QED BY <2>1, <2>2 DEF Coloured
<1>11. v.color[g] = "red" BY <1>1, <1>6
<1>12. Healthy(v, g, None, None, None) BY <1>7, <1>8, <1>9, <1>10 DEF Healthy
<1> QED BY <1>1, <1>7, <1>11, <1>12 DEF v, p, g, u

LEMMA PutCase4 ==
    ASSUME MapOK, NEW tr, NEW n \in Nodes(tr), Healthy(tr, n, None, None, None),
           tr.color[n] = "red", tr.parent[n] # None, tr.color[tr.parent[n]] = "red",
           NodeColor(tr, Uncle(tr, n)) = "black", Side(tr, n) # Side(tr, tr.parent[n])
    PROVE  LET p == tr.parent[n]  s == Side(tr, p)  v == Rotate(tr, p, s) IN
           /\ v[s][n] = p /\ Healthy(v, p, None, None, None) /\ Nodes(v) = Nodes(tr)
           /\ p \in Nodes(tr) /\ v.color[p] = "red" /\ v.parent[p] = n /\ v.color[n] = "red"
           /\ NodeColor(v, Uncle(v, p)) = "black" /\ Side(v, p) = Side(v, n) /\ n # None
<1> DEFINE p == tr.parent[n]
           g == tr.parent[p]
           s == Side(tr, p)
           v == Rotate(tr, p, s)
<1>0. Shape(tr) /\ TreeType(tr) /\ Coloured(tr, n, None) /\ Sorted(tr, None)
      /\ Even(tr, Weight(tr, None, None))
  BY DEF Healthy, Shape
<1>1. /\ n \in Keys /\ p \in Keys /\ g \in Keys /\ p \in Nodes(tr) /\ g \in Nodes(tr)
      /\ None \notin Keys /\ n # None /\ p # None /\ g # None
      /\ n # p /\ n # g /\ p # g /\ n # tr.root /\ p # tr.root
      /\ tr.color[g] = "black" /\ Grandparent(tr, n) = g
      /\ Side(tr, n) \in Sides /\ tr[Side(tr, n)][p] = n
      /\ s \in Sides /\ tr[s][g] = p /\ tr[Opposite(s)][g] = Uncle(tr, n)
  BY <1>0, Grand
<1>2. Side(tr, n) = Opposite(s) /\ tr[Opposite(s)][p] = n /\ Opposite(s) \in Sides
      /\ Opposite(Opposite(s)) = s
  BY <1>1, Opposites
<1>3. tr.color[n] = "red" /\ tr.parent[n] = p /\ tr.parent[p] = g /\ tr.color[p] = "red" OBVIOUS
<1> HIDE DEF p, g, s
<1> DEFINE w == Weight(tr, None, None)
           inner == tr[s][n]
<1>4. w \in [Keys -> Nat] /\ w[n] = 0 /\ w[p] = 0
  <2>1. /\ w \in [Keys -> Nat]
        /\ \A m \in Keys : w[m] =
             (IF tr.color[m] = "black" /\ m # None THEN 1 ELSE 0) + (IF m = None THEN 1 ELSE 0)
    BY Weighed
  <2> HIDE DEF w
  <2> QED BY <1>1, <1>3, <2>1
<1>5. Moved(tr, p, s, w, w) BY <1>2, <1>4 DEF Moved
<1> HIDE DEF w
<1>6. Same(tr, tr) BY DEF Same
<1>7. /\ Turned(tr, v, p, s) /\ v.color = tr.color
      /\ Shape(v) /\ Nodes(v) = Nodes(tr) /\ Sorted(v, None) /\ Even(v, w)
      /\ \A m \in Keys : v.parent[m] =
           IF m = p THEN n ELSE IF m = n THEN g ELSE IF m = inner THEN p ELSE tr.parent[m]
  <2>1. tr[Opposite(s)][p] # None /\ None \notin {p, tr[Opposite(s)][p]} BY <1>1, <1>2
  <2>2. /\ Turned(tr, v, p, s) /\ v.color = tr.color
        /\ Shape(v) /\ Nodes(v) = Nodes(tr) /\ Sorted(v, None) /\ Even(v, w)
        /\ \A m \in Keys : v.parent[m] =
             IF m = p THEN tr[Opposite(s)][p]
             ELSE IF m = tr[Opposite(s)][p] THEN tr.parent[p]
             ELSE IF m = tr[s][tr[Opposite(s)][p]] THEN p ELSE tr.parent[m]
    BY <1>0, <1>1, <1>4, <1>5, <1>6, <2>1, Turns DEF w
  <2> QED BY <1>2, <1>3, <2>2
<1>8. /\ v.root = tr.root /\ v[s][n] = p /\ v[s][g] = n /\ v[Opposite(s)][g] = tr[Opposite(s)][g]
  <2>1. /\ v.root = IF p = tr.root THEN tr[Opposite(s)][p] ELSE tr.root
        /\ v[s][tr[Opposite(s)][p]] = p
        /\ \A m \in Keys \ {p, tr[Opposite(s)][p]}, x \in Sides :
             v[x][m] = IF tr[x][m] = p THEN tr[Opposite(s)][p] ELSE tr[x][m]
    BY <1>7 DEF Turned
  <2>2. tr[Opposite(s)][g] # p
    <3>1. tr[s][g] # None BY <1>1
    <3> QED BY <1>0, <1>1, <3>1, Child
  <2>3. g \in Keys \ {p, tr[Opposite(s)][p]} BY <1>1, <1>2
  <2> QED BY <1>1, <1>2, <2>1, <2>2, <2>3
<1> HIDE DEF v
<1>9. Even(v, Weight(v, None, None)) BY <1>7 DEF w, Weight
<1>10. Coloured(v, p, None)
  <2>1. v.root \notin {None, p} => v.color[v.root] = "black"
    BY <1>0, <1>1, <1>7, <1>8 DEF Coloured
  <2>2. ASSUME NEW m \in Nodes(v) \ {v.root, p, None}, v.color[m] = "red"
        PROVE  v.color[v.parent[m]] = "black"
    <3>1. m \in Nodes(tr) /\ m \in Keys /\ m # tr.root /\ m # p /\ tr.color[m] = "red"
      BY <1>0, <1>7, <1>8, <2>2, Types
    <3>2. CASE m = n BY <1>1, <1>7, <3>1, <3>2
    <3>3. CASE m # n
      <4>1. tr.parent[m] # None BY <1>0, <3>1, Parent
      <4>2. tr.color[tr.parent[m]] = "black" BY <1>0, <3>1, <3>3, <4>1 DEF Coloured
      <4>3. m # inner
        <5>1. ASSUME m = inner PROVE FALSE
          <6>1. tr[s][n] = m /\ m # None BY <1>1, <3>1, <5>1
          <6>2. tr.parent[m] = n BY <1>0, <1>1, <6>1, Child
          <6> QED BY <1>3, <4>2, <6>2
        <5> QED BY <5>1
      <4> QED BY <1>7, <3>1, <3>3, <4>2, <4>3
    <3> QED BY <3>2, <3>3
  <2> QED BY <2>1, <2>2 DEF Coloured
<1>11. Healthy(v, p, None, None, None) BY <1>7, <1>9, <1>10 DEF Healthy
<1>12. v.parent[p] = n /\ v.parent[n] = g /\ v.color[p] = "red" /\ v.color[n] = "red"
  BY <1>1, <1>3, <1>7
<1>13. Side(v, n) = s /\ Side(v, p) = s
  <2>1. n \in Nodes(v) /\ p \in Nodes(v) /\ n # v.root /\ p # v.root BY <1>1, <1>7, <1>8
  <2>2. \A x \in Sides : v[x][g] = n <=> x = Side(v, n) BY <1>7, <1>12, <2>1, Parent
  <2>3. \A x \in Sides : v[x][n] = p <=> x = Side(v, p) BY <1>7, <1>12, <2>1, Parent
  <2> QED BY <1>1, <1>8, <2>2, <2>3
<1>14. Uncle(v, p) = Uncle(tr, n)
  <2>1. Grandparent(v, p) = g BY <1>1, <1>12 DEF Grandparent
  <2>2. Uncle(v, p) = Sibling(v, n) BY <1>1, <1>12, <2>1 DEF Uncle
  <2>3. Sibling(v, n) = v[Opposite(s)][g] BY <1>1, <1>12, <1>13 DEF Sibling
  <2> QED BY <1>1, <1>8, <2>2, <2>3
<1>15. NodeColor(v, Uncle(v, p)) = "black" BY <1>7, <1>14 DEF NodeColor
<1> QED BY <1>1, <1>7, <1>8, <1>11, <1>12, <1>13, <1>15 DEF v, p, s

LEMMA PutCase5 ==
    ASSUME MapOK, NEW tr, NEW n \in Nodes(tr), Healthy(tr, n, None, None, None),
           tr.color[n] = "red", tr.parent[n] # None, tr.color[tr.parent[n]] = "red",
           NodeColor(tr, Uncle(tr, n)) = "black", Side(tr, n) = Side(tr, tr.parent[n])
    PROVE  LET u == Paint(Paint(tr, tr.parent[n], "black"), Grandparent(tr, n), "red")
               v == IF Side(u, n) = Side(u, u.parent[n])
                      THEN Rotate(u, Grandparent(u, n), Opposite(Side(u, n))) ELSE u
           IN  Healthy(v, None, None, None, None) /\ Nodes(v) = Nodes(tr)
<1> DEFINE p == tr.parent[n]
           g == tr.parent[p]
           s == Side(tr, p)
           o == Opposite(s)
           u == Paint(Paint(tr, p, "black"), g, "red")
           v == Rotate(u, g, o)
<1>0. Shape(tr) /\ TreeType(tr) /\ Coloured(tr, n, None) /\ Sorted(tr, None)
      /\ Even(tr, Weight(tr, None, None))
  BY DEF Healthy, Shape
<1>1. /\ n \in Keys /\ p \in Keys /\ g \in Keys /\ p \in Nodes(tr) /\ g \in Nodes(tr)
      /\ None \notin Keys /\ n # None /\ p # None /\ g # None
      /\ n # p /\ n # g /\ p # g /\ n # tr.root /\ p # tr.root
      /\ tr.color[g] = "black" /\ Grandparent(tr, n) = g
      /\ Side(tr, n) \in Sides /\ tr[Side(tr, n)][p] = n
      /\ s \in Sides /\ tr[s][g] = p /\ tr[o][g] = Uncle(tr, n)
  BY <1>0, Grand
<1>2. Side(tr, n) = s /\ tr[s][p] = n /\ o \in Sides /\ Opposite(o) = s /\ o # s
      /\ \A x \in Sides : x = s \/ x = o
  BY <1>1, Opposites
<1>3. tr.color[n] = "red" /\ tr.parent[n] = p /\ tr.parent[p] = g /\ tr.color[p] = "red" OBVIOUS
<1> HIDE DEF p, g, s, o
<1>4. /\ TreeType(u) /\ Same(tr, u)
      /\ \A m \in Keys : u.color[m] =
           IF m = g THEN "red" ELSE IF m = p THEN "black" ELSE tr.color[m]
  <2> DEFINE v1 == Paint(tr, p, "black")
  <2>1. TreeType(v1) /\ Same(tr, v1) /\ v1.color = [tr.color EXCEPT ![p] = "black"]
    BY <1>0, <1>1, Painted
  <2> HIDE DEF v1
  <2>2. /\ TreeType(Paint(v1, g, "red")) /\ Same(v1, Paint(v1, g, "red"))
        /\ Paint(v1, g, "red").color = [v1.color EXCEPT ![g] = "red"]
    BY <1>1, <2>1, Painted
  <2>3. u = Paint(v1, g, "red") BY DEF v1
  <2>4. tr.color \in [Keys -> {"red", "black"}] BY <1>0 DEF TreeType
  <2>5. Same(tr, u) BY <2>1, <2>2, <2>3 DEF Same
  <2> HIDE DEF u
  <2> QED BY <1>1, <2>1, <2>2, <2>3, <2>4, <2>5
<1> HIDE DEF u
<1> DEFINE w == Weight(tr, None, None)
           y == Weight(u, None, None)
           inner == tr[o][p]
<1>5. w \in [Keys -> Nat] /\ y \in [Keys -> Nat] /\ Moved(tr, g, o, w, y)
  <2>1. /\ w \in [Keys -> Nat] /\ y \in [Keys -> Nat]
        /\ \A m \in Keys : w[m] =
             (IF tr.color[m] = "black" /\ m # None THEN 1 ELSE 0) + (IF m = None THEN 1 ELSE 0)
        /\ \A m \in Keys : y[m] =
             (IF u.color[m] = "black" /\ m # None THEN 1 ELSE 0) + (IF m = None THEN 1 ELSE 0)
    BY Weighed
  <2> HIDE DEF w, y
  <2>2. w[p] = 0 /\ w[g] = 1 BY <1>1, <1>3, <2>1
  <2>3. y[p] = 1 /\ y[g] = 0 BY <1>1, <1>4, <2>1
  <2>4. \A m \in Keys \ {g, p} : y[m] = w[m] BY <1>4, <2>1
  <2>5. tr[Opposite(o)][g] = p BY <1>1, <1>2
  <2> QED BY <2>1, <2>2, <2>3, <2>4, <2>5 DEF Moved
<1> HIDE DEF w, y
<1>6. /\ Turned(tr, v, g, o) /\ v.color = u.color
      /\ Shape(v) /\ Nodes(v) = Nodes(tr) /\ Sorted(v, None) /\ Even(v, y)
      /\ \A m \in Keys : v.parent[m] =
           IF m = g THEN p ELSE IF m = p THEN tr.parent[g] ELSE IF m = inner THEN g ELSE tr.parent[m]
  <2>1. tr[Opposite(o)][g] # None /\ None \notin {g, tr[Opposite(o)][g]} BY <1>1, <1>2
  <2>2. /\ Turned(tr, v, g, o) /\ v.color = u.color
        /\ Shape(v) /\ Nodes(v) = Nodes(tr) /\ Sorted(v, None) /\ Even(v, y)
        /\ \A m \in Keys : v.parent[m] =
             IF m = g THEN tr[Opposite(o)][g]
             ELSE IF m = tr[Opposite(o)][g] THEN tr.parent[g]
             ELSE IF m = tr[o][tr[Opposite(o)][g]] THEN g ELSE tr.parent[m]
    BY <1>0, <1>1, <1>2, <1>4, <1>5, <2>1, Turns DEF w
  <2>3. tr[Opposite(o)][g] = p BY <1>1, <1>2
  <2> QED BY <2>2, <2>3
<1>7. v.root = IF g = tr.root THEN p ELSE tr.root
  <2>1. tr[Opposite(o)][g] = p BY <1>1, <1>2
  <2> QED BY <1>6, <2>1 DEF Turned
<1> HIDE DEF v
<1>8. Even(v, Weight(v, None, None)) BY <1>6 DEF y, Weight
<1>9. Coloured(v, None, None)
  <2>1. v.root # None => v.color[v.root] = "black"
    <3>1. tr.root # None => tr.root \in Keys /\ tr.color[tr.root] = "black"
      BY <1>0, <1>1, Types DEF Coloured, Nil
    <3>2. CASE g = tr.root BY <1>1, <1>4, <1>6, <1>7, <3>2
    <3>3. CASE g # tr.root BY <1>1, <1>4, <1>6, <1>7, <3>1, <3>3
    <3> QED BY <3>2, <3>3
  <2>2. ASSUME NEW m \in Nodes(v) \ {v.root, None}, v.color[m] = "red"
        PROVE  v.color[v.parent[m]] = "black"
    <3>1. m \in Nodes(tr) /\ m \in Keys /\ m # p BY <1>0, <1>1, <1>4, <1>6, <2>2, Types
    <3>2. CASE m = g BY <1>1, <1>4, <1>6, <3>2
    <3>3. CASE m = n
      <4>1. n # inner
        <5>1. ASSUME n = inner PROVE FALSE
          <6>1. tr[s][p] # None /\ tr[s][p] = tr[Opposite(s)][p] BY <1>1, <1>2, <5>1 DEF o
          <6>2. s \in Sides /\ p \in Keys /\ Shape(tr) BY <1>0, <1>1
          <6>3. tr[Opposite(s)][p] # tr[s][p] BY <6>1, <6>2, Child
          <6> QED BY <6>1, <6>3
        <5> QED BY <5>1
      <4>2. v.parent[m] = p BY <1>1, <1>3, <1>6, <3>3, <4>1
      <4> QED BY <1>1, <1>4, <1>6, <4>2
    <3>4. CASE m # g /\ m # n
      <4>1. tr.color[m] = "red" /\ m # tr.root BY <1>4, <1>6, <1>7, <2>2, <3>1, <3>4
      <4>2. tr.parent[m] # None /\ tr.parent[m] \in Keys BY <1>0, <3>1, <4>1, Parent, Types
      <4>3. tr.color[tr.parent[m]] = "black" BY <1>0, <1>1, <3>1, <3>4, <4>1, <4>2 DEF Coloured
      <4>4. m # inner
        <5>1. ASSUME m = inner PROVE FALSE
          <6>1. tr[o][p] = m /\ m # None BY <1>1, <3>1, <5>1
          <6>2. tr.parent[m] = p BY <1>0, <1>1, <1>2, <6>1, Child
          <6> QED BY <1>3, <4>3, <6>2
        <5> QED BY <5>1
      <4>5. tr.parent[m] # g
        <5>1. ASSUME tr.parent[m] = g PROVE FALSE
          <6>1. tr[Side(tr, m)][g] = m /\ Side(tr, m) \in Sides
            BY <1>0, <3>1, <4>1, <5>1, Parent
          <6>2. m = Uncle(tr, n) BY <1>1, <1>2, <3>1, <6>1
          <6> QED BY <1>1, <3>1, <4>1, <6>2 DEF NodeColor
        <5> QED BY <5>1
      <4>6. v.parent[m] = tr.parent[m] BY <1>6, <3>1, <3>4, <4>4
      <4> QED BY <1>4, <1>6, <4>2, <4>3, <4>5, <4>6
    <3> QED BY <3>2, <3>3, <3>4
  <2> QED BY <2>1, <2>2 DEF Coloured
<1>10. Healthy(v, None, None, None, None) BY <1>6, <1>8, <1>9 DEF Healthy
<1>11. /\ Side(u, n) = Side(tr, n) /\ u.parent[n] = p /\ Side(u, p) = Side(tr, p)
       /\ Grandparent(u, n) = g
  BY <1>1, <1>3, <1>4 DEF Same, Side, Grandparent
<1>12. v = IF Side(u, n) = Side(u, u.parent[n])
             THEN Rotate(u, Grandparent(u, n), Opposite(Side(u, n))) ELSE u
  BY <1>2, <1>11 DEF v, o, s
<1>13. u = Paint(Paint(tr, tr.parent[n], "black"), Grandparent(tr, n), "red")
  BY <1>1, <1>3 DEF u
<1> QED BY <1>6, <1>10, <1>12, <1>13

LEMMA PutCase1 ==
    ASSUME MapOK, NEW tr, NEW n \in Nodes(tr), Healthy(tr, n, None, None, None),
           tr.parent[n] = None
    PROVE  /\ Healthy(Paint(tr, n, "black"), None, None, None, None)
           /\ Nodes(Paint(tr, n, "black")) = Nodes(tr)
<1> DEFINE v == Paint(tr, n, "black")
<1>0. Shape(tr) /\ TreeType(tr) /\ Coloured(tr, n, None) /\ Sorted(tr, None)
      /\ Even(tr, Weight(tr, None, None))
  BY DEF Healthy, Shape
<1>1. n \in Keys /\ n # None /\ n = tr.root BY <1>0, Parent, Types
<1>2. /\ TreeType(v) /\ Same(tr, v)
      /\ \A m \in Keys : v.color[m] = IF m = n THEN "black" ELSE tr.color[m]
  <2>1. TreeType(v) /\ Same(tr, v) /\ v.color = [tr.color EXCEPT ![n] = "black"]
    BY <1>0, <1>1, Painted
  <2>2. tr.color \in [Keys -> {"red", "black"}] BY <1>0 DEF TreeType
  <2> HIDE DEF v
  <2> QED BY <2>1, <2>2
<1> HIDE DEF v
<1>3. Shape(v) /\ Nodes(v) = Nodes(tr) BY <1>0, <1>2, SameShape
<1>4. Sorted(v, None) BY <1>0, <1>2, SameInv
<1>5. Even(v, Weight(v, None, None))
  <2> DEFINE w == Weight(tr, None, None)
             y == Weight(v, None, None)
  <2>1. w \in [Keys -> Nat] /\ y \in [Keys -> Nat] BY Weighed
  <2>2. \A m \in Keys \ {tr.root} : y[m] = w[m] BY <1>1, <1>2, Weighed
  <2> HIDE DEF w, y
  <2>3. Even(tr, y) BY <1>0, <1>1, <2>1, <2>2, RootEven DEF w
  <2> QED BY <1>0, <1>2, <2>3, SameInv DEF y
<1>6. Coloured(v, None, None)
  <2>1. v.root = tr.root /\ v.parent = tr.parent BY <1>2 DEF Same
  <2>2. ASSUME NEW m \in Nodes(v) \ {v.root, None}, v.color[m] = "red"
        PROVE  v.color[v.parent[m]] = "black"
    <3>1. m \in Nodes(tr) /\ m \in Keys /\ m # n /\ m # tr.root /\ tr.color[m] = "red"
      BY <1>0, <1>1, <1>2, <1>3, <2>1, <2>2, Types
    <3>2. tr.parent[m] # None /\ tr.parent[m] \in Keys BY <1>0, <3>1, Parent, Types
    <3>3. tr.color[tr.parent[m]] = "black" BY <1>0, <3>1, <3>2, Types DEF Coloured
    <3> QED BY <1>2, <2>1, <3>2, <3>3
  <2> QED BY <1>1, <1>2, <2>1, <2>2 DEF Coloured
<1> QED BY <1>3, <1>4, <1>5, <1>6 DEF Healthy, v

LEMMA PutCase2 ==
    ASSUME MapOK, NEW tr, NEW n \in Nodes(tr), Healthy(tr, n, None, None, None),
           tr.parent[n] # None, tr.color[tr.parent[n]] = "black"
    PROVE  Healthy(tr, None, None, None, None)
<1>1. Shape(tr) /\ Coloured(tr, n, None) BY DEF Healthy
<1>2. n # tr.root BY <1>1, Parent
<1>3. Coloured(tr, None, None) BY <1>1, <1>2, Types DEF Coloured, Shape
<1> QED BY <1>3 DEF Healthy

LEMMA NoNodes ==
    ASSUME MapOK, NEW tr, Shape(tr), tr.root = None
    PROVE  /\ Nodes(tr) = {}
           /\ \A n \in Keys : tr.parent[n] = None /\ \A s \in Sides : tr[s][n] = None
<1>1. None \notin Nodes(tr) BY Types DEF Shape
<1>2. \A n \in Nodes(tr) : tr.parent[n] \in Nodes(tr) BY <1>1, Parent
<1>3. Nodes(tr) = {} BY <1>1, <1>2 DEF Shape, Hang
<1>4. ASSUME NEW n \in Keys PROVE tr.parent[n] = None /\ \A s \in Sides : tr[s][n] = None
  BY <1>3, Child, Types DEF Shape
<1> QED BY <1>3, <1>4

\* The first node of a tree.
LEMMA PutFirst ==
    ASSUME MapOK, NEW tr, Healthy(tr, None, None, None, None), tr.root = None, NEW n \in Keys
    PROVE  LET v == [tr EXCEPT !.root = n, !.color[n] = "red"] IN
           /\ Healthy(v, n, None, None, None) /\ Nodes(v) = {n} /\ v.color[n] = "red"
           /\ Nodes(tr) = {}
<1> DEFINE v == [tr EXCEPT !.root = n, !.color[n] = "red"]
<1>0. Shape(tr) /\ TreeType(tr) BY DEF Healthy, Shape
<1>1. /\ Nodes(tr) = {} /\ n # None
      /\ \A m \in Keys : tr.parent[m] = None /\ \A s \in Sides : tr[s][m] = None
  BY <1>0, NoNodes, Types
<1>2. /\ TreeType(v) /\ v.root = n /\ v.left = tr.left /\ v.right = tr.right
      /\ v.parent = tr.parent /\ v.color = [tr.color EXCEPT ![n] = "red"]
  BY <1>0 DEF TreeType, Nil
<1> HIDE DEF v
<1>3. \A m \in Keys : v.parent[m] = None /\ \A s \in Sides : v[s][m] = None
  <2>1. ASSUME NEW m \in Keys, NEW s \in Sides PROVE v[s][m] = None
    <3>1. v.left[m] = None /\ v.right[m] = None
      <4>1. tr["left"][m] = None /\ tr["right"][m] = None BY <1>1 DEF Sides
      <4> QED BY <1>2, <4>1
    <3> QED BY <3>1 DEF Sides
  <2> QED BY <1>1, <1>2, <2>1
<1>4. Nodes(v) = {n} BY <1>2, <1>3 DEF Nodes
<1>5. Shape(v)
  <2>1. Agree(v)
    <3>1. \A m \in Keys : v.left[m] = None BY <1>3 DEF Sides
    <3> QED BY <1>2, <1>3, <3>1 DEF Agree
  <2>2. Hang(v) BY <1>2, <1>4 DEF Hang
  <2> QED BY <1>2, <2>1, <2>2 DEF Shape
<1>6. v.color[n] = "red" BY <1>0, <1>2 DEF TreeType
<1>7. Coloured(v, n, None) BY <1>2, <1>4 DEF Coloured
<1>8. Sorted(v, None)
  <2> DEFINE b == [x \in Sides |-> [m \in Keys |-> None]]
  <2>1. b \in Bounds /\ \A x \in Sides, m \in Keys : b[x][m] = None BY DEF Bounds, Nil
  <2> HIDE DEF b
  <2>2. \A m \in Nodes(v) \ {None} : Inside(b, m, m) BY <1>4, <2>1 DEF Inside
  <2>3. Bounded(v, b, None) BY <1>2, <1>3, <2>1, <2>2 DEF Bounded
  <2> QED BY <2>1, <2>3 DEF Sorted
<1>9. Even(v, Weight(v, None, None))
  <2> DEFINE y == Weight(v, None, None)
             bh == [m \in Keys |-> 0]
  <2>1. y[n] = 0 BY <1>1, <1>6, Weighed
  <2> HIDE DEF y
  <2>2. \A m \in Nodes(v) : \A x \in Sides : bh[m] = Height(bh, v[x][m]) + y[m]
    BY <1>3, <1>4, <2>1 DEF Height
  <2>3. bh \in [Keys -> Nat] OBVIOUS
  <2> HIDE DEF bh
  <2>4. Even(v, y) BY <2>2, <2>3 DEF Even, Heights
  <2> QED BY <2>4 DEF y
<1> QED BY <1>1, <1>4, <1>5, <1>6, <1>7, <1>8, <1>9 DEF Healthy, v

\* A new leaf.
Leaf(tr, p, s, n) == [tr EXCEPT ![s][p] = n, !.parent[n] = p, !.color[n] = "red"]

LEMMA PutLeaf ==
    ASSUME MapOK, NEW tr, Healthy(tr, None, None, None, None),
           NEW p \in Nodes(tr), NEW s \in Sides, tr[s][p] = None, NEW n \in Keys \ Nodes(tr),
           NEW b \in Bounds, Bounded(tr, b, None), Inside(b, p, n), Less(s, n, p)
    PROVE  LET v == Leaf(tr, p, s, n) IN
           /\ Healthy(v, n, None, None, None) /\ Nodes(v) = Nodes(tr) \cup {n}
           /\ v.color[n] = "red"
<1> DEFINE v == Leaf(tr, p, s, n)
<1>0. Shape(tr) /\ TreeType(tr) /\ Coloured(tr, None, None) /\ Even(tr, Weight(tr, None, None))
  BY DEF Healthy, Shape
<1>1. p \in Keys /\ p # None /\ n # None /\ n # p /\ None \notin Keys BY <1>0, Types
<1>2. Hung(tr, v, n, p, s) /\ v.color = [tr.color EXCEPT ![n] = "red"]
  <2>1. CASE s = "left" BY <1>0, <1>1, <2>1 DEF TreeType, Hung, Sides, Nil, Leaf
  <2>2. CASE s = "right" BY <1>0, <1>1, <2>2 DEF TreeType, Hung, Sides, Nil, Leaf
  <2> QED BY <2>1, <2>2 DEF Sides
<1> HIDE DEF v
<1>3. \A m \in Keys : v.color[m] = IF m = n THEN "red" ELSE tr.color[m]
  <2>1. tr.color \in [Keys -> {"red", "black"}] BY <1>0 DEF TreeType
  <2> QED BY <1>2, <2>1
<1>4. Shape(v) /\ Nodes(v) = Nodes(tr) \cup {n} BY <1>0, <1>2, HungShape, SMTT(30)
<1>5. Sorted(v, None) BY <1>0, <1>2, HungBounds, SMTT(30)
<1>6. Even(v, Weight(v, None, None))
  <2> DEFINE w == Weight(tr, None, None)
             y == Weight(v, None, None)
  <2>1. /\ w \in [Keys -> Nat] /\ y \in [Keys -> Nat]
        /\ \A m \in Keys : w[m] =
             (IF tr.color[m] = "black" /\ m # None THEN 1 ELSE 0) + (IF m = None THEN 1 ELSE 0)
        /\ \A m \in Keys : y[m] =
             (IF v.color[m] = "black" /\ m # None THEN 1 ELSE 0) + (IF m = None THEN 1 ELSE 0)
    BY Weighed
  <2>2. Even(tr, w) BY <1>0
  <2> HIDE DEF w, y
  <2>3. y[n] = 0 BY <1>1, <1>3, <2>1
  <2>4. \A m \in Keys \ {n} : y[m] = w[m] BY <1>3, <2>1
  <2>5. Even(v, y) BY <1>0, <1>2, <2>1, <2>2, <2>3, <2>4, HungEven, SMTT(30)
  <2> QED BY <2>5 DEF y
<1>7. Coloured(v, n, None)
  <2>1. v.root = tr.root /\ \A m \in Keys \ {n} : v.parent[m] = tr.parent[m] BY <1>2 DEF Hung
  <2>2. v.root \notin {None, n} => v.color[v.root] = "black"
    <3>1. tr.root \in Nil /\ (tr.root # None => tr.color[tr.root] = "black")
      BY <1>0, Types DEF Coloured
    <3> QED BY <1>3, <2>1, <3>1 DEF Nil
  <2>3. ASSUME NEW m \in Nodes(v) \ {v.root, n, None}, v.color[m] = "red"
        PROVE  v.color[v.parent[m]] = "black"
    <3>1. m \in Nodes(tr) /\ m \in Keys /\ m # n /\ m # tr.root /\ tr.color[m] = "red"
      BY <1>0, <1>3, <1>4, <2>1, <2>3, Types
    <3>4. tr.parent[m] \in Nodes(tr) BY <1>0, <3>1, Parent
    <3>2. /\ tr.parent[m] # None /\ tr.parent[m] \in Keys /\ tr.parent[m] # n
      BY <1>0, <3>4, Types
    <3>3. tr.color[tr.parent[m]] = "black" BY <1>0, <1>1, <3>1, <3>2 DEF Coloured
    <3> QED BY <1>3, <2>1, <3>1, <3>2, <3>3
  <2> QED BY <2>2, <2>3 DEF Coloured
<1>8. Healthy(v, n, None, None, None) BY <1>4, <1>5, <1>6, <1>7 DEF Healthy
<1> QED BY <1>3, <1>4, <1>8 DEF v

-----------------------------------------------------------------------------
(* The cases of Remove. *)

LEMMA PaintedTwo ==
    ASSUME MapOK, NEW tr, TreeType(tr), NEW n \in Keys, NEW c \in {"red", "black"},
           NEW m \in Keys, NEW d \in {"red", "black"}
    PROVE  LET v == Paint(Paint(tr, n, c), m, d) IN
           /\ TreeType(v) /\ Same(tr, v)
           /\ \A k \in Keys : v.color[k] = IF k = m THEN d ELSE IF k = n THEN c ELSE tr.color[k]
<1> DEFINE u == Paint(tr, n, c)
<1>1. TreeType(u) /\ Same(tr, u) /\ u.color = [tr.color EXCEPT ![n] = c] BY Painted
<1> HIDE DEF u
<1>2. /\ TreeType(Paint(u, m, d)) /\ Same(u, Paint(u, m, d))
      /\ Paint(u, m, d).color = [u.color EXCEPT ![m] = d]
  BY <1>1, Painted
<1>3. tr.color \in [Keys -> {"red", "black"}] BY DEF TreeType
<1>4. Same(tr, Paint(u, m, d)) BY <1>1, <1>2 DEF Same
<1>5. \A k \in Keys : Paint(u, m, d).color[k] = IF k = m THEN d ELSE IF k = n THEN c ELSE tr.color[k]
  <2>1. Paint(u, m, d).color = [[tr.color EXCEPT ![n] = c] EXCEPT ![m] = d] BY <1>1, <1>2
  <2> QED BY <1>3, <2>1
<1> QED BY <1>2, <1>4, <1>5 DEF u

\* The kin of the node that is short, none of which is on the way.
LEMMA Kin ==
    ASSUME MapOK, NEW tr, NEW way, NEW n, NEW g, NEW c, Deleting(tr, way, n, g, c),
           tr.parent[n] # None
    PROVE  LET p == tr.parent[n]  e == Side(tr, n)  s == Sibling(tr, n) IN
           /\ Shape(tr) /\ TreeType(tr) /\ None \notin Keys
           /\ n \in Keys /\ n # None /\ n # p /\ n # tr.root /\ n \in way /\ g \in way
           /\ g \in Keys /\ g # None /\ way \subseteq Nodes(tr)
           /\ p \in Keys /\ p \in Nodes(tr) /\ p # None /\ p \notin way
           /\ p # tr.root => tr.parent[p] \in Nodes(tr) /\ tr.parent[p] # None
           /\ tr.parent[p] \notin way /\ tr.parent[p] # p
           /\ e \in Sides /\ Opposite(e) \in Sides /\ Opposite(e) # e /\ Opposite(Opposite(e)) = e
           /\ \A x \in Sides : x = e \/ x = Opposite(e)
           /\ tr[e][p] = n /\ tr[Opposite(e)][p] = s
           /\ s \in Keys /\ s \in Nodes(tr) /\ s # None /\ s \notin way /\ tr.parent[s] = p
           /\ s # n /\ s # p /\ s # tr.root
           /\ \A x \in Sides : tr[x][s] # None =>
                /\ tr[x][s] \in Keys /\ tr[x][s] \in Nodes(tr) /\ tr[x][s] \notin way
                /\ tr.parent[tr[x][s]] = s /\ tr[x][s] \notin {n, p, s, tr.root}
<1> DEFINE p == tr.parent[n]
           e == Side(tr, n)
           s == Sibling(tr, n)
<1>1. /\ Shape(tr) /\ TreeType(tr) /\ None \notin Keys /\ Nodes(tr) \subseteq Keys
      /\ n \in Keys /\ n \in Nodes(tr) /\ n # None
  BY Types DEF Deleting, Healthy, Shape, Going
<1>2. /\ way \subseteq Nodes(tr) /\ n \in way /\ g \in way /\ p \notin way
      /\ \A m \in way \ {n} : tr.parent[m] \in way
  BY DEF Deleting, Going, Way
<1>3. g \in Keys /\ g # None BY <1>1, <1>2
<1>4. /\ n # tr.root /\ p \in Nodes(tr) /\ p # n /\ e \in Sides /\ tr[e][p] = n
  BY <1>1, Parent
<1>5. p \in Keys /\ p # None BY <1>1, <1>4
<1>6. s = tr[Opposite(e)][p] BY <1>5 DEF Sibling
<1>7. /\ Opposite(e) \in Sides /\ Opposite(e) # e /\ Opposite(Opposite(e)) = e
      /\ \A x \in Sides : x = e \/ x = Opposite(e)
  BY <1>4, Opposites
<1>20. tr.parent[n] = p OBVIOUS
<1> HIDE DEF p, e, s
<1>8. /\ p # tr.root => tr.parent[p] \in Nodes(tr) /\ tr.parent[p] # None
      /\ tr.parent[p] # p /\ (p = tr.root => tr.parent[p] = None)
  BY <1>1, <1>4, <1>5, Parent
<1>9. tr.parent[p] \notin way
  <2>1. ASSUME tr.parent[p] \in way PROVE FALSE
    <3> DEFINE S == way \cup {p}
    <3>1. p # tr.root BY <1>1, <1>2, <1>8, <2>1
    <3>2. \A m \in way : m # tr.root
      <4>1. ASSUME NEW m \in way PROVE m # tr.root
        <5>1. tr.parent[m] \in Nodes(tr) BY <1>2, <1>4, <1>20
        <5>2. tr.parent[m] # None BY <1>1, <5>1
        <5> QED BY <1>1, <1>2, <5>2, Parent
      <4> QED BY <4>1
    <3>3. S \in SUBSET (Nodes(tr) \ {tr.root}) /\ S # {} BY <1>2, <1>4, <3>1, <3>2
    <3>4. \A m \in S : tr.parent[m] \in S BY <1>2, <1>20, <2>1
    <3> HIDE DEF S
    <3> QED BY <1>1, <3>3, <3>4 DEF Shape, Hang
  <2> QED BY <2>1
<1>10. s # None
  <2> DEFINE w == Weight(tr, g, n)
  <2>1. w \in [Keys -> Nat] /\ w[n] >= 1
    <3>1. /\ w \in [Keys -> Nat]
          /\ \A m \in Keys : w[m] =
               (IF tr.color[m] = "black" /\ m # g THEN 1 ELSE 0) + (IF m = n THEN 1 ELSE 0)
      BY Weighed
    <3> HIDE DEF w
    <3>2. w[n] = (IF tr.color[n] = "black" /\ n # g THEN 1 ELSE 0) + 1 BY <1>1, <3>1
    <3> QED BY <3>1, <3>2
  <2>2. Even(tr, w) BY DEF Deleting, Healthy
  <2> HIDE DEF w
  <2>3. PICK bh \in [Keys -> Nat] : Heights(tr, w, bh) BY <2>2 DEF Even
  <2>4. /\ bh[p] = Height(bh, tr[e][p]) + w[p] /\ bh[p] = Height(bh, s) + w[p]
        /\ bh[n] = Height(bh, tr[e][n]) + w[n]
    BY <1>1, <1>4, <1>6, <1>7, <2>3 DEF Heights
  <2>5. Height(bh, tr[e][p]) = bh[n] /\ bh[n] \in Nat /\ w[n] \in Nat /\ w[p] \in Nat
    BY <1>1, <1>4, <1>5, <2>1 DEF Height
  <2>6. Height(bh, tr[e][n]) \in Nat
    <3>1. tr[e][n] \in Nil BY <1>1, <1>4, Types
    <3> QED BY <3>1 DEF Height, Nil
  <2>7. ASSUME s = None PROVE FALSE
    <3>1. Height(bh, s) = 0 BY <2>7 DEF Height
    <3> QED BY <2>1, <2>4, <2>5, <2>6, <3>1
  <2> QED BY <2>7
<1>11. /\ s \in Keys /\ s \in Nodes(tr) /\ tr.parent[s] = p /\ s # p /\ s # tr.root
       /\ tr.parent[p] # s /\ s # n
  <2>1. tr[Opposite(e)][p] # None BY <1>6, <1>10
  <2>2. /\ tr[Opposite(e)][p] \in Keys /\ tr[Opposite(e)][p] \in Nodes(tr)
        /\ tr.parent[tr[Opposite(e)][p]] = p /\ tr[Opposite(e)][p] # p
        /\ tr[Opposite(e)][p] # tr.root
        /\ tr.parent[p] # tr[Opposite(e)][p]
        /\ tr[Opposite(Opposite(e))][p] # tr[Opposite(e)][p]
    BY <1>1, <1>5, <1>7, <2>1, Child
  <2> QED BY <1>4, <1>6, <1>7, <2>2
<1>12. s \notin way BY <1>2, <1>11
<1>13. ASSUME NEW x \in Sides, tr[x][s] # None
       PROVE  /\ tr[x][s] \in Keys /\ tr[x][s] \in Nodes(tr) /\ tr[x][s] \notin way
              /\ tr.parent[tr[x][s]] = s /\ tr[x][s] \notin {n, p, s, tr.root}
  <2>1. /\ tr[x][s] \in Keys /\ tr[x][s] \in Nodes(tr) /\ tr.parent[tr[x][s]] = s
        /\ tr[x][s] # s /\ tr[x][s] # tr.root /\ tr.parent[s] # tr[x][s]
    BY <1>1, <1>11, <1>13, Child
  <2>2. tr[x][s] # n BY <1>11, <1>20, <2>1
  <2>3. tr[x][s] \notin way BY <1>2, <1>12, <2>1, <2>2
  <2> QED BY <1>11, <2>1, <2>2, <2>3
<1> HIDE <1>20
<1> QED
  BY <1>1, <1>2, <1>3, <1>4, <1>5, <1>6, <1>7, <1>8, <1>9, <1>10, <1>11, <1>12, <1>13, Zenon
  DEF p, e, s

\* The way is not touched where the pointers are the same ...
LEMMA GoingSame ==
    ASSUME MapOK, NEW tr, NEW v, Same(tr, v), NEW way, NEW n, NEW g, NEW c,
           Going(tr, way, n, g, c)
    PROVE  Going(v, way, n, g, c)
  BY DEF Same, Going, Way, Nodes, OnlyChild

\* ... nor by a rotation aside from it.
LEMMA GoingTurned ==
    ASSUME MapOK, NEW tr, Shape(tr), NEW m \in Nodes(tr), NEW s \in Sides,
           tr[Opposite(s)][m] # None, NEW v, Turned(tr, v, m, s),
           NEW way, NEW n, NEW g, NEW c, Going(tr, way, n, g, c),
           m \notin way, tr[Opposite(s)][m] \notin way, tr.parent[m] \notin way,
           tr.parent[n] # tr[Opposite(s)][m]
    PROVE  Going(v, way, n, g, c) /\ \A k \in way : v.parent[k] = tr.parent[k]
<1> DEFINE up == tr[Opposite(s)][m]
           inner == tr[s][up]
<1>1. /\ way \subseteq Nodes(tr) /\ n \in way /\ g \in way /\ n \in Nodes(tr) /\ g \in Nodes(tr)
      /\ \A k \in way \ {n} : tr.parent[k] \in way
      /\ Nodes(tr) \subseteq Keys /\ tr.parent[n] \notin way
  BY Types DEF Going, Way, Shape
<1>2. inner # None => tr.parent[inner] = up /\ inner \in Nodes(tr) BY Turning
<1>3. inner \notin way
  <2>1. ASSUME inner \in way PROVE FALSE
    <3>1. inner # None BY <1>1, <2>1, Types DEF Shape
    <3> QED BY <1>1, <1>2, <2>1, <3>1
  <2> QED BY <2>1
<1>4. /\ \A k \in Keys \ {m, up, inner} : v.parent[k] = tr.parent[k]
      /\ \A k \in Keys \ {m, up}, x \in Sides : v[x][k] = IF tr[x][k] = m THEN up ELSE tr[x][k]
  BY DEF Turned
<1>9. m \notin way /\ up \notin way OBVIOUS
<1> HIDE DEF inner, up
<1>5. \A k \in way : v.parent[k] = tr.parent[k] BY <1>1, <1>3, <1>4, <1>9
<1>6. Nodes(v) = Nodes(tr) BY TurnShape
<1>7. ASSUME NEW x \in Sides PROVE v[x][g] = tr[x][g]
  <2>1. ASSUME tr[x][g] = m PROVE FALSE
    <3>1. m # None /\ g \in Keys BY <1>1, Types DEF Shape
    <3>2. tr.parent[m] = g BY <2>1, <3>1, Child
    <3> QED BY <1>1, <3>2
  <2> QED BY <1>1, <1>4, <1>9, <2>1
<1>8. v.left[g] = tr.left[g] /\ v.right[g] = tr.right[g] BY <1>7 DEF Sides
<1> QED BY <1>1, <1>5, <1>6, <1>8 DEF Going, Way, OnlyChild

\* A red sibling is turned up.
LEMMA RemoveCase2 ==
    ASSUME MapOK, NEW tr, NEW way, NEW n, NEW g, NEW c, Deleting(tr, way, n, g, c),
           tr.parent[n] # None, NodeColor(tr, Sibling(tr, n)) = "red"
    PROVE  LET v == Rotate(Paint(Paint(tr, tr.parent[n], "red"), Sibling(tr, n), "black"),
                           tr.parent[n], Side(tr, n))
           IN  /\ Deleting(v, way, n, g, c) /\ Nodes(v) = Nodes(tr) /\ v.parent[n] # None
               /\ NodeColor(v, Sibling(v, n)) = "black"
<1> DEFINE p == tr.parent[n]
           e == Side(tr, n)
           s == Sibling(tr, n)
           o == Opposite(e)
           u == Paint(Paint(tr, p, "red"), s, "black")
           v == Rotate(u, p, e)
           inner == tr[e][s]
<1>1. /\ Shape(tr) /\ TreeType(tr) /\ None \notin Keys
      /\ n \in Keys /\ n # None /\ n # p /\ n # tr.root /\ n \in way /\ g \in way
      /\ g \in Keys /\ g # None /\ way \subseteq Nodes(tr)
      /\ p \in Keys /\ p \in Nodes(tr) /\ p # None /\ p \notin way
      /\ tr.parent[p] \notin way /\ tr.parent[p] # p
      /\ e \in Sides /\ o \in Sides /\ o # e /\ Opposite(o) = e
      /\ \A x \in Sides : x = e \/ x = o
      /\ tr[e][p] = n /\ tr[o][p] = s
      /\ s \in Keys /\ s \in Nodes(tr) /\ s # None /\ s \notin way /\ tr.parent[s] = p
      /\ s # n /\ s # p /\ s # tr.root
      /\ inner # None => /\ inner \in Keys /\ inner \in Nodes(tr) /\ inner \notin way
                         /\ tr.parent[inner] = s /\ inner \notin {n, p, s, tr.root}
  BY Kin
<1>2. /\ Going(tr, way, n, g, c) /\ Coloured(tr, None, g) /\ Even(tr, Weight(tr, g, n))
      /\ Sorted(tr, g) /\ (n = g \/ tr.color[n] = "black")
      /\ n # g /\ c # None => tr.parent[g] = None \/ tr.color[tr.parent[g]] = "black"
  BY DEF Deleting, Healthy
<1>3. tr.parent[n] = p /\ tr.color[s] = "red" BY <1>1 DEF NodeColor
<1> HIDE DEF p, e, s, o
<1>4. tr.color[p] = "black" BY <1>1, <1>2, <1>3 DEF Coloured
<1>5. /\ TreeType(u) /\ Same(tr, u)
      /\ \A k \in Keys : u.color[k] = IF k = s THEN "black" ELSE IF k = p THEN "red" ELSE tr.color[k]
  BY <1>1, PaintedTwo
<1> HIDE DEF u
<1> DEFINE w == Weight(tr, g, n)
           y == Weight(u, g, n)
<1>6. w \in [Keys -> Nat] /\ y \in [Keys -> Nat] /\ Moved(tr, p, e, w, y)
  <2>1. /\ w \in [Keys -> Nat] /\ y \in [Keys -> Nat]
        /\ \A m \in Keys : w[m] =
             (IF tr.color[m] = "black" /\ m # g THEN 1 ELSE 0) + (IF m = n THEN 1 ELSE 0)
        /\ \A m \in Keys : y[m] =
             (IF u.color[m] = "black" /\ m # g THEN 1 ELSE 0) + (IF m = n THEN 1 ELSE 0)
    BY Weighed
  <2> HIDE DEF w, y
  <2>2. w[s] = 0 /\ w[p] = 1 BY <1>1, <1>3, <1>4, <2>1
  <2>3. y[s] = 1 /\ y[p] = 0 BY <1>1, <1>5, <2>1
  <2>4. \A m \in Keys \ {p, s} : y[m] = w[m] BY <1>5, <2>1
  <2>5. tr[Opposite(e)][p] = s BY <1>1 DEF o
  <2> QED BY <2>1, <2>2, <2>3, <2>4, <2>5 DEF Moved
<1> HIDE DEF w, y, inner
<1>7. /\ Turned(tr, v, p, e) /\ v.color = u.color
      /\ Shape(v) /\ Nodes(v) = Nodes(tr) /\ Sorted(v, g) /\ Even(v, y)
      /\ \A m \in Keys : v.parent[m] =
           IF m = p THEN s ELSE IF m = s THEN tr.parent[p] ELSE IF m = inner THEN p ELSE tr.parent[m]
  <2>1. tr[Opposite(e)][p] # None /\ g \notin {p, tr[Opposite(e)][p]} BY <1>1 DEF o
  <2>2. /\ Turned(tr, v, p, e) /\ v.color = u.color
        /\ Shape(v) /\ Nodes(v) = Nodes(tr) /\ Sorted(v, g) /\ Even(v, y)
        /\ \A m \in Keys : v.parent[m] =
             IF m = p THEN tr[Opposite(e)][p]
             ELSE IF m = tr[Opposite(e)][p] THEN tr.parent[p]
             ELSE IF m = tr[e][tr[Opposite(e)][p]] THEN p ELSE tr.parent[m]
    <3>1. Shape(tr) /\ p \in Nodes(tr) /\ e \in Sides BY <1>1
    <3>2. Even(tr, w) BY <1>2 DEF w
    <3> QED BY <1>2, <1>5, <1>6, <2>1, <3>1, <3>2, Turns
  <2> QED BY <1>1, <2>2 DEF o, inner
<1>8. v.root = IF p = tr.root THEN s ELSE tr.root BY <1>1, <1>7 DEF Turned, o
<1>9. v[e][p] = n /\ v[o][p] = inner BY <1>1, <1>7 DEF Turned, o, inner
<1>10. Going(v, way, n, g, c) /\ \A k \in way : v.parent[k] = tr.parent[k]
  <2>1. tr[Opposite(e)][p] # None /\ tr[Opposite(e)][p] \notin way /\ tr.parent[n] # tr[Opposite(e)][p]
    BY <1>1, <1>3 DEF o
  <2>2. Shape(tr) /\ p \in Nodes(tr) /\ e \in Sides /\ p \notin way /\ tr.parent[p] \notin way
    BY <1>1
  <2>3. Turned(tr, v, p, e) BY <1>7
  <2> HIDE DEF v
  <2> QED BY <1>2, <2>1, <2>2, <2>3, GoingTurned
<1> HIDE DEF v
<1>11. Coloured(v, None, g)
  <2>1. v.root \notin {None, g} => v.color[v.root] = "black"
    <3>1. CASE p = tr.root BY <1>1, <1>5, <1>7, <1>8, <3>1
    <3>2. CASE p # tr.root
      <4>1. v.root = tr.root /\ tr.root \in Nil BY <1>1, <1>8, <3>2, Types
      <4>2. tr.root \notin {None, g} => tr.color[tr.root] = "black" BY <1>2 DEF Coloured
      <4> QED BY <1>1, <1>5, <1>7, <3>2, <4>1, <4>2 DEF Nil
    <3> QED BY <3>1, <3>2
  <2>2. ASSUME NEW m \in Nodes(v) \ {v.root, None, g}, v.parent[m] # g, v.color[m] = "red"
        PROVE  v.color[v.parent[m]] = "black"
    <3>1. m \in Nodes(tr) /\ m \in Keys /\ m # s /\ m # g BY <1>1, <1>5, <1>7, <2>2, Types
    <3>2. CASE m = p BY <1>1, <1>5, <1>7, <3>2
    <3>3. CASE m # p
      <4>1. tr.color[m] = "red" /\ m # tr.root BY <1>1, <1>5, <1>7, <1>8, <2>2, <3>1, <3>3
      <4>2. m # n BY <1>2, <3>1, <4>1
      <4>3. tr.parent[m] \in Nodes(tr) BY <1>1, <3>1, <4>1, Parent
      <4>4. tr.parent[m] \in Keys BY <1>1, <4>3, Types
      <4>5. m # inner
        <5>1. ASSUME m = inner PROVE FALSE
          <6>1. tr.parent[m] = s BY <1>1, <3>1, <5>1
          <6> QED BY <1>1, <1>2, <1>3, <3>1, <4>1, <6>1 DEF Coloured
        <5> QED BY <5>1
      <4>6. v.parent[m] = tr.parent[m] BY <1>7, <3>1, <3>3, <4>5
      <4>7. tr.color[tr.parent[m]] = "black" BY <1>1, <1>2, <2>2, <3>1, <4>1, <4>6 DEF Coloured
      <4>8. tr.parent[m] # p
        <5>1. ASSUME tr.parent[m] = p PROVE FALSE
          <6>1. tr[Side(tr, m)][p] = m /\ Side(tr, m) \in Sides BY <1>1, <3>1, <4>1, <5>1, Parent
          <6> QED BY <1>1, <3>1, <4>2, <6>1
        <5> QED BY <5>1
      <4> QED BY <1>5, <1>7, <4>4, <4>6, <4>7, <4>8
    <3> QED BY <3>2, <3>3
  <2> QED BY <2>1, <2>2 DEF Coloured
<1>12. Even(v, Weight(v, g, n)) BY <1>7 DEF y, Weight
<1>13. Healthy(v, None, g, n, g) BY <1>7, <1>11, <1>12 DEF Healthy
<1>14. n = g \/ v.color[n] = "black" BY <1>1, <1>2, <1>5, <1>7
<1>15. n # g /\ c # None => v.parent[g] = None \/ v.color[v.parent[g]] = "black"
  <2>1. ASSUME n # g, c # None PROVE v.parent[g] = None \/ v.color[v.parent[g]] = "black"
    <3>1. v.parent[g] = tr.parent[g] /\ tr.parent[g] \in way
      BY <1>1, <1>2, <1>10, <2>1 DEF Going, Way
    <3>2. tr.parent[g] \in Keys /\ tr.parent[g] # p /\ tr.parent[g] # s BY <1>1, <3>1, Types
    <3> QED BY <1>2, <1>5, <1>7, <2>1, <3>1, <3>2
  <2> QED BY <2>1
<1>16. Deleting(v, way, n, g, c) BY <1>10, <1>13, <1>14, <1>15 DEF Deleting
<1>17. v.parent[n] = p BY <1>1, <1>3, <1>10
<1>18. Sibling(v, n) = inner
  <2>1. n \in Nodes(v) /\ n # v.root BY <1>1, <1>7, <1>8
  <2>3. \A x \in Sides : v[x][v.parent[n]] = n <=> x = Side(v, n) BY <1>7, <2>1, Parent
  <2>2. Side(v, n) = e BY <1>1, <1>9, <1>17, <2>3
  <2> QED BY <1>1, <1>9, <1>17, <2>2 DEF Sibling, o
<1>19. NodeColor(v, inner) = "black"
  <2>1. ASSUME inner # None PROVE v.color[inner] = "black"
    <3>1. inner # g /\ inner # p /\ inner # s BY <1>1, <2>1
    <3>2. tr.color[inner] # "red" BY <1>1, <1>2, <1>3, <2>1, <3>1 DEF Coloured
    <3>3. tr.color[inner] = "black" BY <1>1, <2>1, <3>2, Types
    <3> QED BY <1>1, <1>5, <1>7, <2>1, <3>1, <3>3
  <2> QED BY <2>1 DEF NodeColor
<1> QED BY <1>1, <1>7, <1>16, <1>17, <1>18, <1>19 DEF v, u, p, e, s

\* The root is short of nothing.
LEMMA RemoveCase1 ==
    ASSUME MapOK, NEW tr, NEW way, NEW n, NEW g, NEW c, Deleting(tr, way, n, g, c),
           tr.parent[n] = None
    PROVE  Deleted(tr, g, c)
<1>1. /\ Healthy(tr, None, g, n, g) /\ Going(tr, way, n, g, c)
      /\ n # g /\ c # None => tr.parent[g] = None \/ tr.color[tr.parent[g]] = "black"
  BY DEF Deleting
<1>2. Shape(tr) /\ n \in Nodes(tr) BY <1>1 DEF Healthy, Going
<1>3. n \in Keys /\ n # None /\ n = tr.root BY <1>2, Parent, Types DEF Shape
<1>4. Even(tr, Weight(tr, g, None))
  <2> DEFINE w == Weight(tr, g, n)
             y == Weight(tr, g, None)
  <2>1. /\ w \in [Keys -> Nat] /\ y \in [Keys -> Nat]
        /\ \A m \in Keys : w[m] =
             (IF tr.color[m] = "black" /\ m # g THEN 1 ELSE 0) + (IF m = n THEN 1 ELSE 0)
        /\ \A m \in Keys : y[m] =
             (IF tr.color[m] = "black" /\ m # g THEN 1 ELSE 0) + (IF m = None THEN 1 ELSE 0)
    BY Weighed
  <2>2. Even(tr, w) BY <1>1 DEF Healthy
  <2> HIDE DEF w, y
  <2>3. None \notin Keys BY <1>2, Types DEF Shape
  <2>4. \A m \in Keys \ {tr.root} : y[m] = w[m] BY <1>3, <2>1, <2>3
  <2>5. Even(tr, y) BY <1>2, <1>3, <2>1, <2>2, <2>4, RootEven
  <2> QED BY <2>5 DEF y
<1>5. Healthy(tr, None, g, None, g) BY <1>1, <1>4 DEF Healthy
<1> QED BY <1>1, <1>5 DEF Deleted, Going

\* The sibling loses its black, and the parent is short.
LEMMA RemoveCase3 ==
    ASSUME MapOK, NEW tr, NEW way, NEW n, NEW g, NEW c, Deleting(tr, way, n, g, c),
           tr.parent[n] # None, tr.color[tr.parent[n]] = "black", AllBlack(tr, Sibling(tr, n))
    PROVE  LET v == Paint(tr, Sibling(tr, n), "red") IN
           /\ Deleting(v, way \cup {tr.parent[n]}, tr.parent[n], g, c) /\ Nodes(v) = Nodes(tr)
<1> DEFINE p == tr.parent[n]
           e == Side(tr, n)
           s == Sibling(tr, n)
           o == Opposite(e)
           v == Paint(tr, s, "red")
<1>1. /\ Shape(tr) /\ TreeType(tr) /\ None \notin Keys
      /\ n \in Keys /\ n # None /\ n # p /\ n \in way /\ g \in way
      /\ g \in Keys /\ g # None /\ way \subseteq Nodes(tr)
      /\ p \in Keys /\ p \in Nodes(tr) /\ p # None /\ p \notin way
      /\ tr.parent[p] \notin way /\ tr.parent[p] # p
      /\ e \in Sides /\ o \in Sides /\ \A x \in Sides : x = e \/ x = o
      /\ tr[e][p] = n /\ tr[o][p] = s
      /\ s \in Keys /\ s \in Nodes(tr) /\ s # None /\ s \notin way /\ tr.parent[s] = p
      /\ s # n /\ s # p /\ s # tr.root
  BY Kin
<1>2. /\ Going(tr, way, n, g, c) /\ Coloured(tr, None, g) /\ Even(tr, Weight(tr, g, n))
      /\ Sorted(tr, g)
      /\ n # g /\ c # None => tr.parent[g] = None \/ tr.color[tr.parent[g]] = "black"
  BY DEF Deleting, Healthy
<1>3. /\ tr.parent[n] = p /\ tr.color[p] = "black" /\ tr.color[s] = "black"
      /\ \A x \in Sides : tr[x][s] # None => tr.color[tr[x][s]] = "black"
  BY <1>1 DEF AllBlack, NodeColor, Sides
<1> HIDE DEF p, e, s, o
<1>4. /\ TreeType(v) /\ Same(tr, v)
      /\ \A m \in Keys : v.color[m] = IF m = s THEN "red" ELSE tr.color[m]
  <2>1. TreeType(v) /\ Same(tr, v) /\ v.color = [tr.color EXCEPT ![s] = "red"]
    BY <1>1, Painted
  <2>2. tr.color \in [Keys -> {"red", "black"}] BY <1>1 DEF TreeType
  <2> HIDE DEF v
  <2> QED BY <2>1, <2>2
<1> HIDE DEF v
<1>5. Shape(v) /\ Nodes(v) = Nodes(tr) /\ Sorted(v, g) BY <1>1, <1>2, <1>4, SameShape, SameInv
<1>6. Even(v, Weight(v, g, p))
  <2> DEFINE w == Weight(tr, g, n)
             y == Weight(v, g, p)
  <2>1. /\ w \in [Keys -> Nat] /\ y \in [Keys -> Nat]
        /\ \A m \in Keys : w[m] =
             (IF tr.color[m] = "black" /\ m # g THEN 1 ELSE 0) + (IF m = n THEN 1 ELSE 0)
        /\ \A m \in Keys : y[m] =
             (IF v.color[m] = "black" /\ m # g THEN 1 ELSE 0) + (IF m = p THEN 1 ELSE 0)
    BY Weighed
  <2>2. Even(tr, w) BY <1>2
  <2> HIDE DEF w, y
  <2>3. y[n] = w[n] - 1
    <3>1. v.color[n] = tr.color[n] BY <1>1, <1>4
    <3>2. w[n] = (IF tr.color[n] = "black" /\ n # g THEN 1 ELSE 0) + 1 BY <1>1, <2>1
    <3>3. y[n] = IF tr.color[n] = "black" /\ n # g THEN 1 ELSE 0 BY <1>1, <2>1, <3>1
    <3> QED BY <3>2, <3>3
  <2>4. y[s] = 0 /\ w[s] = 1 BY <1>1, <1>3, <1>4, <2>1
  <2>5. y[p] = 2 /\ w[p] = 1 BY <1>1, <1>3, <1>4, <2>1
  <2>6. \A m \in Keys \ {p, n, s} : y[m] = w[m] BY <1>4, <2>1
  <2>7. tr[e][p] = n /\ tr[Opposite(e)][p] = s BY <1>1 DEF o
  <2>8. Pushed(tr, p, e, w, y, 1) BY <2>3, <2>4, <2>5, <2>6, <2>7 DEF Pushed
  <2>9. tr[e][p] # None /\ tr[Opposite(e)][p] # None BY <1>1, <2>7
  <2>10. Shape(tr) /\ p \in Keys /\ e \in Sides BY <1>1
  <2>11. Even(tr, y) BY <2>1, <2>2, <2>8, <2>9, <2>10, PushEven
  <2> QED BY <1>1, <1>4, <2>11, SameInv DEF y
<1>7. v.root = tr.root /\ v.parent = tr.parent BY <1>4 DEF Same
<1>8. Coloured(v, None, g)
  <2>1. v.root \notin {None, g} => v.color[v.root] = "black"
    <3> SUFFICES ASSUME tr.root \notin {None, g} PROVE v.color[tr.root] = "black" BY <1>7
    <3>1. tr.root \in Keys /\ tr.root # s BY <1>1, Types DEF Nil
    <3>2. tr.color[tr.root] = "black" BY <1>2 DEF Coloured
    <3> QED BY <1>4, <3>1, <3>2
  <2>2. ASSUME NEW m \in Nodes(v) \ {v.root, None, g}, v.parent[m] # g, v.color[m] = "red"
        PROVE  v.color[v.parent[m]] = "black"
    <3>1. m \in Nodes(tr) /\ m \in Keys /\ m # g /\ m # tr.root BY <1>1, <1>5, <1>7, <2>2, Types
    <3>2. CASE m = s BY <1>1, <1>3, <1>4, <1>7, <3>2
    <3>3. CASE m # s
      <4>1. tr.color[m] = "red" BY <1>4, <2>2, <3>1, <3>3
      <4>2. /\ tr.parent[m] \in Nodes(tr) /\ Side(tr, m) \in Sides
            /\ tr[Side(tr, m)][tr.parent[m]] = m
        BY <1>1, <3>1, Parent
      <4>3. tr.parent[m] \in Keys BY <1>1, <4>2, Types
      <4>4. tr.parent[m] # s BY <1>1, <1>3, <3>1, <4>1, <4>2
      <4>5. tr.color[tr.parent[m]] = "black" BY <1>2, <1>1, <1>7, <2>2, <3>1, <4>1 DEF Coloured
      <4> QED BY <1>4, <1>7, <4>3, <4>4, <4>5
    <3> QED BY <3>2, <3>3
  <2> QED BY <2>1, <2>2 DEF Coloured
<1>9. Healthy(v, None, g, p, g) BY <1>5, <1>6, <1>8 DEF Healthy
<1>10. Going(tr, way \cup {p}, p, g, c)
  <2>1. Way(tr, way \cup {p}, p, g) BY <1>1, <1>2, <1>3 DEF Going, Way
  <2> QED BY <1>1, <1>2, <2>1 DEF Going
<1>11. Going(v, way \cup {p}, p, g, c) BY <1>4, <1>10, GoingSame
<1>12. v.color[p] = "black" BY <1>1, <1>3, <1>4
<1>13. c # None => v.parent[g] = None \/ v.color[v.parent[g]] = "black"
  <2>1. CASE n = g BY <1>3, <1>7, <1>12, <2>1
  <2>2. ASSUME n # g, c # None PROVE tr.parent[g] = None \/ v.color[tr.parent[g]] = "black"
    <3>1. tr.parent[g] \in way BY <1>1, <1>2, <2>2 DEF Going, Way
    <3>2. tr.parent[g] \in Keys /\ tr.parent[g] # s BY <1>1, <3>1, Types
    <3> QED BY <1>2, <1>4, <2>2, <3>2
  <2> QED BY <1>7, <2>1, <2>2
<1>14. Deleting(v, way \cup {p}, p, g, c) BY <1>9, <1>11, <1>12, <1>13 DEF Deleting
<1> QED BY <1>5, <1>14 DEF v, p, s

\* The sibling gives its black to the parent.
LEMMA RemoveCase4 ==
    ASSUME MapOK, NEW tr, NEW way, NEW n, NEW g, NEW c, Deleting(tr, way, n, g, c),
           tr.parent[n] # None, tr.color[tr.parent[n]] = "red", AllBlack(tr, Sibling(tr, n))
    PROVE  LET v == Paint(Paint(tr, Sibling(tr, n), "red"), tr.parent[n], "black") IN
           Deleted(v, g, c) /\ Nodes(v) = Nodes(tr)
<1> DEFINE p == tr.parent[n]
           e == Side(tr, n)
           s == Sibling(tr, n)
           o == Opposite(e)
           v == Paint(Paint(tr, s, "red"), p, "black")
<1>1. /\ Shape(tr) /\ TreeType(tr) /\ None \notin Keys
      /\ n \in Keys /\ n # None /\ n # p /\ n \in way /\ g \in way
      /\ g \in Keys /\ g # None /\ way \subseteq Nodes(tr)
      /\ p \in Keys /\ p \in Nodes(tr) /\ p # None /\ p \notin way
      /\ e \in Sides /\ o \in Sides /\ \A x \in Sides : x = e \/ x = o
      /\ tr[e][p] = n /\ tr[o][p] = s
      /\ s \in Keys /\ s \in Nodes(tr) /\ s # None /\ s \notin way /\ tr.parent[s] = p
      /\ s # n /\ s # p /\ s # tr.root
  BY Kin
<1>2. /\ Going(tr, way, n, g, c) /\ Coloured(tr, None, g) /\ Even(tr, Weight(tr, g, n))
      /\ Sorted(tr, g)
      /\ n # g /\ c # None => tr.parent[g] = None \/ tr.color[tr.parent[g]] = "black"
  BY DEF Deleting, Healthy
<1>3. /\ tr.parent[n] = p /\ tr.color[p] = "red" /\ tr.color[s] = "black"
      /\ \A x \in Sides : tr[x][s] # None => tr.color[tr[x][s]] = "black"
  BY <1>1 DEF AllBlack, NodeColor, Sides
<1> HIDE DEF p, e, s, o
<1>4. /\ TreeType(v) /\ Same(tr, v)
      /\ \A m \in Keys : v.color[m] = IF m = p THEN "black" ELSE IF m = s THEN "red" ELSE tr.color[m]
  BY <1>1, PaintedTwo
<1> HIDE DEF v
<1>5. Shape(v) /\ Nodes(v) = Nodes(tr) /\ Sorted(v, g) BY <1>1, <1>2, <1>4, SameShape, SameInv
<1>6. Even(v, Weight(v, g, None))
  <2> DEFINE w == Weight(tr, g, n)
             y == Weight(v, g, None)
  <2>1. /\ w \in [Keys -> Nat] /\ y \in [Keys -> Nat]
        /\ \A m \in Keys : w[m] =
             (IF tr.color[m] = "black" /\ m # g THEN 1 ELSE 0) + (IF m = n THEN 1 ELSE 0)
        /\ \A m \in Keys : y[m] =
             (IF v.color[m] = "black" /\ m # g THEN 1 ELSE 0) + (IF m = None THEN 1 ELSE 0)
    BY Weighed
  <2>2. Even(tr, w) BY <1>2
  <2> HIDE DEF w, y
  <2>3. y[n] = w[n] - 1
    <3>1. v.color[n] = tr.color[n] BY <1>1, <1>4
    <3>2. w[n] = (IF tr.color[n] = "black" /\ n # g THEN 1 ELSE 0) + 1 BY <1>1, <2>1
    <3>3. y[n] = IF tr.color[n] = "black" /\ n # g THEN 1 ELSE 0 BY <1>1, <2>1, <3>1
    <3> QED BY <3>2, <3>3
  <2>4. y[s] = 0 /\ w[s] = 1 BY <1>1, <1>3, <1>4, <2>1
  <2>5. y[p] = 1 /\ w[p] = 0 BY <1>1, <1>3, <1>4, <2>1
  <2>6. \A m \in Keys \ {p, n, s} : y[m] = w[m] BY <1>1, <1>4, <2>1
  <2>7. tr[e][p] = n /\ tr[Opposite(e)][p] = s BY <1>1 DEF o
  <2>8. Pushed(tr, p, e, w, y, 1) BY <2>3, <2>4, <2>5, <2>6, <2>7 DEF Pushed
  <2>9. tr[e][p] # None /\ tr[Opposite(e)][p] # None BY <1>1, <2>7
  <2>10. Shape(tr) /\ p \in Keys /\ e \in Sides BY <1>1
  <2>11. Even(tr, y) BY <2>1, <2>2, <2>8, <2>9, <2>10, PushEven
  <2> QED BY <1>1, <1>4, <2>11, SameInv DEF y
<1>7. v.root = tr.root /\ v.parent = tr.parent /\ v.left = tr.left /\ v.right = tr.right
  BY <1>4 DEF Same
<1>8. Coloured(v, None, g)
  <2>1. v.root \notin {None, g} => v.color[v.root] = "black"
    <3> SUFFICES ASSUME tr.root \notin {None, g} PROVE v.color[tr.root] = "black" BY <1>7
    <3>1. tr.root \in Keys /\ tr.root # s BY <1>1, Types DEF Nil
    <3>2. tr.color[tr.root] = "black" BY <1>2 DEF Coloured
    <3> QED BY <1>4, <3>1, <3>2
  <2>2. ASSUME NEW m \in Nodes(v) \ {v.root, None, g}, v.parent[m] # g, v.color[m] = "red"
        PROVE  v.color[v.parent[m]] = "black"
    <3>1. m \in Nodes(tr) /\ m \in Keys /\ m # g /\ m # tr.root BY <1>1, <1>5, <1>7, <2>2, Types
    <3>2. CASE m = s BY <1>1, <1>3, <1>4, <1>7, <3>2
    <3>3. CASE m # s
      <4>1. tr.color[m] = "red" BY <1>4, <2>2, <3>1, <3>3
      <4>2. /\ tr.parent[m] \in Nodes(tr) /\ Side(tr, m) \in Sides
            /\ tr[Side(tr, m)][tr.parent[m]] = m
        BY <1>1, <3>1, Parent
      <4>3. tr.parent[m] \in Keys BY <1>1, <4>2, Types
      <4>4. tr.parent[m] # s BY <1>1, <1>3, <3>1, <4>1, <4>2
      <4>5. tr.color[tr.parent[m]] = "black" BY <1>2, <1>1, <1>7, <2>2, <3>1, <4>1 DEF Coloured
      <4> QED BY <1>4, <1>7, <4>3, <4>4, <4>5
    <3> QED BY <3>2, <3>3
  <2> QED BY <2>1, <2>2 DEF Coloured
<1>9. Healthy(v, None, g, None, g) BY <1>5, <1>6, <1>8 DEF Healthy
<1>12. v.color[p] = "black" BY <1>1, <1>4
<1>13. c # None => v.parent[g] = None \/ v.color[v.parent[g]] = "black"
  <2>1. CASE n = g BY <1>3, <1>7, <1>12, <2>1
  <2>2. ASSUME n # g, c # None PROVE tr.parent[g] = None \/ v.color[tr.parent[g]] = "black"
    <3>1. tr.parent[g] \in way BY <1>1, <1>2, <2>2 DEF Going, Way
    <3>2. tr.parent[g] \in Keys /\ tr.parent[g] # s BY <1>1, <3>1, Types
    <3> QED BY <1>2, <1>4, <2>2, <3>2
  <2> QED BY <1>7, <2>1, <2>2
<1>14. Deleted(v, g, c)
  BY <1>2, <1>5, <1>7, <1>9, <1>13 DEF Deleted, Going, OnlyChild
<1> QED BY <1>5, <1>14 DEF v, p, s

\* A red nephew on the near side is turned to the far side.
LEMMA RemoveCase5 ==
    ASSUME MapOK, NEW tr, NEW way, NEW n, NEW g, NEW c, Deleting(tr, way, n, g, c),
           tr.parent[n] # None, NodeColor(tr, Sibling(tr, n)) = "black",
           NodeColor(tr, tr[Side(tr, n)][Sibling(tr, n)]) = "red",
           NodeColor(tr, tr[Opposite(Side(tr, n))][Sibling(tr, n)]) = "black"
    PROVE  LET s == Sibling(tr, n)  e == Side(tr, n)
               v == Rotate(Paint(Paint(tr, s, "red"), tr[e][s], "black"), s, Opposite(e))
           IN  /\ Deleting(v, way, n, g, c) /\ Nodes(v) = Nodes(tr) /\ v.parent[n] # None
               /\ NodeColor(v, Sibling(v, n)) = "black"
               /\ NodeColor(v, v[Opposite(Side(v, n))][Sibling(v, n)]) = "red"
<1> DEFINE p == tr.parent[n]
           e == Side(tr, n)
           s == Sibling(tr, n)
           o == Opposite(e)
           a == tr[e][s]
           f == tr[o][s]
           u == Paint(Paint(tr, s, "red"), a, "black")
           v == Rotate(u, s, o)
<1>0. a # None /\ tr.color[a] = "red" BY DEF NodeColor
<1>1. /\ Shape(tr) /\ TreeType(tr) /\ None \notin Keys
      /\ n \in Keys /\ n # None /\ n # p /\ n # tr.root /\ n \in way /\ g \in way
      /\ g \in Keys /\ g # None /\ way \subseteq Nodes(tr)
      /\ p \in Keys /\ p \in Nodes(tr) /\ p # None /\ p \notin way
      /\ e \in Sides /\ o \in Sides /\ o # e /\ Opposite(o) = e
      /\ \A x \in Sides : x = e \/ x = o
      /\ tr[e][p] = n /\ tr[o][p] = s
      /\ s \in Keys /\ s \in Nodes(tr) /\ s # None /\ s \notin way /\ tr.parent[s] = p
      /\ s # n /\ s # p /\ s # tr.root
      /\ a \in Keys /\ a \in Nodes(tr) /\ a \notin way /\ tr.parent[a] = s
      /\ a \notin {n, p, s, tr.root}
  BY <1>0, Kin
<1>2. /\ Going(tr, way, n, g, c) /\ Coloured(tr, None, g) /\ Even(tr, Weight(tr, g, n))
      /\ Sorted(tr, g) /\ (n = g \/ tr.color[n] = "black")
      /\ n # g /\ c # None => tr.parent[g] = None \/ tr.color[tr.parent[g]] = "black"
  BY DEF Deleting, Healthy
<1>3. /\ tr.parent[n] = p /\ tr.color[s] = "black" /\ tr.color[a] = "red"
      /\ tr[e][s] = a /\ tr[o][s] = f /\ (f # None => tr.color[f] = "black")
  BY <1>0, <1>1 DEF NodeColor
<1> HIDE DEF p, e, s, o, a, f
<1>4. f # a
  <2>1. tr[e][s] # None /\ tr[Opposite(e)][s] # tr[e][s] BY <1>0, <1>1, <1>3, Child
  <2> QED BY <1>3, <2>1 DEF o
<1>5. /\ TreeType(u) /\ Same(tr, u)
      /\ \A k \in Keys : u.color[k] = IF k = a THEN "black" ELSE IF k = s THEN "red" ELSE tr.color[k]
  BY <1>1, PaintedTwo
<1> HIDE DEF u
<1> DEFINE w == Weight(tr, g, n)
           y == Weight(u, g, n)
           inner == tr[o][a]
<1>6. w \in [Keys -> Nat] /\ y \in [Keys -> Nat] /\ Moved(tr, s, o, w, y)
  <2>1. /\ w \in [Keys -> Nat] /\ y \in [Keys -> Nat]
        /\ \A m \in Keys : w[m] =
             (IF tr.color[m] = "black" /\ m # g THEN 1 ELSE 0) + (IF m = n THEN 1 ELSE 0)
        /\ \A m \in Keys : y[m] =
             (IF u.color[m] = "black" /\ m # g THEN 1 ELSE 0) + (IF m = n THEN 1 ELSE 0)
    BY Weighed
  <2> HIDE DEF w, y
  <2>2. w[a] = 0 /\ w[s] = 1 BY <1>1, <1>3, <2>1
  <2>3. y[a] = 1 /\ y[s] = 0 BY <1>1, <1>5, <2>1
  <2>4. \A m \in Keys \ {a, s} : y[m] = w[m] BY <1>5, <2>1
  <2>5. tr[Opposite(o)][s] = a BY <1>1, <1>3
  <2> QED BY <2>1, <2>2, <2>3, <2>4, <2>5 DEF Moved
<1> HIDE DEF w, y
<1>7. /\ Turned(tr, v, s, o) /\ v.color = u.color
      /\ Shape(v) /\ Nodes(v) = Nodes(tr) /\ Sorted(v, g) /\ Even(v, y)
      /\ \A m \in Keys : v.parent[m] =
           IF m = s THEN a ELSE IF m = a THEN p ELSE IF m = inner THEN s ELSE tr.parent[m]
  <2>1. tr[Opposite(o)][s] # None /\ g \notin {s, tr[Opposite(o)][s]} BY <1>1, <1>0, <1>3
  <2>2. /\ Turned(tr, v, s, o) /\ v.color = u.color
        /\ Shape(v) /\ Nodes(v) = Nodes(tr) /\ Sorted(v, g) /\ Even(v, y)
        /\ \A m \in Keys : v.parent[m] =
             IF m = s THEN tr[Opposite(o)][s]
             ELSE IF m = tr[Opposite(o)][s] THEN tr.parent[s]
             ELSE IF m = tr[o][tr[Opposite(o)][s]] THEN s ELSE tr.parent[m]
    <3>1. Shape(tr) /\ s \in Nodes(tr) /\ o \in Sides BY <1>1
    <3>2. Even(tr, w) BY <1>2 DEF w
    <3> QED BY <1>2, <1>5, <1>6, <2>1, <3>1, <3>2, Turns
  <2> QED BY <1>1, <1>3, <2>2
<1>8. v.root = tr.root BY <1>1, <1>7 DEF Turned
<1>9. v[e][p] = n /\ v[o][p] = a /\ v[o][a] = s
  <2>1. tr[Opposite(o)][s] = a BY <1>1, <1>3
  <2>2. /\ v[o][a] = s
        /\ \A m \in Keys \ {s, a}, x \in Sides : v[x][m] = IF tr[x][m] = s THEN a ELSE tr[x][m]
    BY <1>7, <2>1 DEF Turned
  <2> QED BY <1>1, <2>2
<1>10. Going(v, way, n, g, c) /\ \A k \in way : v.parent[k] = tr.parent[k]
  <2>1. tr[Opposite(o)][s] # None /\ tr[Opposite(o)][s] \notin way /\ tr.parent[n] # tr[Opposite(o)][s]
    BY <1>0, <1>1, <1>3
  <2>2. Shape(tr) /\ s \in Nodes(tr) /\ o \in Sides /\ s \notin way /\ tr.parent[s] \notin way
    BY <1>1
  <2>3. Turned(tr, v, s, o) BY <1>7
  <2> HIDE DEF v
  <2> QED BY <1>2, <2>1, <2>2, <2>3, GoingTurned
<1>20. inner # None => tr.parent[inner] = a /\ inner \in Nodes(tr) BY <1>1, Child
<1> HIDE DEF v, inner
<1>11. Coloured(v, None, g)
  <2>1. v.root \notin {None, g} => v.color[v.root] = "black"
    <3>1. tr.root \in Nil BY <1>1, Types
    <3>2. tr.root \notin {None, g} => tr.color[tr.root] = "black" BY <1>2 DEF Coloured
    <3> QED BY <1>1, <1>5, <1>7, <1>8, <3>1, <3>2 DEF Nil
  <2>2. ASSUME NEW m \in Nodes(v) \ {v.root, None, g}, v.parent[m] # g, v.color[m] = "red"
        PROVE  v.color[v.parent[m]] = "black"
    <3>1. m \in Nodes(tr) /\ m \in Keys /\ m # a /\ m # g /\ m # tr.root
      BY <1>1, <1>5, <1>7, <1>8, <2>2, Types
    <3>2. CASE m = s BY <1>1, <1>5, <1>7, <3>2
    <3>3. CASE m # s
      <4>1. tr.color[m] = "red" BY <1>5, <1>7, <2>2, <3>1, <3>3
      <4>2. /\ tr.parent[m] \in Nodes(tr) /\ Side(tr, m) \in Sides
            /\ tr[Side(tr, m)][tr.parent[m]] = m
        BY <1>1, <3>1, Parent
      <4>3. tr.parent[m] \in Keys BY <1>1, <4>2, Types
      <4>4. tr.parent[m] # a
        <5>1. tr.parent[m] = a => tr.parent[m] # g BY <1>1
        <5> QED BY <1>2, <1>1, <1>3, <3>1, <4>1, <5>1 DEF Coloured
      <4>5. m # inner BY <1>20, <1>1, <3>1, <4>4
      <4>6. v.parent[m] = tr.parent[m] BY <1>7, <3>1, <3>3, <4>5
      <4>7. tr.color[tr.parent[m]] = "black" BY <1>1, <1>2, <2>2, <3>1, <4>1, <4>6 DEF Coloured
      <4>8. tr.parent[m] # s
        <5>1. ASSUME tr.parent[m] = s PROVE FALSE
          <6>1. m = a \/ m = f BY <1>1, <1>3, <4>2, <5>1
          <6>2. m # None BY <1>1, <3>1
          <6> QED BY <1>3, <3>1, <4>1, <6>1, <6>2
        <5> QED BY <5>1
      <4> QED BY <1>5, <1>7, <4>3, <4>6, <4>7, <4>8
    <3> QED BY <3>2, <3>3
  <2> QED BY <2>1, <2>2 DEF Coloured
<1>12. Even(v, Weight(v, g, n)) BY <1>7 DEF y, Weight
<1>13. Healthy(v, None, g, n, g) BY <1>7, <1>11, <1>12 DEF Healthy
<1>14. n = g \/ v.color[n] = "black" BY <1>1, <1>2, <1>5, <1>7
<1>15. n # g /\ c # None => v.parent[g] = None \/ v.color[v.parent[g]] = "black"
  <2>1. ASSUME n # g, c # None PROVE v.parent[g] = None \/ v.color[v.parent[g]] = "black"
    <3>1. v.parent[g] = tr.parent[g] /\ tr.parent[g] \in way
      BY <1>1, <1>2, <1>10, <2>1 DEF Going, Way
    <3>2. tr.parent[g] \in Keys /\ tr.parent[g] # s BY <1>1, <3>1, Types
    <3> QED BY <1>2, <1>5, <1>7, <2>1, <3>1, <3>2
  <2> QED BY <2>1
<1>16. Deleting(v, way, n, g, c) BY <1>10, <1>13, <1>14, <1>15 DEF Deleting
<1>17. v.parent[n] = p BY <1>1, <1>3, <1>10
<1>18. Side(v, n) = e /\ Sibling(v, n) = a
  <2>1. n \in Nodes(v) /\ n # v.root BY <1>1, <1>7, <1>8
  <2>2. \A x \in Sides : v[x][v.parent[n]] = n <=> x = Side(v, n) BY <1>7, <2>1, Parent
  <2>3. Side(v, n) = e BY <1>1, <1>9, <1>17, <2>2
  <2> QED BY <1>1, <1>9, <1>17, <2>3 DEF Sibling, o
<1>19. NodeColor(v, a) = "black" /\ NodeColor(v, s) = "red" BY <1>0, <1>1, <1>5, <1>7 DEF NodeColor
<1>21. v[Opposite(Side(v, n))][Sibling(v, n)] = s BY <1>9, <1>18 DEF o
<1>22. /\ Deleting(v, way, n, g, c) /\ Nodes(v) = Nodes(tr) /\ v.parent[n] # None
       /\ NodeColor(v, Sibling(v, n)) = "black"
       /\ NodeColor(v, v[Opposite(Side(v, n))][Sibling(v, n)]) = "red"
  BY <1>1, <1>7, <1>16, <1>17, <1>18, <1>19, <1>21
<1> QED BY <1>22 DEF v, u, p, e, s, o, a

\* The parent is turned down under the sibling.
LEMMA RemoveCase6 ==
    ASSUME MapOK, NEW tr, NEW way, NEW n, NEW g, NEW c, Deleting(tr, way, n, g, c),
           tr.parent[n] # None, NodeColor(tr, Sibling(tr, n)) = "black",
           NodeColor(tr, tr[Opposite(Side(tr, n))][Sibling(tr, n)]) = "red",
           NEW u, TreeType(u), Same(tr, u),
           \A k \in Keys : u.color[k] =
              IF k = tr.parent[n] \/ k = tr[Opposite(Side(tr, n))][Sibling(tr, n)] THEN "black"
              ELSE IF k = Sibling(tr, n) THEN tr.color[tr.parent[n]] ELSE tr.color[k]
    PROVE  LET v == Rotate(u, tr.parent[n], Side(tr, n)) IN
           Deleted(v, g, c) /\ Nodes(v) = Nodes(tr)
<1> DEFINE p == tr.parent[n]
           e == Side(tr, n)
           s == Sibling(tr, n)
           o == Opposite(e)
           f == tr[o][s]
           v == Rotate(u, p, e)
           inner == tr[e][s]
<1>0. f # None /\ tr.color[f] = "red" BY DEF NodeColor
<1>1. /\ Shape(tr) /\ TreeType(tr) /\ None \notin Keys
      /\ n \in Keys /\ n # None /\ n # p /\ n # tr.root /\ n \in way /\ g \in way
      /\ g \in Keys /\ g # None /\ way \subseteq Nodes(tr)
      /\ p \in Keys /\ p \in Nodes(tr) /\ p # None /\ p \notin way
      /\ p # tr.root => tr.parent[p] \in Nodes(tr)
      /\ tr.parent[p] \notin way /\ tr.parent[p] # p
      /\ e \in Sides /\ o \in Sides /\ o # e /\ Opposite(o) = e
      /\ \A x \in Sides : x = e \/ x = o
      /\ tr[e][p] = n /\ tr[o][p] = s
      /\ s \in Keys /\ s \in Nodes(tr) /\ s # None /\ s \notin way /\ tr.parent[s] = p
      /\ s # n /\ s # p /\ s # tr.root
      /\ f \in Keys /\ f \in Nodes(tr) /\ f \notin way /\ tr.parent[f] = s
      /\ f \notin {n, p, s, tr.root}
      /\ inner # None => tr.parent[inner] = s
  BY <1>0, Kin
<1>2. /\ Going(tr, way, n, g, c) /\ Coloured(tr, None, g) /\ Even(tr, Weight(tr, g, n))
      /\ Sorted(tr, g) /\ (n = g \/ tr.color[n] = "black")
      /\ n # g /\ c # None => tr.parent[g] = None \/ tr.color[tr.parent[g]] = "black"
  BY DEF Deleting, Healthy
<1>3. /\ tr.parent[n] = p /\ tr.color[s] = "black" /\ tr.color[f] = "red" /\ tr[o][s] = f
      /\ tr[e][s] = inner
  BY <1>0, <1>1 DEF NodeColor
<1>5. /\ \A k \in Keys : u.color[k] =
           IF k = p \/ k = f THEN "black" ELSE IF k = s THEN tr.color[p] ELSE tr.color[k]
      /\ tr.color[p] \in {"red", "black"}
  BY <1>1, Types
<1> HIDE DEF p, e, s, o, f, inner
<1>4. inner # f
  <2>2. Shape(tr) /\ s \in Keys /\ o \in Sides /\ tr[o][s] # None BY <1>0, <1>1, <1>3
  <2>1. tr[Opposite(o)][s] # tr[o][s] BY <2>2, Child
  <2> QED BY <1>1, <1>3, <2>1
<1> DEFINE w == Weight(tr, g, n)
           x1 == [w EXCEPT ![p] = w[p] + 1, ![n] = w[n] - 1, ![s] = w[s] - 1]
           y1 == [x1 EXCEPT ![s] = x1[p], ![p] = 0]
           y == Weight(u, g, None)
<1>6. /\ \A m \in Keys : w[m] =
           (IF tr.color[m] = "black" /\ m # g THEN 1 ELSE 0) + (IF m = n THEN 1 ELSE 0)
      /\ \A m \in Keys : y[m] =
           (IF u.color[m] = "black" /\ m # g THEN 1 ELSE 0) + (IF m = None THEN 1 ELSE 0)
      /\ w \in [Keys -> Nat] /\ y \in [Keys -> Nat]
  BY Weighed
<1>7. Even(tr, w) BY <1>2
<1> HIDE DEF w, y
<1>8. /\ w[p] \in Nat /\ w[n] \in Nat /\ w[n] >= 1 /\ w[s] = 1 /\ w[f] = 0
      /\ y[s] = w[p] /\ y[p] = 1 /\ y[f] = 1 /\ y[n] = w[n] - 1
  <2>1. p # g /\ s # g /\ f # g BY <1>1
  <2>2. w[p] \in Nat /\ w[n] \in Nat /\ w[s] = 1 /\ w[f] = 0 BY <1>1, <1>3, <1>6, <2>1
  <2>3. y[p] = 1 /\ y[f] = 1 BY <1>1, <1>5, <1>6, <2>1
  <2>4. y[s] = w[p] BY <1>1, <1>5, <1>6, <2>1
  <2>5. y[n] = w[n] - 1 /\ w[n] >= 1
    <3>1. u.color[n] = tr.color[n] BY <1>1, <1>5
    <3>2. w[n] = (IF tr.color[n] = "black" /\ n # g THEN 1 ELSE 0) + 1 BY <1>1, <1>6
    <3>3. y[n] = IF tr.color[n] = "black" /\ n # g THEN 1 ELSE 0 BY <1>1, <1>6, <3>1
    <3> QED BY <3>2, <3>3
  <2> QED BY <2>2, <2>3, <2>4, <2>5
<1>9. x1 \in [Keys -> Nat] /\ Pushed(tr, p, e, w, x1, 1)
  <2>1. x1[p] = w[p] + 1 /\ x1[n] = w[n] - 1 /\ x1[s] = w[s] - 1 BY <1>1, <1>6
  <2>2. \A m \in Keys \ {p, n, s} : x1[m] = w[m] BY <1>6
  <2>3. x1 \in [Keys -> Nat]
    <3>1. w[p] + 1 \in Nat /\ w[n] - 1 \in Nat /\ w[s] - 1 \in Nat BY <1>8
    <3> QED BY <1>6, <3>1
  <2>4. tr[e][p] = n /\ tr[Opposite(e)][p] = s BY <1>1 DEF o
  <2> HIDE DEF x1
  <2> QED BY <2>1, <2>2, <2>3, <2>4 DEF Pushed
<1>10. Even(tr, x1)
  <2>1. tr[e][p] # None /\ tr[Opposite(e)][p] # None BY <1>1 DEF o
  <2>2. Shape(tr) /\ p \in Keys /\ e \in Sides BY <1>1
  <2> HIDE DEF x1
  <2> QED BY <1>6, <1>7, <1>9, <2>1, <2>2, PushEven
<1>11. /\ x1[p] = w[p] + 1 /\ x1[s] = 0 /\ x1[n] = w[n] - 1
       /\ \A m \in Keys \ {p, n, s} : x1[m] = w[m]
  BY <1>1, <1>6, <1>8
<1> HIDE DEF x1
<1>12. /\ y1 \in [Keys -> Nat] /\ Moved(tr, p, e, x1, y1)
       /\ y1[s] = w[p] + 1 /\ y1[p] = 0 /\ \A m \in Keys \ {p, s} : y1[m] = x1[m]
  <2>1. y1[s] = x1[p] /\ y1[p] = 0 /\ \A m \in Keys \ {p, s} : y1[m] = x1[m]
    BY <1>1, <1>9
  <2>2. y1 \in [Keys -> Nat] BY <1>1, <1>9
  <2>3. tr[Opposite(e)][p] = s BY <1>1 DEF o
  <2> HIDE DEF y1
  <2> QED BY <1>11, <2>1, <2>2, <2>3 DEF Moved
<1> HIDE DEF y1
<1>13. /\ Turned(tr, v, p, e) /\ v.color = u.color
       /\ Shape(v) /\ Nodes(v) = Nodes(tr) /\ Sorted(v, g) /\ Even(v, y1)
       /\ \A m \in Keys : v.parent[m] =
            IF m = p THEN s ELSE IF m = s THEN tr.parent[p] ELSE IF m = inner THEN p ELSE tr.parent[m]
  <2>1. tr[Opposite(e)][p] # None /\ g \notin {p, tr[Opposite(e)][p]} BY <1>1 DEF o
  <2>2. /\ Turned(tr, v, p, e) /\ v.color = u.color
        /\ Shape(v) /\ Nodes(v) = Nodes(tr) /\ Sorted(v, g) /\ Even(v, y1)
        /\ \A m \in Keys : v.parent[m] =
             IF m = p THEN tr[Opposite(e)][p]
             ELSE IF m = tr[Opposite(e)][p] THEN tr.parent[p]
             ELSE IF m = tr[e][tr[Opposite(e)][p]] THEN p ELSE tr.parent[m]
    <3>1. Shape(tr) /\ p \in Nodes(tr) /\ e \in Sides BY <1>1
    <3> QED BY <1>2, <1>9, <1>10, <1>12, <2>1, <3>1, Turns
  <2> QED BY <1>1, <1>3, <2>2 DEF o
<1>14. v.root = IF p = tr.root THEN s ELSE tr.root BY <1>1, <1>13 DEF Turned, o
<1>15. v[e][s] = p /\ v[Opposite(e)][s] = f BY <1>0, <1>1, <1>3, <1>13 DEF Turned, o
<1>16. Going(v, way, n, g, c) /\ \A k \in way : v.parent[k] = tr.parent[k]
  <2>1. tr[Opposite(e)][p] # None /\ tr[Opposite(e)][p] \notin way /\ tr.parent[n] # tr[Opposite(e)][p]
    BY <1>1, <1>3 DEF o
  <2>2. Shape(tr) /\ p \in Nodes(tr) /\ e \in Sides /\ p \notin way /\ tr.parent[p] \notin way
    BY <1>1
  <2>3. Turned(tr, v, p, e) BY <1>13
  <2> HIDE DEF v
  <2> QED BY <1>2, <2>1, <2>2, <2>3, GoingTurned
<1> HIDE DEF v
<1>17. Even(v, Weight(v, g, None))
  <2> DEFINE d == 0 - 1
  <2>1. y[s] = y1[s] + d /\ y[p] = y1[p] - d /\ y[f] = y1[f] - d /\ d \in Int
    BY <1>1, <1>8, <1>11, <1>12
  <2>2. \A m \in Keys \ {s, p, f} : y[m] = y1[m]
    <3>1. ASSUME NEW m \in Keys \ {s, p, f} PROVE y[m] = y1[m]
      <4>1. CASE m = n BY <1>1, <1>8, <1>11, <1>12, <3>1, <4>1
      <4>2. CASE m # n
        <5>1. y1[m] = w[m] BY <1>11, <1>12, <3>1, <4>2
        <5>2. u.color[m] = tr.color[m] BY <1>5, <3>1
        <5>3. m # None BY <1>1
        <5> QED BY <1>6, <5>1, <5>2, <5>3, <4>2
      <4> QED BY <4>1, <4>2
    <3> QED BY <3>1
  <2> HIDE DEF d
  <2>3. Pushed(v, s, e, y1, y, d) BY <1>15, <2>1, <2>2 DEF Pushed
  <2>4. v[e][s] # None /\ v[Opposite(e)][s] # None BY <1>0, <1>1, <1>15
  <2>5. Shape(v) /\ s \in Keys /\ e \in Sides BY <1>1, <1>13
  <2>6. Even(v, y1) /\ y1 \in [Keys -> Nat] /\ y \in [Keys -> Nat] BY <1>6, <1>12, <1>13
  <2>7. Even(v, y) BY <2>3, <2>4, <2>5, <2>6, PushEven
  <2> QED BY <1>13, <2>7 DEF y, Weight
<1>18. Coloured(v, None, g)
  <2>1. v.root \notin {None, g} => v.color[v.root] = "black"
    <3>1. CASE p = tr.root
      <4>1. tr.color[p] = "black" BY <1>1, <1>2, <3>1 DEF Coloured
      <4> QED BY <1>1, <1>5, <1>13, <1>14, <3>1, <4>1
    <3>2. CASE p # tr.root
      <4>1. v.root = tr.root /\ tr.root \in Nil BY <1>1, <1>14, <3>2, Types
      <4>2. tr.root \notin {None, g} => tr.color[tr.root] = "black" BY <1>2 DEF Coloured
      <4>3. ASSUME tr.root \notin {None, g} PROVE u.color[tr.root] = "black"
        <5>1. tr.root \in Keys /\ tr.root # s BY <1>1, <4>1, <4>3 DEF Nil
        <5> QED BY <1>5, <4>2, <4>3, <5>1
      <4> QED BY <1>13, <4>1, <4>3
    <3> QED BY <3>1, <3>2
  <2>2. ASSUME NEW m \in Nodes(v) \ {v.root, None, g}, v.parent[m] # g, v.color[m] = "red"
        PROVE  v.color[v.parent[m]] = "black"
    <3>1. m \in Nodes(tr) /\ m \in Keys /\ m # p /\ m # f /\ m # g /\ m # None
      BY <1>1, <1>5, <1>13, <2>2, Types
    <3>2. CASE m = s
      <4>1. v.parent[s] = tr.parent[p] /\ tr.color[p] = "red" /\ p # tr.root
        BY <1>1, <1>5, <1>13, <1>14, <2>2, <3>2
      <4>2. tr.parent[p] # g /\ tr.parent[p] \in Nodes(tr) /\ tr.parent[p] \in Keys
        BY <1>1, <4>1, Types
      <4>3. tr.color[tr.parent[p]] = "black"
        <5>1. p \in Nodes(tr) \ {tr.root, None, g} BY <1>1, <4>1
        <5> QED BY <1>2, <4>1, <4>2, <5>1 DEF Coloured
      <4>4. tr.parent[p] # s BY <1>1, Pair
      <4>5. u.color[tr.parent[p]] = "black" BY <1>5, <4>2, <4>3, <4>4
      <4> QED BY <1>13, <3>2, <4>1, <4>5
    <3>3. CASE m # s
      <4>1. tr.color[m] = "red" BY <1>5, <1>13, <2>2, <3>1, <3>3
      <4>2. m # n BY <1>2, <3>1, <4>1
      <4>3. CASE m = inner BY <1>1, <1>5, <1>13, <3>1, <3>3, <4>3
      <4>4. CASE m # inner
        <5>1. v.parent[m] = tr.parent[m] BY <1>13, <3>1, <3>3, <4>4
        <5>2. m # tr.root
          <6>1. m = tr.root => v.root # tr.root BY <2>2
          <6> QED BY <1>14, <3>1, <6>1
        <5>3. /\ tr.parent[m] \in Nodes(tr) /\ Side(tr, m) \in Sides
              /\ tr[Side(tr, m)][tr.parent[m]] = m
          BY <1>1, <3>1, <5>2, Parent
        <5>4. tr.parent[m] \in Keys BY <1>1, <5>3, Types
        <5>5. tr.color[tr.parent[m]] = "black"
          BY <1>2, <2>2, <3>1, <4>1, <5>1, <5>2 DEF Coloured
        <5>6. tr.parent[m] # s BY <1>1, <1>3, <3>1, <4>4, <5>3
        <5>7. u.color[tr.parent[m]] = "black" BY <1>5, <5>4, <5>5, <5>6
        <5> QED BY <1>13, <5>1, <5>7
      <4> QED BY <4>3, <4>4
    <3> QED BY <3>2, <3>3
  <2> QED BY <2>1, <2>2 DEF Coloured
<1>19. Healthy(v, None, g, None, g) BY <1>13, <1>17, <1>18 DEF Healthy
<1>20. c # None => v.parent[g] = None \/ v.color[v.parent[g]] = "black"
  <2>1. CASE n = g
    <3>1. v.parent[g] = p BY <1>1, <1>3, <1>16, <2>1
    <3> QED BY <1>1, <1>5, <1>13, <3>1
  <2>2. ASSUME n # g, c # None PROVE v.parent[g] = None \/ v.color[v.parent[g]] = "black"
    <3>1. v.parent[g] = tr.parent[g] /\ tr.parent[g] \in way
      BY <1>1, <1>2, <1>16, <2>2 DEF Going, Way
    <3>2. tr.parent[g] \in Keys /\ tr.parent[g] # s BY <1>1, <3>1, Types
    <3> QED BY <1>2, <1>5, <1>13, <2>2, <3>1, <3>2
  <2> QED BY <2>1, <2>2
<1>21. Deleted(v, g, c) BY <1>16, <1>19, <1>20 DEF Deleted, Going
<1> QED BY <1>13, <1>21 DEF v, p, e

\* A black node takes the colour of its child, and is short itself.
LEMMA RemoveBlack ==
    ASSUME MapOK, NEW tr, NEW g \in Nodes(tr), Healthy(tr, None, None, None, g),
           tr.left[g] = None \/ tr.right[g] = None, NEW c, c = OnlyChild(tr, g),
           tr.color[g] = "black"
    PROVE  LET v == Paint(tr, g, NodeColor(tr, c)) IN
           /\ Deleting(v, {g}, g, g, c) /\ Nodes(v) = Nodes(tr)
<1> DEFINE d == NodeColor(tr, c)
           v == Paint(tr, g, d)
<1>1. /\ Shape(tr) /\ TreeType(tr) /\ Coloured(tr, None, None) /\ Sorted(tr, g)
      /\ Even(tr, Weight(tr, None, None))
  BY DEF Healthy, Shape
<1>2. g \in Keys /\ g # None /\ c \in Nil /\ None \notin Keys BY <1>1, Only, Types
<1>3. d \in {"red", "black"} BY <1>1, <1>2, Types DEF NodeColor, Nil
<1> HIDE DEF d
<1>4. TreeType(v) /\ Same(tr, v) /\ v.color = [tr.color EXCEPT ![g] = d]
  BY <1>1, <1>2, <1>3, Painted
<1> HIDE DEF v
<1>5. \A m \in Keys : m # g => v.color[m] = tr.color[m] BY <1>1, <1>4 DEF TreeType
<1>6. Shape(v) /\ Nodes(v) = Nodes(tr) /\ Sorted(v, g) BY <1>1, <1>4, SameShape, SameInv
<1>7. Even(v, Weight(v, g, g))
  <2> DEFINE w == Weight(tr, None, None)
             y == Weight(v, g, g)
  <2>1. /\ \A m \in Keys : w[m] =
             (IF tr.color[m] = "black" /\ m # None THEN 1 ELSE 0) + (IF m = None THEN 1 ELSE 0)
        /\ \A m \in Keys : y[m] =
             (IF v.color[m] = "black" /\ m # g THEN 1 ELSE 0) + (IF m = g THEN 1 ELSE 0)
        /\ w \in [Keys -> Nat] /\ y \in [Keys -> Nat]
    BY Weighed
  <2>2. Even(tr, w) BY <1>1
  <2> HIDE DEF w, y
  <2>3. \A m \in Keys : y[m] = w[m] BY <1>2, <1>5, <2>1
  <2>4. y = w BY <2>1, <2>3, Equal
  <2> QED BY <1>1, <1>4, <2>2, <2>4, SameInv DEF y
<1>8. Coloured(v, None, g)
  <2>1. tr.root \in Nil /\ Nodes(tr) \subseteq Keys /\ v.root = tr.root /\ v.parent = tr.parent
    BY <1>1, <1>4, Types DEF Same
  <2>2. v.root \notin {None, g} => v.color[v.root] = "black"
    BY <1>1, <1>5, <2>1 DEF Coloured, Nil
  <2>3. ASSUME NEW m \in Nodes(v) \ {v.root, None, g}, v.parent[m] # g, v.color[m] = "red"
        PROVE  v.color[v.parent[m]] = "black"
    <3>1. m \in Nodes(tr) /\ m \in Keys /\ m # tr.root /\ tr.color[m] = "red" /\ m # None
      BY <1>5, <1>6, <2>1, <2>3
    <3>2. tr.parent[m] \in Keys BY <1>1, <2>1, <3>1, Parent
    <3>3. tr.parent[m] # None BY <1>2, <3>2
    <3>4. tr.color[tr.parent[m]] = "black" BY <1>1, <3>1, <3>3 DEF Coloured
    <3> QED BY <1>5, <2>1, <2>3, <3>2, <3>4
  <2> QED BY <2>2, <2>3 DEF Coloured
<1>9. Going(tr, {g}, g, g, c)
  <2>1. tr.parent[g] # g
    <3>1. g = tr.root => tr.parent[g] = None BY <1>1, Parent
    <3> QED BY <1>1, <1>2, <3>1, Parent
  <2> QED BY <2>1 DEF Going, Way
<1>10. Going(v, {g}, g, g, c) BY <1>4, <1>9, GoingSame
<1>11. Deleting(v, {g}, g, g, c) BY <1>6, <1>7, <1>8, <1>10 DEF Deleting, Healthy
<1> QED BY <1>6, <1>11 DEF v, d

\* A red node weighs nothing.
LEMMA RemoveRed ==
    ASSUME MapOK, NEW tr, NEW g \in Nodes(tr), Healthy(tr, None, None, None, g),
           tr.left[g] = None \/ tr.right[g] = None, NEW c, c = OnlyChild(tr, g),
           tr.color[g] # "black"
    PROVE  Deleted(tr, g, c)
<1>1. /\ Shape(tr) /\ TreeType(tr) /\ Coloured(tr, None, None) /\ Sorted(tr, g)
      /\ Even(tr, Weight(tr, None, None))
  BY DEF Healthy, Shape
<1>2. g \in Keys /\ g # None /\ None \notin Keys /\ tr.color[g] = "red"
  <2>1. g \in Keys /\ None \notin Keys BY <1>1, Types
  <2>2. tr.color[g] \in {"red", "black"} BY <1>1, <2>1, Types
  <2> QED BY <2>1, <2>2
<1>3. Even(tr, Weight(tr, g, None))
  <2> DEFINE w == Weight(tr, None, None)
             y == Weight(tr, g, None)
  <2>1. /\ \A m \in Keys : w[m] =
             (IF tr.color[m] = "black" /\ m # None THEN 1 ELSE 0) + (IF m = None THEN 1 ELSE 0)
        /\ \A m \in Keys : y[m] =
             (IF tr.color[m] = "black" /\ m # g THEN 1 ELSE 0) + (IF m = None THEN 1 ELSE 0)
        /\ w \in [Keys -> Nat] /\ y \in [Keys -> Nat]
    BY Weighed
  <2>2. Even(tr, w) BY <1>1
  <2> HIDE DEF w, y
  <2>3. \A m \in Keys : y[m] = w[m] BY <1>2, <2>1
  <2>4. y = w BY <2>1, <2>3, Equal
  <2> QED BY <2>2, <2>4 DEF y
<1>4. tr.parent[g] = None \/ tr.color[tr.parent[g]] = "black"
  <2>1. ASSUME tr.parent[g] # None PROVE tr.color[tr.parent[g]] = "black"
    <3>1. g # tr.root BY <1>1, <2>1, Parent
    <3> QED BY <1>1, <1>2, <2>1, <3>1 DEF Coloured
  <2> QED BY <2>1
<1>5. Coloured(tr, None, g) BY <1>1, <1>2 DEF Coloured, Nodes
<1> QED BY <1>1, <1>3, <1>4, <1>5 DEF Deleted, Healthy

LEMMA RemoveUnlinked ==
    ASSUME MapOK, NEW tr, NEW g, NEW c, Deleted(tr, g, c)
    PROVE  LET v == Unlink(tr, g, c) IN
           Healthy(v, None, None, None, None) /\ Nodes(v) = Nodes(tr) \ {g}
<1> DEFINE v == Unlink(tr, g, c)
<1>1. /\ Shape(tr) /\ TreeType(tr) /\ Coloured(tr, None, g) /\ Even(tr, Weight(tr, g, None))
      /\ Sorted(tr, g) /\ g \in Nodes(tr) /\ c = OnlyChild(tr, g)
      /\ tr.left[g] = None \/ tr.right[g] = None
      /\ c # None => tr.parent[g] = None \/ tr.color[tr.parent[g]] = "black"
  BY DEF Deleted, Healthy, Shape
<1>2. /\ Unlinked(tr, v, g, c)
      /\ \A m \in Keys : v.color[m] =
           IF m = g THEN "red" ELSE IF m = c /\ g = tr.root THEN "black" ELSE tr.color[m]
  BY <1>1, UnlinkTree
<1> HIDE DEF v
<1>3. /\ g \in Keys /\ g # None /\ c \in Nil /\ None \notin Keys /\ tr.root \in Nil
      /\ \A x \in Sides : tr[x][g] # None => tr[x][g] = c
      /\ c # None => c \in Nodes(tr) /\ c \in Keys /\ tr.parent[c] = g /\ c # g
      /\ Nodes(tr) \subseteq Keys
  BY <1>1, Only, Types
<1>4. Shape(v) /\ Nodes(v) = Nodes(tr) \ {g} BY <1>1, <1>2, UnlinkShape
<1>5. Sorted(v, None)
  <2>1. PICK b \in Bounds : Bounded(tr, b, g) BY <1>1 DEF Sorted
  <2>2. Bounded(v, b, None) BY <1>1, <1>2, <2>1, UnlinkBounds
  <2> QED BY <2>2 DEF Sorted
<1>6. /\ v.root = IF g = tr.root THEN c ELSE tr.root
      /\ \A m \in Keys \ {g, c} : v.parent[m] = tr.parent[m]
      /\ c # None => v.parent[c] = tr.parent[g]
  BY <1>2 DEF Unlinked
<1>7. Even(v, Weight(v, None, None))
  <2> DEFINE w == Weight(tr, g, None)
             y == Weight(v, None, None)
  <2>1. /\ \A m \in Keys : w[m] =
             (IF tr.color[m] = "black" /\ m # g THEN 1 ELSE 0) + (IF m = None THEN 1 ELSE 0)
        /\ \A m \in Keys : y[m] =
             (IF v.color[m] = "black" /\ m # None THEN 1 ELSE 0) + (IF m = None THEN 1 ELSE 0)
        /\ w \in [Keys -> Nat] /\ y \in [Keys -> Nat]
    BY Weighed
  <2>2. Even(tr, w) BY <1>1
  <2> HIDE DEF w, y
  <2>3. w[g] = 0 BY <1>3, <2>1
  <2>4. Even(v, w) BY <1>1, <1>2, <2>1, <2>2, <2>3, UnlinkEven
  <2>5. \A m \in Keys : (m = c /\ g = tr.root) \/ y[m] = w[m] BY <1>2, <1>3, <2>1
  <2>6. CASE g = tr.root /\ c # None
    <3>1. v.root = c /\ \A m \in Keys \ {v.root} : y[m] = w[m] BY <1>6, <2>5, <2>6
    <3>2. v.root # None BY <2>6, <3>1
    <3>3. Even(v, y) BY <1>4, <2>1, <2>4, <3>1, <3>2, RootEven
    <3> QED BY <3>3 DEF y
  <2>7. CASE ~(g = tr.root /\ c # None)
    <3>1. \A m \in Keys : y[m] = w[m] BY <1>3, <2>5, <2>7
    <3>2. y = w BY <2>1, <3>1, Equal
    <3> QED BY <2>4, <3>2 DEF y
  <2> QED BY <2>6, <2>7
<1>8. Coloured(v, None, None)
  <2>1. v.root # None => v.color[v.root] = "black"
    <3>1. CASE g = tr.root BY <1>2, <1>3, <1>6, <3>1
    <3>2. CASE g # tr.root
      <4>1. tr.root # None => tr.color[tr.root] = "black" BY <1>1, <3>2 DEF Coloured
      <4> QED BY <1>2, <1>3, <1>6, <3>2, <4>1 DEF Nil
    <3> QED BY <3>1, <3>2
  <2>2. ASSUME NEW m \in Nodes(v) \ {v.root, None}, v.color[m] = "red"
        PROVE  v.color[v.parent[m]] = "black"
    <3>1. m \in Nodes(tr) /\ m \in Keys /\ m # g BY <1>3, <1>4, <2>2
    <3>2. m # tr.root
      <4>1. m = tr.root => v.root = m BY <1>6, <3>1
      <4> QED BY <2>2, <4>1
    <3>3. tr.color[m] = "red" /\ ~(m = c /\ g = tr.root) BY <1>2, <2>2, <3>1
    <3>4. CASE m = c
      <4>1. g # tr.root /\ c # None BY <1>3, <3>1, <3>3, <3>4
      <4>2. tr.parent[g] # None /\ tr.parent[g] \in Keys /\ tr.parent[g] # g
        BY <1>1, <1>3, <4>1, Parent
      <4>3. tr.color[tr.parent[g]] = "black" BY <1>1, <4>1, <4>2
      <4> QED BY <1>2, <1>6, <3>4, <4>1, <4>2, <4>3
    <3>5. CASE m # c
      <4>1. v.parent[m] = tr.parent[m] BY <1>6, <3>1, <3>5
      <4>2. /\ tr.parent[m] \in Keys /\ Side(tr, m) \in Sides
            /\ tr[Side(tr, m)][tr.parent[m]] = m
        BY <1>1, <1>3, <3>1, <3>2, Parent
      <4>3. tr.parent[m] # g BY <1>3, <3>1, <3>5, <4>2
      <4>4. tr.color[tr.parent[m]] = "black" BY <1>1, <1>3, <3>1, <3>2, <3>3, <4>3 DEF Coloured
      <4> QED BY <1>2, <4>1, <4>2, <4>3, <4>4
    <3> QED BY <3>4, <3>5
  <2> QED BY <2>1, <2>2 DEF Coloured
<1>9. Healthy(v, None, None, None, None) BY <1>4, <1>5, <1>7, <1>8 DEF Healthy
<1> QED BY <1>4, <1>9 DEF v

\* The predecessor takes the place of a node with two children, which can then
\* be unlinked.
LEMMA RemoveTrade ==
    ASSUME MapOK, NEW tr, Healthy(tr, None, None, None, None),
           NEW b \in Bounds, Bounded(tr, b, None),
           NEW a \in Nodes(tr), NEW d \in Nodes(tr), tr.left[a] # None, tr.left[a] <= d,
           b.right[d] = a, tr.right[d] = None,
           \A n \in Nodes(tr) : b.right[n] = a /\ n < d => tr.right[n] # None /\ tr.right[n] <= d
    PROVE  LET v == Trade(tr, a, d) IN
           /\ Healthy(v, None, None, None, a) /\ Nodes(v) = Nodes(tr) /\ v.right[a] = None
<1> DEFINE v == Trade(tr, a, d)
<1>1. /\ Shape(tr) /\ TreeType(tr) /\ Coloured(tr, None, None)
      /\ Even(tr, Weight(tr, None, None))
  BY DEF Healthy, Shape
<1>2. a \in Keys /\ d \in Keys /\ None \notin Keys BY <1>1, Types
<1>3. Traded(tr, v, a, d) /\ \A m \in Keys : v.color[m] = tr.color[Named(a, d, m)]
  <2>1. /\ TreeType(v) /\ v.root = Named(a, d, tr.root)
        /\ \A m \in Keys, x \in Sides : v[x][m] = Named(a, d, tr[x][Named(a, d, m)])
        /\ \A m \in Keys : v.parent[m] = Named(a, d, tr.parent[Named(a, d, m)])
        /\ \A m \in Keys : v.color[m] = tr.color[Named(a, d, m)]
    BY <1>1, <1>2, Trades
  <2> HIDE DEF v
  <2> QED BY <2>1 DEF Traded
<1> HIDE DEF v
<1>4. Shape(v) /\ Nodes(v) = Nodes(tr) BY <1>1, <1>3, TradeShape
<1>5. Coloured(v, None, None) BY <1>1, <1>3, TradeColoured
<1>6. Sorted(v, a) BY <1>1, <1>3, TradeBounds
<1>7. Even(v, Weight(v, None, None))
  <2> DEFINE w == Weight(tr, None, None)
             y == Weight(v, None, None)
  <2>1. /\ \A m \in Keys : w[m] =
             (IF tr.color[m] = "black" /\ m # None THEN 1 ELSE 0) + (IF m = None THEN 1 ELSE 0)
        /\ \A m \in Keys : y[m] =
             (IF v.color[m] = "black" /\ m # None THEN 1 ELSE 0) + (IF m = None THEN 1 ELSE 0)
        /\ w \in [Keys -> Nat] /\ y \in [Keys -> Nat]
    BY Weighed
  <2>2. Even(tr, w) BY <1>1
  <2> HIDE DEF w, y
  <2>3. \A m \in Keys : y[m] = w[Named(a, d, m)]
    <3>1. ASSUME NEW m \in Keys PROVE y[m] = w[Named(a, d, m)]
      <4>1. Named(a, d, m) \in Keys BY <1>2, Names
      <4>2. v.color[m] = tr.color[Named(a, d, m)] BY <1>3
      <4>3. m # None /\ Named(a, d, m) # None BY <1>2, <4>1
      <4> QED BY <2>1, <4>1, <4>2, <4>3
    <3> QED BY <3>1
  <2>4. Even(v, y) BY <1>1, <1>3, <2>1, <2>2, <2>3, TradeEven
  <2> QED BY <2>4 DEF y
<1>8. v.right[a] = None
  <2>1. Named(a, d, a) = d /\ Named(a, d, None) = None BY <1>2 DEF Named
  <2>2. "right" \in Sides BY DEF Sides
  <2>3. v["right"][a] = Named(a, d, tr["right"][Named(a, d, a)]) BY <1>2, <1>3, <2>2 DEF Traded
  <2> QED BY <2>1, <2>3
<1>9. Healthy(v, None, None, None, a) BY <1>4, <1>5, <1>6, <1>7 DEF Healthy
<1> QED BY <1>4, <1>8, <1>9 DEF v

-----------------------------------------------------------------------------
(* Searches. *)

\* Where a search for k turns to at a node.
Toward(k, n) == IF k < n THEN "left" ELSE "right"

LEMMA Towards ==
    ASSUME MapOK, NEW k \in Keys, NEW n \in Keys, k # n
    PROVE  Toward(k, n) \in Sides /\ Less(Toward(k, n), k, n) /\ Less(Opposite(Toward(k, n)), n, k)
  BY DEF MapOK, Toward, Less, Sides, Opposite

\* A key that belongs below a child belongs below its parent, on that side.
LEMMA InsideUp ==
    ASSUME MapOK, NEW tr, Shape(tr), NEW b \in Bounds, Bounded(tr, b, None),
           NEW n \in Keys, NEW x \in Sides, tr[x][n] # None,
           NEW k \in Keys, Inside(b, tr[x][n], k)
    PROVE  Inside(b, n, k) /\ n # k /\ Toward(k, n) = x
<1>1. n \in Nodes(tr) /\ tr[x][n] \in Keys /\ None \notin Keys BY Child, Types DEF Shape
<1>2. /\ Opposite(x) \in Sides /\ Opposite(x) # x /\ Opposite(Opposite(x)) = x
      /\ \A y \in Sides : y = x \/ y = Opposite(x)
  BY Opposites
<1>3. n # None BY <1>1
<1>4. b[x][tr[x][n]] = b[x][n] /\ b[Opposite(x)][tr[x][n]] = n BY <1>3, ChildBounds
<1>5. Less(Opposite(x), n, k) BY <1>2, <1>3, <1>4 DEF Inside
<1>6. Inside(b, n, n) BY <1>1, <1>3 DEF Bounded
<1>7. b[x][n] = None \/ Less(x, b[x][n], k) BY <1>4 DEF Inside
<1>8. b[Opposite(x)][n] = None \/ Less(Opposite(x), b[Opposite(x)][n], k)
  <2>1. ASSUME b[Opposite(x)][n] # None PROVE Less(Opposite(x), b[Opposite(x)][n], k)
    <3>1. Less(Opposite(x), b[Opposite(x)][n], n) BY <1>2, <1>6, <2>1 DEF Inside
    <3>2. b[Opposite(x)][n] \in Keys BY <1>2, <2>1 DEF Bounds, Nil
    <3> QED BY <1>2, <1>5, <3>1, <3>2, Sided
  <2> QED BY <2>1
<1>9. Inside(b, n, k) BY <1>2, <1>7, <1>8 DEF Inside
<1>10. n # k /\ Toward(k, n) = x
  <2>1. n \in Int /\ k \in Int BY DEF MapOK
  <2>2. CASE x = "left" BY <1>5, <2>1, <2>2 DEF Less, Opposite, Toward
  <2>3. CASE x = "right" BY <1>5, <2>1, <2>3 DEF Less, Opposite, Toward
  <2> QED BY <2>2, <2>3 DEF Sides
<1> QED BY <1>9, <1>10

\* A search that ends has met the key if it is in the tree.
LEMMA Unmet ==
    ASSUME MapOK, NEW tr, Shape(tr), NEW b \in Bounds, Bounded(tr, b, None),
           NEW k \in Keys, NEW at1 \in Nodes(tr), k # at1, tr[Toward(k, at1)][at1] = None,
           NEW path, k \notin path, tr.root \in path \cup {at1},
           \A n \in path : tr[Toward(k, n)][n] \in path \cup {at1}
    PROVE  k \notin Nodes(tr)
<1> SUFFICES ASSUME k \in Nodes(tr) PROVE FALSE OBVIOUS
<1>1. Nodes(tr) \subseteq Keys /\ None \notin Keys BY Types DEF Shape
<1> DEFINE S == {m \in Nodes(tr) : m \notin path \cup {at1} /\ Inside(b, m, k)}
<1>2. Inside(b, k, k) BY <1>1 DEF Bounded
<1>3. k \in S BY <1>2
<1>4. S \in SUBSET (Nodes(tr) \ {tr.root}) OBVIOUS
<1>5. PICK n \in S : tr.parent[n] \notin S BY <1>3, <1>4 DEF Shape, Hang
<1> DEFINE p == tr.parent[n]
<1>6. n \in Nodes(tr) /\ n \in Keys /\ n # tr.root /\ n \notin path \cup {at1} /\ Inside(b, n, k)
  BY <1>1
<1>7. p \in Nodes(tr) /\ p \in Keys /\ Side(tr, n) \in Sides /\ tr[Side(tr, n)][p] = n
  BY <1>1, <1>6, Parent
<1>8. p \notin S BY <1>5
<1> HIDE DEF S, p
<1>9. n # None BY <1>1, <1>6
<1>10. Inside(b, p, k) /\ p # k /\ Toward(k, p) = Side(tr, n) BY <1>6, <1>7, <1>9, InsideUp
<1>11. p \in path \cup {at1} BY <1>7, <1>8, <1>10 DEF S
<1>12. CASE p \in path BY <1>6, <1>7, <1>10, <1>12
<1>13. CASE p = at1 BY <1>7, <1>9, <1>10, <1>13
<1> QED BY <1>11, <1>12, <1>13

-----------------------------------------------------------------------------
(* The empty tree. *)

LEMMA NewTree ==
    ASSUME MapOK
    PROVE  Healthy(NewMap, None, None, None, None) /\ Nodes(NewMap) = {}
<1> DEFINE tr == NewMap
<1>1. None \notin Keys BY DEF MapOK
<1>2. TreeType(tr) BY DEF TreeType, NewMap, Nil
<1>3. /\ tr.root = None /\ \A n \in Keys : tr.parent[n] = None
      /\ \A n \in Keys : \A x \in Sides : tr[x][n] = None
  BY DEF NewMap, Sides
<1> HIDE DEF tr
<1>4. Nodes(tr) = {} BY <1>1, <1>3 DEF Nodes
<1>5. tr.left = tr["left"] /\ tr.right = tr["right"] OBVIOUS
<1>6. Agree(tr)
  <2>1. \A n \in Keys : tr.left[n] = None BY <1>3 DEF Sides
  <2> QED BY <1>3, <2>1 DEF Agree
<1>7. Shape(tr) BY <1>2, <1>4, <1>6 DEF Shape, Hang
<1>8. Coloured(tr, None, None) BY <1>3, <1>4 DEF Coloured
<1>9. Even(tr, Weight(tr, None, None))
  <2>1. [n \in Keys |-> 0] \in [Keys -> Nat] OBVIOUS
  <2> QED BY <1>4, <2>1 DEF Even, Heights
<1>10. Sorted(tr, None)
  <2> DEFINE b == [x \in Sides |-> [n \in Keys |-> None]]
  <2>1. b \in Bounds BY DEF Bounds, Nil
  <2>2. Bounded(tr, b, None) BY <1>3, <1>4 DEF Bounded
  <2> QED BY <2>1, <2>2 DEF Sorted
<1> QED BY <1>4, <1>7, <1>8, <1>9, <1>10 DEF Healthy, tr

-----------------------------------------------------------------------------
(* What TreeInv is at each place of a call. *)

LEMMA Places ==
    /\ Inserts \cap (Unlinks \cup Others) = {} /\ Unlinks \cap Others = {}
    /\ Deletes \subseteq Unlinks /\ "unlink1" \in Unlinks /\ "unlink2" \in Unlinks
    /\ "unlink1" \notin Deletes /\ "unlink2" \notin Deletes
    /\ {"idle", "search", "answered", "outermost", "climb", "pred"} = Others
  BY DEF Inserts, Unlinks, Others, Deletes

LEMMA Counted ==
    ASSUME MapOK, NEW tr, Shape(tr)
    PROVE  IsFiniteSet(Nodes(tr)) /\ Cardinality(Nodes(tr)) \in Nat
<1>1. Nodes(tr) \subseteq Keys BY Types DEF Shape
<1> QED BY <1>1, FS_Subset, FS_CardinalityType DEF MapOK

LEMMA AtRest ==
    ASSUME MapOK, Healthy(t', None, None, None, None),
           pc' \in {"idle", "answered", "outermost", "climb"}, victim' = None,
           size' = Cardinality(Nodes(t'))
    PROVE  TreeInv'
<1>1. pc' \in Others /\ pc' \notin Inserts /\ pc' \notin Unlinks /\ pc' \notin Deletes
  BY Places
<1>2. New' = None /\ Gone' = None /\ Short' = None /\ Waived' = None
  BY <1>1, Places DEF New, Gone, Short, Waived
<1>3. pc' # "search" /\ pc' # "pred" /\ pc' # "unlink2" /\ pc' # "insert5" OBVIOUS
<1>4. Ordering' BY <1>2, <1>3 DEF Ordering, Healthy, Sorted
<1>5. Calling' BY <1>1, <1>3 DEF Calling
<1>6. Inserted' BY DEF Inserted, Inserts
<1>7. Removed' BY DEF Removed, Unlinks, Deletes
<1>8. Mended' BY DEF Mended, Deletes
<1>9. Count' BY <1>1, Counted DEF Count, Healthy
<1> QED BY <1>1, <1>2, <1>4, <1>5, <1>6, <1>7, <1>8, <1>9 DEF TreeInv

LEMMA AtInsert ==
    ASSUME MapOK, pc' \in Inserts, Healthy(t', at', None, None, None), Inserted',
           size' = Cardinality(Nodes(t')) - 1
    PROVE  TreeInv'
<1>1. pc' \notin Others /\ pc' \notin Unlinks /\ pc' \notin Deletes BY Places
<1>2. New' = at' /\ Gone' = None /\ Short' = None /\ Waived' = None
  BY <1>1, Places DEF New, Gone, Short, Waived
<1>3. pc' # "search" /\ pc' # "pred" /\ pc' # "unlink2" BY DEF Inserts
<1>4. Ordering' BY <1>2, <1>3 DEF Ordering, Healthy, Sorted
<1>5. Calling' BY <1>1, <1>3, Places DEF Calling
<1>7. Removed' BY <1>1, <1>3, Places DEF Removed
<1>8. Mended' BY <1>1, <1>3, Places DEF Mended, Inserts
<1>9. Count' BY DEF Count
<1> QED BY <1>1, <1>2, <1>4, <1>5, <1>7, <1>8, <1>9 DEF TreeInv

LEMMA AtDelete ==
    ASSUME MapOK, pc' \in Deletes, NEW way, Deleting(t', way, at', victim', child'), Mended',
           size' = Cardinality(Nodes(t'))
    PROVE  TreeInv'
<1>1. pc' \notin Others /\ pc' \notin Inserts /\ pc' \in Unlinks /\ pc' # "unlink1" BY Places
<1>2. New' = None /\ Gone' = victim' /\ Short' = at' /\ Waived' = victim'
  BY <1>1, Places DEF New, Gone, Short, Waived
<1>3. pc' # "search" /\ pc' # "pred" /\ pc' # "unlink2" BY DEF Deletes
<1>4. Ordering' BY <1>2, <1>3 DEF Ordering, Deleting, Healthy, Sorted
<1>5. Calling' BY <1>1, <1>3, Places DEF Calling
<1>6. Inserted' BY <1>1, <1>3, Places DEF Inserted, Inserts
<1>7. Removed' BY <1>1, <1>3, Places DEF Removed, Deleting, Going
<1>9. Count' BY <1>1, Counted DEF Count, Deleting, Healthy
<1>10. way \in SUBSET Nodes(t') /\ Way(t', way, at', victim') BY DEF Deleting, Going, Way
<1> QED BY <1>1, <1>2, <1>4, <1>5, <1>6, <1>7, <1>9, <1>10 DEF TreeInv, Deleting

LEMMA AtUnlink ==
    ASSUME MapOK, pc' = "unlink2", Deleted(t', victim', child'), size' = Cardinality(Nodes(t'))
    PROVE  TreeInv'
<1>1. pc' \notin Others /\ pc' \notin Inserts /\ pc' \in Unlinks /\ pc' # "unlink1" /\ pc' \notin Deletes
  BY Places
<1>2. New' = None /\ Gone' = victim' /\ Short' = None /\ Waived' = victim'
  BY <1>1, Places DEF New, Gone, Short, Waived
<1>4. Ordering' BY <1>2 DEF Ordering, Deleted, Healthy, Sorted
<1>5. Calling' BY <1>1, Places DEF Calling
<1>6. Inserted' BY <1>1 DEF Inserted, Inserts
<1>7. Removed' BY <1>1, Places DEF Removed, Deleted
<1>8. Mended' BY <1>1 DEF Mended, Deletes
<1>9. Count' BY <1>1, Counted DEF Count, Deleted, Healthy
<1> QED BY <1>1, <1>2, <1>4, <1>5, <1>6, <1>7, <1>8, <1>9 DEF TreeInv, Deleted

LEMMA AtColor ==
    ASSUME MapOK, pc' = "unlink1", Healthy(t', None, None, None, victim'), victim' \in Nodes(t'),
           t'.left[victim'] = None \/ t'.right[victim'] = None, size' = Cardinality(Nodes(t'))
    PROVE  TreeInv'
<1>1. pc' \notin Others /\ pc' \notin Inserts /\ pc' \in Unlinks /\ pc' \notin Deletes
  BY Places
<1>2. New' = None /\ Gone' = None /\ Short' = None /\ Waived' = victim'
  BY <1>1, Places DEF New, Gone, Short, Waived
<1>4. Ordering' BY <1>2 DEF Ordering, Healthy, Sorted
<1>5. Calling' BY <1>1, Places DEF Calling
<1>6. Inserted' BY <1>1 DEF Inserted, Inserts
<1>7. Removed' BY <1>1, Places DEF Removed
<1>8. Mended' BY <1>1 DEF Mended, Deletes
<1>9. Count' BY <1>1, Counted DEF Count, Healthy
<1> QED BY <1>1, <1>2, <1>4, <1>5, <1>6, <1>7, <1>8, <1>9 DEF TreeInv

LEMMA AtSearch ==
    ASSUME MapOK, pc' = "search", Healthy(t', None, None, None, None), size' = Cardinality(Nodes(t')),
           victim' = None, arg' \in Keys, at' \in Nodes(t') \cup {None},
           op' = "put" => \E b \in Bounds : Bounded(t', b, None)
                             /\ \E path \in SUBSET Nodes(t') : Search(b, path)'
    PROVE  TreeInv'
<1>1. pc' \in Others /\ pc' \notin Inserts /\ pc' \notin Unlinks /\ pc' \notin Deletes BY Places
<1>2. New' = None /\ Gone' = None /\ Short' = None /\ Waived' = None
  BY <1>1, Places DEF New, Gone, Short, Waived
<1>4. Ordering'
  <2>1. CASE op' = "put" BY <1>2, <2>1 DEF Ordering
  <2>2. CASE op' # "put" BY <1>2, <2>2 DEF Ordering, Healthy, Sorted
  <2> QED BY <2>1, <2>2
<1>5. Calling' BY <1>1 DEF Calling
<1>6. Inserted' BY <1>1 DEF Inserted, Inserts
<1>7. Removed' BY <1>1 DEF Removed, Unlinks, Deletes
<1>8. Mended' BY <1>1 DEF Mended, Deletes
<1>9. Count' BY <1>1, Counted DEF Count, Healthy
<1> QED BY <1>1, <1>2, <1>4, <1>5, <1>6, <1>7, <1>8, <1>9 DEF TreeInv

LEMMA AtPred ==
    ASSUME MapOK, pc' = "pred", Healthy(t', None, None, None, None), size' = Cardinality(Nodes(t')),
           at' \in Nodes(t'), victim' \in Nodes(t'),
           t'.left[victim'] # None, t'.right[victim'] # None,
           NEW b \in Bounds, Bounded(t', b, None), Pred(b)'
    PROVE  TreeInv'
<1>1. pc' \in Others /\ pc' \notin Inserts /\ pc' \notin Unlinks /\ pc' \notin Deletes BY Places
<1>2. New' = None /\ Gone' = None /\ Short' = None /\ Waived' = None
  BY <1>1, Places DEF New, Gone, Short, Waived
<1>4. Ordering' BY <1>2 DEF Ordering
<1>5. Calling' BY <1>1 DEF Calling
<1>6. Inserted' BY <1>1 DEF Inserted, Inserts
<1>7. Removed' BY <1>1 DEF Removed, Unlinks, Deletes
<1>8. Mended' BY <1>1 DEF Mended, Deletes
<1>9. Count' BY <1>1, Counted DEF Count, Healthy
<1> QED BY <1>1, <1>2, <1>4, <1>5, <1>6, <1>7, <1>8, <1>9 DEF TreeInv

\* What holds before a step.
LEMMA Known ==
    ASSUME MapOK, TreeInv
    PROVE  /\ TreeType(t) /\ Shape(t) /\ None \notin Keys
           /\ IsFiniteSet(Nodes(t)) /\ Cardinality(Nodes(t)) \in Nat
           /\ pc \in Others => /\ Healthy(t, None, None, None, None)
                               /\ size = Cardinality(Nodes(t))
                               /\ \E b \in Bounds : Bounded(t, b, None)
           /\ pc \in Inserts => /\ Healthy(t, at, None, None, None) /\ Inserted
                                /\ size = Cardinality(Nodes(t)) - 1
           /\ pc \in Deletes => /\ \E way : Deleting(t, way, at, victim, child)
                                /\ Mended /\ size = Cardinality(Nodes(t))
           /\ pc = "unlink2" => Deleted(t, victim, child) /\ size = Cardinality(Nodes(t))
           /\ pc = "unlink1" => /\ Healthy(t, None, None, None, victim) /\ victim \in Nodes(t)
                                /\ t.left[victim] = None \/ t.right[victim] = None
                                /\ size = Cardinality(Nodes(t))
<1>1. TreeType(t) /\ Shape(t) BY DEF TreeInv, Healthy, Shape
<1>2. None \notin Keys /\ Nodes(t) \subseteq Keys BY <1>1, Types
<1>3. IsFiniteSet(Nodes(t)) /\ Cardinality(Nodes(t)) \in Nat
  BY <1>2, FS_Subset, FS_CardinalityType DEF MapOK
<1>4. ASSUME pc \in Others
      PROVE  /\ Healthy(t, None, None, None, None)
             /\ size = Cardinality(Nodes(t)) /\ \E b \in Bounds : Bounded(t, b, None)
  <2>1. pc \notin Inserts /\ pc \notin Unlinks /\ pc \notin Deletes BY <1>4, Places
  <2>2. New = None /\ Gone = None /\ Short = None /\ Waived = None
    BY <2>1 DEF New, Gone, Short, Waived
  <2>3. size = Cardinality(Nodes(t)) BY <1>3, <2>1 DEF TreeInv, Count
  <2> QED BY <2>2, <2>3 DEF TreeInv, Healthy, Sorted
<1>5. ASSUME pc \in Inserts
      PROVE  /\ Healthy(t, at, None, None, None) /\ Inserted
             /\ size = Cardinality(Nodes(t)) - 1
  <2>1. pc \notin Unlinks /\ pc \notin Deletes BY <1>5, Places
  <2>2. New = at /\ Gone = None /\ Short = None /\ Waived = None
    BY <1>5, <2>1 DEF New, Gone, Short, Waived
  <2> QED BY <1>5, <2>2 DEF TreeInv, Count
<1>6. ASSUME pc \in Unlinks
      PROVE  /\ pc \notin Inserts /\ New = None /\ Waived = victim
             /\ Short = IF pc \in Deletes THEN at ELSE None
             /\ Gone = IF pc = "unlink1" THEN None ELSE victim
             /\ size = Cardinality(Nodes(t))
  <2>1. pc \notin Inserts BY <1>6, Places
  <2>2. size = Cardinality(Nodes(t)) BY <1>3, <2>1 DEF TreeInv, Count
  <2> QED BY <1>6, <2>1, <2>2 DEF New, Gone, Short, Waived
<1>7. ASSUME pc \in Deletes
      PROVE  /\ \E way : Deleting(t, way, at, victim, child)
             /\ Mended /\ size = Cardinality(Nodes(t))
  <2>1. pc \in Unlinks /\ pc # "unlink1" BY <1>7, Places
  <2>2. Healthy(t, None, victim, at, victim) /\ Mended /\ Removed /\ size = Cardinality(Nodes(t))
    BY <1>6, <1>7, <2>1 DEF TreeInv
  <2>3. PICK way \in SUBSET Nodes(t) : Way(t, way, at, victim) BY <1>7 DEF TreeInv
  <2>4. Going(t, way, at, victim, child) BY <1>7, <2>1, <2>2, <2>3 DEF Going, Removed, Mended
  <2>5. at = victim \/ t.color[at] = "black" BY <1>7, <2>2 DEF Mended
  <2>6. at # victim /\ child # None
          => t.parent[victim] = None \/ t.color[t.parent[victim]] = "black"
    BY <1>7, <2>2 DEF Removed
  <2> QED BY <2>2, <2>4, <2>5, <2>6 DEF Deleting
<1>8. ASSUME pc = "unlink2" PROVE Deleted(t, victim, child) /\ size = Cardinality(Nodes(t))
  <2>1. pc \in Unlinks /\ pc # "unlink1" /\ pc \notin Deletes BY <1>8, Places
  <2>2. Healthy(t, None, victim, None, victim) /\ Removed /\ size = Cardinality(Nodes(t))
    BY <1>6, <2>1 DEF TreeInv
  <2> QED BY <1>8, <2>1, <2>2 DEF Deleted, Removed
<1>9. ASSUME pc = "unlink1"
      PROVE  /\ Healthy(t, None, None, None, victim) /\ victim \in Nodes(t)
             /\ t.left[victim] = None \/ t.right[victim] = None
             /\ size = Cardinality(Nodes(t))
  <2>1. pc \in Unlinks /\ pc \notin Deletes BY <1>9, Places
  <2>2. Healthy(t, None, None, None, victim) /\ Removed /\ size = Cardinality(Nodes(t))
    BY <1>6, <1>9, <2>1 DEF TreeInv
  <2> QED BY <1>9, <2>1, <2>2 DEF Removed
<1> QED BY <1>1, <1>2, <1>3, <1>4, <1>5, <1>7, <1>8, <1>9

-----------------------------------------------------------------------------
(* Every step keeps TreeInv. *)

\* The steps that leave the tree as it is and go where nothing is under way.
LEMMA Idles ==
    ASSUME MapOK, TreeInv, pc \in Others, UNCHANGED <<t, size>>,
           pc' \in {"idle", "answered", "outermost", "climb"}, victim' = None
    PROVE  TreeInv'
<1>1. Healthy(t, None, None, None, None) /\ size = Cardinality(Nodes(t)) BY Known
<1>2. Healthy(t', None, None, None, None) /\ size' = Cardinality(Nodes(t')) BY <1>1
<1> QED BY <1>2, AtRest

LEMMA NoVictim ==
    ASSUME TreeInv, pc \in {"idle", "search", "answered", "outermost", "climb"}
    PROVE  pc \in Others /\ victim = None
  BY Places DEF TreeInv, Calling

LEMMA Queries ==
    ASSUME MapOK, TreeInv,
           \/ PutFound \/ GetFound \/ NearestFound \/ Outermost \/ Climb \/ Answered
           \/ RemoveMissed
           \/ \E k \in Keys : \/ \E o \in {"first", "last"} : IteratorEnd(o, k)
                              \/ \E o \in {"next", "prev"} : IteratorStep(o, k)
    PROVE  TreeInv'
<1>1. pc \in {"idle", "search", "answered", "outermost", "climb"}
  BY DEF PutFound, GetFound, NearestFound, Outermost, Climb, Answered, RemoveMissed,
         IteratorEnd, IteratorStep, Searching
<1>2. pc \in Others /\ victim = None BY <1>1, NoVictim
<1>3. /\ UNCHANGED <<t, size>> /\ victim' = None
      /\ pc' \in {"idle", "answered", "outermost", "climb"}
  <2>1. CASE PutFound BY <2>1 DEF PutFound, Return
  <2>2. CASE GetFound BY <1>2, <2>2 DEF GetFound, Found, Goes
  <2>3. CASE NearestFound BY <1>2, <2>3 DEF NearestFound, Found, Goes
  <2>4. CASE Outermost BY <1>2, <2>4 DEF Outermost, Found, Goes, calls
  <2>5. CASE Climb BY <1>2, <2>5 DEF Climb, Found, Goes, calls
  <2>6. CASE Answered BY <2>6 DEF Answered, Return
  <2>7. CASE RemoveMissed BY <2>7 DEF RemoveMissed, Return
  <2>8. ASSUME NEW k \in Keys, NEW o, IteratorEnd(o, k)
        PROVE  /\ UNCHANGED <<t, size>> /\ victim' = None
               /\ pc' \in {"idle", "answered", "outermost", "climb"}
    BY <1>2, <2>8 DEF IteratorEnd, Goes
  <2>9. ASSUME NEW k \in Keys, NEW o, IteratorStep(o, k)
        PROVE  /\ UNCHANGED <<t, size>> /\ victim' = None
               /\ pc' \in {"idle", "answered", "outermost", "climb"}
    BY <1>2, <2>9 DEF IteratorStep, Goes
  <2> QED BY <2>1, <2>2, <2>3, <2>4, <2>5, <2>6, <2>7, <2>8, <2>9
<1> QED BY <1>2, <1>3, Idles

LEMMA Cleared ==
    ASSUME MapOK, TreeInv, Clear
    PROVE  TreeInv'
<1>1. pc \in Others /\ victim = None /\ pc = "idle" BY NoVictim DEF Clear
<1>2. t' = NewMap /\ size' = 0 /\ pc' = "idle" /\ victim' = None BY <1>1 DEF Clear, calls
<1>3. Healthy(t', None, None, None, None) /\ Nodes(t') = {} BY <1>2, NewTree
<1>4. size' = Cardinality(Nodes(t')) BY <1>2, <1>3, FS_EmptySet
<1> QED BY <1>2, <1>3, <1>4, AtRest

\* A search begins at the root.
LEMMA Called ==
    ASSUME MapOK, TreeInv, NEW o, NEW k \in Keys, Call(o, k)
    PROVE  TreeInv'
<1>1. /\ pc = "idle" /\ pc' = "search" /\ op' = o /\ arg' = k /\ at' = t.root
      /\ t' = t /\ size' = size /\ victim' = victim
  BY DEF Call, Goes
<1>2. pc \in Others /\ victim = None BY <1>1, NoVictim
<1>3. /\ Healthy(t, None, None, None, None) /\ size = Cardinality(Nodes(t)) /\ Shape(t)
      /\ TreeType(t)
  BY <1>2, Known
<1>4. PICK b \in Bounds : Bounded(t, b, None) BY <1>2, Known
<1>5. t.root \in Nodes(t) \cup {None} BY <1>3, Types DEF Nil
<1>6. Search(b, {})'
  <2>1. IF t.root = None THEN t.root = None ELSE Inside(b, t.root, k)
    BY <1>4 DEF Bounded, Inside
  <2> QED BY <1>1, <2>1 DEF Search
<1>7. {} \in SUBSET Nodes(t') OBVIOUS
<1>8. Bounded(t', b, None) /\ Healthy(t', None, None, None, None) /\ size' = Cardinality(Nodes(t'))
  BY <1>1, <1>3, <1>4
<1>9. at' \in Nodes(t') \cup {None} /\ arg' \in Keys /\ victim' = None BY <1>1, <1>2, <1>5
<1> QED BY <1>1, <1>4, <1>6, <1>7, <1>8, <1>9, AtSearch

\* The facts of a search.
LEMMA Searched ==
    ASSUME MapOK, TreeInv, pc = "search"
    PROVE  /\ pc \in Others /\ victim = None /\ arg \in Keys /\ at \in Nodes(t) \cup {None}
           /\ Healthy(t, None, None, None, None) /\ size = Cardinality(Nodes(t))
           /\ op = "put" => \E b \in Bounds, path \in SUBSET Nodes(t) :
                               Bounded(t, b, None) /\ Search(b, path)
<1>1. pc \in Others /\ victim = None BY NoVictim
<1>2. Waived = None BY Places, <1>1 DEF Waived
<1>3. arg \in Keys /\ at \in Nodes(t) \cup {None} BY DEF TreeInv, Calling
<1>4. op = "put" => \E b \in Bounds, path \in SUBSET Nodes(t) :
                       Bounded(t, b, None) /\ Search(b, path)
  BY <1>2 DEF TreeInv, Ordering
<1> QED BY <1>1, <1>3, <1>4, Known

\* Where a search goes on, it goes on in the tree.
LEMMA Descend ==
    ASSUME MapOK, Shape(t), at \in Nodes(t)
    PROVE  Turn \in Sides /\ t[Turn][at] \in Nodes(t) \cup {None}
<1>1. Turn \in Sides BY DEF Turn, Sides
<1>2. at \in Keys BY Types DEF Shape
<1> QED BY <1>1, <1>2, Child

LEMMA Lookups ==
    ASSUME MapOK, TreeInv, LookupDescend \/ NearestDescend
    PROVE  TreeInv'
<1>1. /\ pc = "search" /\ op # "put" /\ at # None /\ at' = t[Turn][at] /\ t' = t /\ size' = size
      /\ pc' = "search" /\ op' = op /\ arg' = arg /\ victim' = victim
  <2>1. CASE LookupDescend BY <2>1 DEF LookupDescend, Searching, calls
  <2>2. CASE NearestDescend BY <2>2 DEF NearestDescend, Searching
  <2> QED BY <2>1, <2>2
<1>2. /\ victim = None /\ arg \in Keys /\ at \in Nodes(t)
      /\ Healthy(t, None, None, None, None) /\ size = Cardinality(Nodes(t))
  BY <1>1, Searched
<1>3. at' \in Nodes(t') \cup {None} BY <1>1, <1>2, Descend DEF Healthy
<1>4. /\ Healthy(t', None, None, None, None) /\ size' = Cardinality(Nodes(t'))
      /\ victim' = None /\ arg' \in Keys /\ op' # "put"
  BY <1>1, <1>2
<1> QED BY <1>1, <1>3, <1>4, AtSearch

LEMMA Puts ==
    ASSUME MapOK, TreeInv, PutDescend
    PROVE  TreeInv'
<1>1. /\ pc = "search" /\ op = "put" /\ at # None /\ arg # at /\ t[Turn][at] # None
      /\ at' = t[Turn][at] /\ t' = t /\ size' = size
      /\ pc' = "search" /\ op' = op /\ arg' = arg /\ victim' = victim
  BY DEF PutDescend, Searching, Hit, calls
<1>2. /\ victim = None /\ arg \in Keys /\ at \in Nodes(t) /\ Shape(t)
      /\ Healthy(t, None, None, None, None) /\ size = Cardinality(Nodes(t))
  BY <1>1, Searched DEF Healthy
<1>3. PICK b \in Bounds, path \in SUBSET Nodes(t) : Bounded(t, b, None) /\ Search(b, path)
  BY <1>1, Searched
<1>4. Turn \in Sides /\ at' \in Nodes(t) BY <1>1, <1>2, Descend
<1>5. at \in Keys /\ None \notin Keys /\ at' \in Keys /\ at' # None
  BY <1>2, <1>4, Types DEF Shape
<1>6. Turn = Toward(arg, at) BY DEF Turn, Toward
<1>7. Less(Opposite(Turn), at, arg) BY <1>1, <1>2, <1>5, <1>6, Towards
<1>8. b[Turn][at'] = b[Turn][at] /\ b[Opposite(Turn)][at'] = at
  BY <1>1, <1>3, <1>4, <1>5, ChildBounds
<1>9. Inside(b, at', arg)
  <2>1. \A x \in Sides : x = Turn \/ x = Opposite(Turn) BY <1>4, Opposites
  <2>2. Inside(b, at, arg) BY <1>1, <1>3 DEF Search
  <2>3. b[Turn][at] = None \/ Less(Turn, b[Turn][at], arg) BY <1>4, <2>2 DEF Inside
  <2> HIDE DEF Turn
  <2> QED BY <1>7, <1>8, <2>1, <2>3 DEF Inside
<1>10. PICK on \in SUBSET Nodes(t) : on = path \cup {at} BY <1>2
<1>11. Search(b, on)' /\ on \in SUBSET Nodes(t')
  <2>1. on \subseteq Nodes(t) /\ arg \notin on BY <1>1, <1>2, <1>3, <1>10 DEF Search
  <2>2. t.root \in on BY <1>3, <1>10 DEF Search
  <2>3. \A n \in on : (IF arg < n THEN t.left[n] ELSE t.right[n]) \in on \cup {at'}
    <3>1. \A n \in path : (IF arg < n THEN t.left[n] ELSE t.right[n]) \in path \cup {at}
      BY <1>3 DEF Search
    <3>2. (IF arg < at THEN t.left[at] ELSE t.right[at]) = at' BY <1>1 DEF Turn
    <3> QED BY <1>10, <3>1, <3>2
  <2> QED BY <1>1, <1>5, <1>9, <2>1, <2>2, <2>3 DEF Search
<1>12. /\ Healthy(t', None, None, None, None) /\ size' = Cardinality(Nodes(t'))
       /\ victim' = None /\ arg' \in Keys /\ at' \in Nodes(t') \cup {None} /\ Bounded(t', b, None)
  BY <1>1, <1>2, <1>3, <1>4
<1> QED BY <1>1, <1>11, <1>12, AtSearch

LEMMA Links ==
    ASSUME MapOK, TreeInv, PutLink
    PROVE  TreeInv' /\ Nodes(t') = Nodes(t) \cup {arg}
<1>1. /\ pc = "search" /\ op = "put" /\ at' = arg /\ size' = size /\ pc' = "insert1"
      /\ at # None => arg # at /\ t[Turn][at] = None
      /\ t' = IF at = None
                THEN [t EXCEPT !.root = arg, !.color[arg] = "red"]
                ELSE [t EXCEPT ![Turn][at] = arg, !.parent[arg] = at, !.color[arg] = "red"]
  BY DEF PutLink, Searching, Hit, Goes
<1>2. /\ arg \in Keys /\ at \in Nodes(t) \cup {None} /\ Shape(t)
      /\ Healthy(t, None, None, None, None) /\ size = Cardinality(Nodes(t))
  BY <1>1, Searched DEF Healthy
<1>3. PICK b \in Bounds, path \in SUBSET Nodes(t) : Bounded(t, b, None) /\ Search(b, path)
  BY <1>1, Searched
<1>4. /\ Healthy(t', arg, None, None, None) /\ t'.color[arg] = "red"
      /\ arg \notin Nodes(t) /\ Nodes(t') = Nodes(t) \cup {arg}
  <2>1. CASE at = None
    <3>1. t.root = None BY <1>3, <2>1 DEF Search
    <3>2. t' = [t EXCEPT !.root = arg, !.color[arg] = "red"] BY <1>1, <2>1
    <3>3. Nodes(t) = {} BY <1>2, <3>1, NoNodes
    <3>4. LET v == [t EXCEPT !.root = arg, !.color[arg] = "red"] IN
          Healthy(v, arg, None, None, None) /\ Nodes(v) = {arg} /\ v.color[arg] = "red"
      BY <1>2, <3>1, PutFirst
    <3>5. Healthy(t', arg, None, None, None) /\ Nodes(t') = {arg} /\ t'.color[arg] = "red"
      BY <3>2, <3>4
    <3> QED BY <3>3, <3>5
  <2>2. CASE at # None
    <3>1. at \in Nodes(t) /\ at \in Keys BY <1>2, <2>2, Types DEF Shape
    <3>2. Turn = Toward(arg, at) /\ Turn \in Sides BY DEF Turn, Toward, Sides
    <3>3. Less(Turn, arg, at) BY <1>1, <1>2, <2>2, <3>1, <3>2, Towards
    <3>4. arg \notin Nodes(t)
      <4>1. arg \notin path /\ t.root \in path \cup {at} BY <1>3 DEF Search
      <4>2. \A n \in path : t[Toward(arg, n)][n] \in path \cup {at}
        BY <1>3 DEF Search, Toward
      <4>3. arg # at /\ t[Toward(arg, at)][at] = None BY <1>1, <2>2, <3>2
      <4> QED BY <1>2, <1>3, <3>1, <4>1, <4>2, <4>3, Unmet
    <3>5. Inside(b, at, arg) BY <1>3, <2>2 DEF Search
    <3>6. PICK s \in Sides : s = Turn BY <3>2
    <3>7. t[s][at] = None /\ arg \in Keys \ Nodes(t) /\ Less(s, arg, at)
      BY <1>1, <1>2, <2>2, <3>3, <3>4, <3>6
    <3>8. LET v == Leaf(t, at, s, arg) IN
          /\ Healthy(v, arg, None, None, None) /\ Nodes(v) = Nodes(t) \cup {arg}
          /\ v.color[arg] = "red"
      BY <1>2, <1>3, <3>1, <3>5, <3>7, PutLeaf
    <3>9. t' = Leaf(t, at, s, arg) BY <1>1, <2>2, <3>6 DEF Leaf
    <3>10. /\ Healthy(t', arg, None, None, None) /\ Nodes(t') = Nodes(t) \cup {arg}
           /\ t'.color[arg] = "red"
      BY <3>8, <3>9
    <3> QED BY <3>4, <3>10
  <2> QED BY <2>1, <2>2
<1>5. size' = Cardinality(Nodes(t')) - 1
  <2>1. IsFiniteSet(Nodes(t)) /\ Cardinality(Nodes(t)) \in Nat BY <1>2, Counted
  <2>2. Cardinality(Nodes(t) \cup {arg}) = Cardinality(Nodes(t)) + 1 BY <1>4, <2>1, FS_AddElement
  <2>3. size' = Cardinality(Nodes(t)) /\ Nodes(t') = Nodes(t) \cup {arg} BY <1>1, <1>2, <1>4
  <2> QED BY <2>1, <2>2, <2>3
<1>6. Inserted' BY <1>1, <1>4 DEF Inserted, Inserts
<1>7. pc' \in Inserts /\ Healthy(t', at', None, None, None) BY <1>1, <1>4 DEF Inserts
<1> QED BY <1>4, <1>5, <1>6, <1>7, AtInsert

\* The facts of the cases of Put.
LEMMA Inserting ==
    ASSUME MapOK, TreeInv, pc \in Inserts
    PROVE  /\ Healthy(t, at, None, None, None) /\ Shape(t) /\ at \in Nodes(t) /\ at \in Keys
           /\ at # None /\ Inserted /\ t.color[at] = "red"
           /\ size = Cardinality(Nodes(t)) - 1 /\ Cardinality(Nodes(t)) \in Nat
<1>1. Healthy(t, at, None, None, None) /\ Inserted /\ size = Cardinality(Nodes(t)) - 1
  BY Known
<1>2. Shape(t) /\ at \in Nodes(t) /\ t.color[at] = "red" BY <1>1 DEF Healthy, Inserted
<1>3. at \in Keys /\ at # None BY <1>2, Types DEF Shape
<1> QED BY <1>1, <1>2, <1>3, Counted

\* The end of Put.
LEMMA PutEnds ==
    ASSUME MapOK, TreeInv, pc \in Inserts, PutReturns,
           Healthy(t', None, None, None, None), Nodes(t') = Nodes(t)
    PROVE  TreeInv'
<1>1. size = Cardinality(Nodes(t)) - 1 /\ Cardinality(Nodes(t)) \in Nat BY Inserting
<1>2. size' = size + 1 /\ pc' = "idle" /\ victim' = None BY DEF PutReturns, Return
<1>3. size' = Cardinality(Nodes(t')) BY <1>1, <1>2
<1> QED BY <1>2, <1>3, AtRest

LEMMA Insert1 ==
    ASSUME MapOK, TreeInv, InsertCase1
    PROVE  TreeInv' /\ Nodes(t') = Nodes(t)
<1>1. pc \in Inserts /\ pc = "insert1" BY DEF InsertCase1, Inserts
<1>2. /\ Healthy(t, at, None, None, None) /\ at \in Nodes(t) /\ t.color[at] = "red"
      /\ size = Cardinality(Nodes(t)) - 1
  BY <1>1, Inserting
<1>3. CASE t.parent[at] = None
  <2>1. t' = Paint(t, at, "black") /\ PutReturns BY <1>3 DEF InsertCase1
  <2>2. Healthy(t', None, None, None, None) /\ Nodes(t') = Nodes(t)
    BY <1>2, <1>3, <2>1, PutCase1
  <2> QED BY <1>1, <2>1, <2>2, PutEnds
<1>4. CASE t.parent[at] # None
  <2>1. pc' = "insert2" /\ t' = t /\ size' = size /\ at' = at BY <1>4 DEF InsertCase1, Goes
  <2>2. Inserted' BY <1>2, <1>4, <2>1 DEF Inserted, Inserts
  <2>3. /\ pc' \in Inserts /\ Healthy(t', at', None, None, None)
        /\ size' = Cardinality(Nodes(t')) - 1
    BY <1>2, <2>1 DEF Inserts
  <2> QED BY <2>1, <2>2, <2>3, AtInsert
<1> QED BY <1>3, <1>4

LEMMA Insert2 ==
    ASSUME MapOK, TreeInv, InsertCase2
    PROVE  TreeInv' /\ Nodes(t') = Nodes(t)
<1>1. pc \in Inserts /\ pc = "insert2" /\ t' = t BY DEF InsertCase2, Inserts
<1>2. /\ Healthy(t, at, None, None, None) /\ at \in Nodes(t) /\ t.color[at] = "red"
      /\ size = Cardinality(Nodes(t)) - 1 /\ Inserted /\ Shape(t)
  BY <1>1, Inserting
<1>3. t.parent[at] # None BY <1>1, <1>2 DEF Inserted, Inserts
<1>4. CASE NodeColor(t, t.parent[at]) = "black"
  <2>1. PutReturns BY <1>4 DEF InsertCase2
  <2>2. t.color[t.parent[at]] = "black" BY <1>3, <1>4 DEF NodeColor
  <2>3. Healthy(t', None, None, None, None) /\ Nodes(t') = Nodes(t)
    BY <1>1, <1>2, <1>3, <2>2, PutCase2
  <2> QED BY <1>1, <2>1, <2>3, PutEnds
<1>5. CASE NodeColor(t, t.parent[at]) # "black"
  <2>1. pc' = "insert3" /\ size' = size /\ at' = at BY <1>5 DEF InsertCase2, Goes
  <2>2. t.color[t.parent[at]] = "red"
    <3>1. TreeType(t) /\ at \in Keys BY <1>2, Types DEF Shape
    <3>2. t.parent[at] \in Keys BY <1>3, <3>1, Types DEF Nil
    <3>3. t.color[t.parent[at]] \in {"red", "black"} BY <3>1, <3>2, Types
    <3> QED BY <1>3, <1>5, <3>3 DEF NodeColor
  <2>3. Inserted' BY <1>1, <1>2, <1>3, <2>1, <2>2 DEF Inserted, Inserts
  <2>4. /\ pc' \in Inserts /\ Healthy(t', at', None, None, None)
        /\ size' = Cardinality(Nodes(t')) - 1
    BY <1>1, <1>2, <2>1 DEF Inserts
  <2> QED BY <1>1, <2>3, <2>4, AtInsert
<1> QED BY <1>4, <1>5

LEMMA Insert3 ==
    ASSUME MapOK, TreeInv, InsertCase3
    PROVE  TreeInv' /\ Nodes(t') = Nodes(t)
<1>1. pc \in Inserts /\ pc = "insert3" /\ size' = size BY DEF InsertCase3, Inserts
<1>2. /\ Healthy(t, at, None, None, None) /\ at \in Nodes(t) /\ t.color[at] = "red"
      /\ size = Cardinality(Nodes(t)) - 1 /\ Inserted /\ Shape(t) /\ at \in Keys
  BY <1>1, Inserting
<1>3. t.parent[at] # None /\ t.color[t.parent[at]] = "red" BY <1>1, <1>2 DEF Inserted, Inserts
<1>4. CASE NodeColor(t, Uncle(t, at)) = "red"
  <2>1. /\ t' = Paint(Paint(Paint(t, t.parent[at], "black"), Uncle(t, at), "black"),
                      Grandparent(t, at), "red")
        /\ at' = Grandparent(t, at) /\ pc' = "insert1"
    BY <1>4 DEF InsertCase3, Goes
  <2>2. /\ Healthy(t', at', None, None, None) /\ Nodes(t') = Nodes(t)
        /\ at' \in Nodes(t) /\ t'.color[at'] = "red"
    BY <1>2, <1>3, <1>4, <2>1, PutCase3
  <2>3. Inserted' BY <2>1, <2>2 DEF Inserted, Inserts
  <2>4. pc' \in Inserts /\ size' = Cardinality(Nodes(t')) - 1 BY <1>1, <1>2, <2>1, <2>2 DEF Inserts
  <2> QED BY <2>2, <2>3, <2>4, AtInsert
<1>5. CASE NodeColor(t, Uncle(t, at)) # "red"
  <2>1. pc' = "insert4" /\ t' = t /\ at' = at BY <1>5 DEF InsertCase3, Goes
  <2>2. NodeColor(t, Uncle(t, at)) = "black"
    <3>1. Uncle(t, at) \in Nil
      <4>1. Coloured(t, at, None) /\ TreeType(t) BY <1>2 DEF Healthy, Shape
      <4> DEFINE p == t.parent[at]
                 g == t.parent[p]
                 e == Side(t, p)
      <4>2. g \in Keys /\ e \in Sides /\ t[Opposite(e)][g] = Uncle(t, at)
        BY <1>2, <1>3, <4>1, Grand
      <4> HIDE DEF e, g
      <4>3. Opposite(e) \in Sides BY <4>2, Opposites
      <4>4. \A k \in Keys, x \in Sides : t[x][k] \in Nil BY <4>1, Types
      <4>5. t[Opposite(e)][g] \in Nil BY <4>2, <4>3, <4>4
      <4> QED BY <4>2, <4>5
    <3>2. TreeType(t) BY <1>2 DEF Shape
    <3> QED BY <1>5, <3>1, <3>2, Types DEF NodeColor, Nil
  <2>3. Inserted' BY <1>2, <1>3, <2>1, <2>2 DEF Inserted, Inserts
  <2>4. /\ pc' \in Inserts /\ Healthy(t', at', None, None, None)
        /\ size' = Cardinality(Nodes(t')) - 1
    BY <1>1, <1>2, <2>1 DEF Inserts
  <2> QED BY <2>1, <2>3, <2>4, AtInsert
<1> QED BY <1>4, <1>5

LEMMA Insert4 ==
    ASSUME MapOK, TreeInv, InsertCase4
    PROVE  TreeInv' /\ Nodes(t') = Nodes(t)
<1>1. pc \in Inserts /\ pc = "insert4" /\ size' = size /\ pc' = "insert5" BY DEF InsertCase4, Inserts, Goes
<1>2. /\ Healthy(t, at, None, None, None) /\ at \in Nodes(t) /\ t.color[at] = "red"
      /\ size = Cardinality(Nodes(t)) - 1 /\ Inserted
  BY <1>1, Inserting
<1>3. /\ t.parent[at] # None /\ t.color[t.parent[at]] = "red"
      /\ NodeColor(t, Uncle(t, at)) = "black"
  BY <1>1, <1>2 DEF Inserted, Inserts
<1>4. CASE Side(t, at) # Side(t, t.parent[at])
  <2> DEFINE p == t.parent[at]
             s == Side(t, p)
             v == Rotate(t, p, s)
  <2>1. t' = v /\ at' = t'[s][at] BY <1>4 DEF InsertCase4
  <2>2. /\ v[s][at] = p /\ Healthy(v, p, None, None, None) /\ Nodes(v) = Nodes(t)
        /\ p \in Nodes(t) /\ v.color[p] = "red" /\ v.parent[p] = at /\ v.color[at] = "red"
        /\ NodeColor(v, Uncle(v, p)) = "black" /\ Side(v, p) = Side(v, at) /\ at # None
    BY <1>2, <1>3, <1>4, PutCase4
  <2>3. at' = p BY <2>1, <2>2
  <2> HIDE DEF v, s, p
  <2>4. Inserted' BY <1>1, <2>1, <2>2, <2>3 DEF Inserted, Inserts
  <2>5. /\ pc' \in Inserts /\ Healthy(t', at', None, None, None)
        /\ size' = Cardinality(Nodes(t')) - 1
    BY <1>1, <1>2, <2>1, <2>2, <2>3 DEF Inserts
  <2> QED BY <2>1, <2>2, <2>4, <2>5, AtInsert
<1>5. CASE Side(t, at) = Side(t, t.parent[at])
  <2>1. t' = t /\ at' = at BY <1>5 DEF InsertCase4
  <2>2. Inserted' BY <1>1, <1>2, <1>3, <1>5, <2>1 DEF Inserted, Inserts
  <2>3. /\ pc' \in Inserts /\ Healthy(t', at', None, None, None)
        /\ size' = Cardinality(Nodes(t')) - 1
    BY <1>1, <1>2, <2>1 DEF Inserts
  <2> QED BY <2>1, <2>2, <2>3, AtInsert
<1> QED BY <1>4, <1>5

LEMMA Insert5 ==
    ASSUME MapOK, TreeInv, InsertCase5
    PROVE  TreeInv' /\ Nodes(t') = Nodes(t)
<1>1. pc \in Inserts /\ pc = "insert5" /\ PutReturns BY DEF InsertCase5, Inserts
<1>2. /\ Healthy(t, at, None, None, None) /\ at \in Nodes(t) /\ t.color[at] = "red" /\ Inserted
  BY <1>1, Inserting
<1>3. /\ t.parent[at] # None /\ t.color[t.parent[at]] = "red"
      /\ NodeColor(t, Uncle(t, at)) = "black" /\ Side(t, at) = Side(t, t.parent[at])
  BY <1>1, <1>2 DEF Inserted, Inserts
<1>4. LET u == Paint(Paint(t, t.parent[at], "black"), Grandparent(t, at), "red")
          v == IF Side(u, at) = Side(u, u.parent[at])
                 THEN Rotate(u, Grandparent(u, at), Opposite(Side(u, at))) ELSE u
      IN  t' = v /\ Healthy(v, None, None, None, None) /\ Nodes(v) = Nodes(t)
  BY <1>2, <1>3, PutCase5 DEF InsertCase5
<1>5. Healthy(t', None, None, None, None) /\ Nodes(t') = Nodes(t) BY <1>4
<1> QED BY <1>1, <1>5, PutEnds

LEMMA Founds ==
    ASSUME MapOK, TreeInv, RemoveFound
    PROVE  TreeInv'
<1>1. /\ pc = "search" /\ op = "remove" /\ at # None /\ arg = at /\ t' = t /\ size' = size
      /\ victim' = at
  BY DEF RemoveFound, Searching, Hit
<1>2. /\ at \in Nodes(t) /\ Shape(t) /\ pc \in Others
      /\ Healthy(t, None, None, None, None) /\ size = Cardinality(Nodes(t))
  BY <1>1, Searched DEF Healthy
<1>3. PICK b \in Bounds : Bounded(t, b, None) BY <1>2, Known
<1>4. at \in Keys /\ None \notin Keys BY <1>2, Types DEF Shape
<1>5. CASE t.left[at] # None /\ t.right[at] # None
  <2>1. pc' = "pred" /\ at' = t.left[at] BY <1>5 DEF RemoveFound, Goes
  <2>2. "left" \in Sides /\ Opposite("left") = "right" BY DEF Sides, Opposite
  <2>3. t["left"][at] # None BY <1>5
  <2>4. t["left"][at] \in Nodes(t) /\ t["left"][at] \in Keys BY <1>2, <1>4, <2>2, <2>3, Child
  <2>5. b[Opposite("left")][t["left"][at]] = at BY <1>3, <1>4, <2>2, <2>3, ChildBounds
  <2>6. b.right[at'] = at /\ at' \in Nodes(t) /\ at' \in Int
    BY <2>1, <2>2, <2>4, <2>5 DEF MapOK
  <2>7. ASSUME NEW n \in Nodes(t), b.right[n] = at, n < at' PROVE FALSE
    <3>1. t.left[at] <= n BY <1>2, <1>3, <1>5, <2>7, Leftmost
    <3>2. n \in Int BY <1>2, Types DEF Shape, MapOK
    <3> QED BY <2>1, <2>6, <2>7, <3>1, <3>2
  <2>8. Pred(b)'
    <3>1. t.left[at] <= at' BY <2>1, <2>6
    <3>2. \A n \in Nodes(t) : ~(b.right[n] = at /\ n < at') BY <2>7
    <3> QED BY <1>1, <2>6, <3>1, <3>2 DEF Pred
  <2>9. /\ Healthy(t', None, None, None, None) /\ size' = Cardinality(Nodes(t'))
        /\ at' \in Nodes(t') /\ victim' \in Nodes(t')
        /\ t'.left[victim'] # None /\ t'.right[victim'] # None /\ Bounded(t', b, None)
    BY <1>1, <1>2, <1>3, <1>5, <2>6
  <2> QED BY <2>1, <2>8, <2>9, AtPred
<1>6. CASE ~(t.left[at] # None /\ t.right[at] # None)
  <2>1. pc' = "unlink1" BY <1>6 DEF RemoveFound, Goes
  <2>2. Skip(b, at) \in Bounds /\ Bounded(t, Skip(b, at), at) BY <1>2, <1>3, Waive
  <2>3. Sorted(t, at) BY <2>2 DEF Sorted
  <2>4. Healthy(t, None, None, None, at) BY <1>2, <2>3 DEF Healthy
  <2>5. /\ Healthy(t', None, None, None, victim') /\ victim' \in Nodes(t')
        /\ t'.left[victim'] = None \/ t'.right[victim'] = None
        /\ size' = Cardinality(Nodes(t'))
    BY <1>1, <1>2, <1>6, <2>4
  <2> QED BY <2>1, <2>5, AtColor
<1> QED BY <1>5, <1>6

LEMMA Preds ==
    ASSUME MapOK, TreeInv, RemovePred
    PROVE  TreeInv' /\ Nodes(t') = Nodes(t)
<1>1. pc = "pred" /\ size' = size /\ victim' = victim BY DEF RemovePred
<1>2. pc \in Others /\ pc \notin Unlinks BY <1>1, Places
<1>3. /\ at \in Nodes(t) /\ victim \in Nodes(t) /\ Shape(t)
      /\ t.left[victim] # None /\ t.right[victim] # None
      /\ Healthy(t, None, None, None, None) /\ size = Cardinality(Nodes(t))
  BY <1>1, <1>2, Known DEF TreeInv, Removed
<1>4. PICK b \in Bounds : Bounded(t, b, None) /\ Pred(b)
  BY <1>1, <1>2 DEF TreeInv, Ordering, Waived
<1>5. /\ b.right[at] = victim /\ t.left[victim] <= at
      /\ \A n \in Nodes(t) : b.right[n] = victim /\ n < at => t.right[n] # None /\ t.right[n] <= at
  BY <1>4 DEF Pred
<1>6. Nodes(t) \subseteq Keys /\ None \notin Keys /\ Keys \subseteq Int
  BY <1>3, Types DEF Shape, MapOK
<1>7. CASE t.right[at] # None
  <2>1. pc' = "pred" /\ t' = t /\ at' = t.right[at] BY <1>1, <1>7 DEF RemovePred
  <2>2. "right" \in Sides /\ Opposite("right") = "left" /\ "left" \in Sides BY DEF Sides, Opposite
  <2>3. t["right"][at] # None /\ at \in Keys BY <1>3, <1>6, <1>7
  <2>4. t["right"][at] \in Nodes(t) BY <1>3, <2>2, <2>3, Child
  <2>5. b["right"][t["right"][at]] = b["right"][at] /\ b[Opposite("right")][t["right"][at]] = at
    BY <1>4, <1>6, <2>2, <2>3, ChildBounds
  <2>6. b.right[at'] = victim /\ at' \in Nodes(t) /\ at' \in Int /\ at \in Int
    BY <1>5, <1>6, <2>1, <2>3, <2>4, <2>5
  <2>7. at < at'
    <3>1. Inside(b, at', at') BY <1>4, <1>6, <2>6 DEF Bounded
    <3>2. b["left"][at'] = at BY <2>1, <2>2, <2>5
    <3>3. Less("left", at, at') BY <1>6, <2>2, <2>3, <3>1, <3>2 DEF Inside
    <3> QED BY <3>3 DEF Less
  <2>8. t.left[victim] <= at'
    <3>1. victim \in Keys /\ t["left"][victim] # None BY <1>3, <1>6
    <3>2. t["left"][victim] \in Int BY <1>3, <1>6, <2>2, <3>1, Child
    <3> QED BY <1>5, <2>6, <2>7, <3>2
  <2>9. ASSUME NEW n \in Nodes(t), b.right[n] = victim, n < at'
        PROVE  t.right[n] # None /\ t.right[n] <= at'
    <3>1. n \in Int /\ n \in Keys BY <1>6
    <3>2. CASE n < at
      <4>1. t.right[n] # None /\ t.right[n] <= at BY <1>5, <2>9, <3>2
      <4>2. t["right"][n] \in Int BY <1>3, <1>6, <2>2, <3>1, <4>1, Child
      <4> QED BY <2>6, <2>7, <4>1, <4>2
    <3>3. CASE n = at BY <1>7, <2>1, <2>6, <3>3
    <3>4. CASE at < n
      <4>1. t.right[at] <= n BY <1>3, <1>4, <1>5, <2>9, <3>4, Nearest
      <4> QED BY <2>1, <2>6, <2>9, <3>1, <4>1
    <3> QED BY <2>6, <3>1, <3>2, <3>3, <3>4
  <2>10. Pred(b)' BY <1>1, <2>1, <2>6, <2>8, <2>9 DEF Pred
  <2>11. /\ Healthy(t', None, None, None, None) /\ size' = Cardinality(Nodes(t'))
         /\ at' \in Nodes(t') /\ victim' \in Nodes(t')
         /\ t'.left[victim'] # None /\ t'.right[victim'] # None /\ Bounded(t', b, None)
    BY <1>1, <1>3, <1>4, <2>1, <2>6
  <2> QED BY <2>1, <2>10, <2>11, AtPred
<1>8. CASE t.right[at] = None
  <2>1. pc' = "unlink1" /\ t' = Trade(t, victim, at) BY <1>8 DEF RemovePred, Goes
  <2>2. LET v == Trade(t, victim, at) IN
        Healthy(v, None, None, None, victim) /\ Nodes(v) = Nodes(t) /\ v.right[victim] = None
    BY <1>3, <1>4, <1>5, <1>8, RemoveTrade
  <2>3. /\ Healthy(t', None, None, None, victim') /\ victim' \in Nodes(t')
        /\ t'.left[victim'] = None \/ t'.right[victim'] = None
        /\ size' = Cardinality(Nodes(t'))
    BY <1>1, <1>3, <2>1, <2>2
  <2> QED BY <2>1, <2>2, <2>3, AtColor
<1> QED BY <1>7, <1>8

LEMMA Colors ==
    ASSUME MapOK, TreeInv, RemoveColor
    PROVE  TreeInv' /\ Nodes(t') = Nodes(t)
<1>1. pc = "unlink1" /\ size' = size /\ victim' = victim /\ child' = OnlyChild(t, victim)
  BY DEF RemoveColor, OnlyChild
<1>2. /\ Healthy(t, None, None, None, victim) /\ victim \in Nodes(t)
      /\ t.left[victim] = None \/ t.right[victim] = None
      /\ size = Cardinality(Nodes(t))
  BY <1>1, Known
<1>3. CASE t.color[victim] = "black"
  <2>1. t' = Paint(t, victim, NodeColor(t, child')) /\ pc' = "delete1" /\ at' = victim
    BY <1>3 DEF RemoveColor, Goes
  <2>2. Deleting(t', {victim}, victim, victim, child') /\ Nodes(t') = Nodes(t)
    BY <1>1, <1>2, <1>3, <2>1, RemoveBlack
  <2>3. PICK way : way = {victim} OBVIOUS
  <2>4. Deleting(t', way, at', victim', child') /\ pc' \in Deletes /\ size' = Cardinality(Nodes(t'))
    BY <1>1, <1>2, <2>1, <2>2, <2>3 DEF Deletes
  <2>5. Mended' BY <1>1, <1>2, <2>1, <2>2 DEF Mended, Deletes
  <2> QED BY <2>2, <2>4, <2>5, AtDelete
<1>4. CASE t.color[victim] # "black"
  <2>1. t' = t /\ pc' = "unlink2" BY <1>4 DEF RemoveColor, Goes
  <2>2. Deleted(t, victim, child') BY <1>1, <1>2, <1>4, RemoveRed
  <2>3. Deleted(t', victim', child') /\ size' = Cardinality(Nodes(t')) BY <1>1, <1>2, <2>1, <2>2
  <2> QED BY <2>1, <2>3, AtUnlink
<1> QED BY <1>3, <1>4

LEMMA Unlinking ==
    ASSUME MapOK, TreeInv, RemoveUnlink
    PROVE  TreeInv' /\ Nodes(t') = Nodes(t) \ {victim}
<1>1. /\ pc = "unlink2" /\ size' = size - 1 /\ pc' = "idle" /\ victim' = None
      /\ t' = Unlink(t, victim, child)
  BY DEF RemoveUnlink, Return, Unlink
<1>2. Deleted(t, victim, child) /\ size = Cardinality(Nodes(t)) /\ IsFiniteSet(Nodes(t))
  BY <1>1, Known
<1>3. Healthy(t', None, None, None, None) /\ Nodes(t') = Nodes(t) \ {victim}
  BY <1>1, <1>2, RemoveUnlinked
<1>4. victim \in Nodes(t) BY <1>2 DEF Deleted
<1>5. Cardinality(Nodes(t) \ {victim}) = Cardinality(Nodes(t)) - 1
  BY <1>2, <1>4, FS_RemoveElement
<1>6. size' = Cardinality(Nodes(t')) BY <1>1, <1>2, <1>3, <1>5
<1> QED BY <1>1, <1>3, <1>6, AtRest

\* The facts of the cases of Remove.
LEMMA Removing ==
    ASSUME MapOK, TreeInv, pc \in Deletes
    PROVE  /\ \E way : Deleting(t, way, at, victim, child)
           /\ Mended /\ size = Cardinality(Nodes(t)) /\ Shape(t) /\ TreeType(t)
           /\ at \in Nodes(t) /\ at \in Keys /\ None \notin Keys
<1>1. /\ \E way : Deleting(t, way, at, victim, child)
      /\ Mended /\ size = Cardinality(Nodes(t)) /\ Shape(t) /\ TreeType(t) /\ None \notin Keys
  BY Known
<1>2. at \in Nodes(t) BY <1>1 DEF Mended
<1> QED BY <1>1, <1>2, Types

LEMMA Colors2 ==
    ASSUME MapOK, NEW tr, TreeType(tr), NEW n \in Nil
    PROVE  NodeColor(tr, n) = "red" \/ NodeColor(tr, n) = "black"
  BY Types DEF NodeColor, Nil

\* On to the next case.
LEMMA NextCase ==
    ASSUME MapOK, NEW way, Deleting(t', way, at', victim', child'), size' = Cardinality(Nodes(t')),
           pc' \in Deletes, pc' # "delete1" => t'.parent[at'] # None,
           pc' \notin {"delete1", "delete2"} => NodeColor(t', Sibling(t', at')) = "black",
           pc' = "delete4" => t'.color[t'.parent[at']] = "red" \/ ~AllBlack(t', Sibling(t', at')),
           pc' = "delete5" => ~AllBlack(t', Sibling(t', at')),
           pc' = "delete6" => NodeColor(t', t'[Opposite(Side(t', at'))][Sibling(t', at')]) = "red"
    PROVE  TreeInv'
<1>1. at' \in Nodes(t') /\ (at' = victim' \/ t'.color[at'] = "black") BY DEF Deleting, Going
<1>2. Mended' BY <1>1 DEF Mended
<1> QED BY <1>2, AtDelete

LEMMA Delete1 ==
    ASSUME MapOK, TreeInv, DeleteCase1
    PROVE  TreeInv' /\ Nodes(t') = Nodes(t)
<1>1. /\ pc \in Deletes /\ t' = t /\ size' = size /\ at' = at /\ victim' = victim /\ child' = child
      /\ pc' = IF t.parent[at] = None THEN "unlink2" ELSE "delete2"
  BY DEF DeleteCase1, Deletes, calls, Goes
<1>2. PICK way : Deleting(t, way, at, victim, child) BY <1>1, Removing
<1>3. Deleting(t', way, at', victim', child') /\ size' = Cardinality(Nodes(t'))
  BY <1>1, <1>2, Removing
<1>4. CASE t.parent[at] = None
  <2>1. Deleted(t, victim, child) BY <1>2, <1>4, RemoveCase1
  <2>2. Deleted(t', victim', child') /\ pc' = "unlink2" BY <1>1, <1>4, <2>1
  <2> QED BY <1>1, <1>3, <2>2, AtUnlink
<1>5. CASE t.parent[at] # None
  <2>1. pc' = "delete2" /\ t'.parent[at'] # None BY <1>1, <1>5
  <2>2. pc' \in Deletes BY <2>1 DEF Deletes
  <2> QED BY <1>1, <1>3, <2>1, <2>2, NextCase
<1> QED BY <1>4, <1>5

LEMMA Delete2 ==
    ASSUME MapOK, TreeInv, DeleteCase2
    PROVE  TreeInv' /\ Nodes(t') = Nodes(t)
<1>1. /\ pc = "delete2" /\ size' = size /\ at' = at /\ victim' = victim /\ child' = child
      /\ pc' = "delete3" /\ pc \in Deletes /\ pc' \in Deletes
  BY DEF DeleteCase2, Deletes, calls, Goes
<1>2. PICK way : Deleting(t, way, at, victim, child) BY <1>1, Removing
<1>3. t.parent[at] # None BY <1>1, Removing DEF Mended
<1>4. CASE NodeColor(t, Sibling(t, at)) = "red"
  <2>1. t' = Rotate(Paint(Paint(t, t.parent[at], "red"), Sibling(t, at), "black"),
                    t.parent[at], Side(t, at))
    BY <1>4 DEF DeleteCase2
  <2>2. /\ Deleting(t', way, at, victim, child) /\ Nodes(t') = Nodes(t)
        /\ t'.parent[at] # None /\ NodeColor(t', Sibling(t', at)) = "black"
    BY <1>2, <1>3, <1>4, <2>1, RemoveCase2
  <2>3. /\ Deleting(t', way, at', victim', child') /\ size' = Cardinality(Nodes(t'))
        /\ t'.parent[at'] # None /\ NodeColor(t', Sibling(t', at')) = "black"
    BY <1>1, <2>2, Removing
  <2> QED BY <1>1, <2>2, <2>3, NextCase
<1>5. CASE NodeColor(t, Sibling(t, at)) # "red"
  <2>1. t' = t BY <1>5 DEF DeleteCase2
  <2>2. Sibling(t, at) \in Nil BY <1>2, <1>3, Kin DEF Nil
  <2>3. NodeColor(t, Sibling(t, at)) = "black" BY <1>1, <1>5, <2>2, Colors2, Removing
  <2>4. /\ Deleting(t', way, at', victim', child') /\ size' = Cardinality(Nodes(t'))
        /\ t'.parent[at'] # None /\ NodeColor(t', Sibling(t', at')) = "black"
    BY <1>1, <1>2, <1>3, <2>1, <2>3, Removing
  <2> QED BY <1>1, <2>1, <2>4, NextCase
<1> QED BY <1>4, <1>5

LEMMA Delete3 ==
    ASSUME MapOK, TreeInv, DeleteCase3
    PROVE  TreeInv' /\ Nodes(t') = Nodes(t)
<1>1. /\ pc = "delete3" /\ size' = size /\ victim' = victim /\ child' = child /\ pc \in Deletes
  BY DEF DeleteCase3, Deletes, calls
<1>2. PICK way : Deleting(t, way, at, victim, child) BY <1>1, Removing
<1>3. t.parent[at] # None /\ NodeColor(t, Sibling(t, at)) = "black" BY <1>1, Removing DEF Mended
<1>4. CASE t.color[t.parent[at]] = "black" /\ AllBlack(t, Sibling(t, at))
  <2>1. t' = Paint(t, Sibling(t, at), "red") /\ at' = t.parent[at] /\ pc' = "delete1"
    BY <1>4 DEF DeleteCase3, Goes
  <2>2. Deleting(t', way \cup {t.parent[at]}, t.parent[at], victim, child) /\ Nodes(t') = Nodes(t)
    BY <1>2, <1>3, <1>4, <2>1, RemoveCase3
  <2>3. PICK on : on = way \cup {t.parent[at]} OBVIOUS
  <2>4. /\ Deleting(t', on, at', victim', child') /\ size' = Cardinality(Nodes(t'))
        /\ pc' \in Deletes
    BY <1>1, <2>1, <2>2, <2>3, Removing DEF Deletes
  <2> QED BY <2>1, <2>2, <2>4, NextCase
<1>5. CASE ~(t.color[t.parent[at]] = "black" /\ AllBlack(t, Sibling(t, at)))
  <2>1. t' = t /\ at' = at /\ pc' = "delete4" BY <1>5 DEF DeleteCase3, Goes
  <2>2. t.color[t.parent[at]] = "red" \/ t.color[t.parent[at]] = "black"
    <3>1. t.parent[at] \in Keys BY <1>2, <1>3, Kin
    <3> QED BY <1>1, <3>1, Types, Removing
  <2>3. t.color[t.parent[at]] = "red" \/ ~AllBlack(t, Sibling(t, at)) BY <1>5, <2>2
  <2>4. /\ Deleting(t', way, at', victim', child') /\ size' = Cardinality(Nodes(t'))
        /\ t'.parent[at'] # None /\ NodeColor(t', Sibling(t', at')) = "black"
        /\ t'.color[t'.parent[at']] = "red" \/ ~AllBlack(t', Sibling(t', at'))
        /\ pc' \in Deletes
    BY <1>1, <1>2, <1>3, <2>1, <2>3, Removing DEF Deletes
  <2> QED BY <2>1, <2>2, <2>4, NextCase
<1> QED BY <1>4, <1>5

LEMMA Delete4 ==
    ASSUME MapOK, TreeInv, DeleteCase4
    PROVE  TreeInv' /\ Nodes(t') = Nodes(t)
<1>1. /\ pc = "delete4" /\ size' = size /\ at' = at /\ victim' = victim /\ child' = child
      /\ pc \in Deletes
  BY DEF DeleteCase4, Deletes, calls
<1>2. PICK way : Deleting(t, way, at, victim, child) BY <1>1, Removing
<1>3. /\ t.parent[at] # None /\ NodeColor(t, Sibling(t, at)) = "black"
      /\ t.color[t.parent[at]] = "red" \/ ~AllBlack(t, Sibling(t, at))
  BY <1>1, Removing DEF Mended
<1>4. CASE t.color[t.parent[at]] = "red" /\ AllBlack(t, Sibling(t, at))
  <2>1. /\ t' = Paint(Paint(t, Sibling(t, at), "red"), t.parent[at], "black")
        /\ pc' = "unlink2"
    BY <1>4 DEF DeleteCase4, Goes
  <2>2. Deleted(t', victim, child) /\ Nodes(t') = Nodes(t)
    BY <1>2, <1>3, <1>4, <2>1, RemoveCase4
  <2>3. Deleted(t', victim', child') /\ size' = Cardinality(Nodes(t')) BY <1>1, <2>2, Removing
  <2> QED BY <2>1, <2>2, <2>3, AtUnlink
<1>5. CASE ~(t.color[t.parent[at]] = "red" /\ AllBlack(t, Sibling(t, at)))
  <2>1. t' = t /\ pc' = "delete5" BY <1>5 DEF DeleteCase4, Goes
  <2>2. ~AllBlack(t, Sibling(t, at)) BY <1>3, <1>5
  <2>4. /\ Deleting(t', way, at', victim', child') /\ size' = Cardinality(Nodes(t'))
        /\ t'.parent[at'] # None /\ NodeColor(t', Sibling(t', at')) = "black"
        /\ ~AllBlack(t', Sibling(t', at')) /\ pc' \in Deletes
    BY <1>1, <1>2, <1>3, <2>1, <2>2, Removing DEF Deletes
  <2> QED BY <2>1, <2>4, NextCase
<1> QED BY <1>4, <1>5

LEMMA Delete5 ==
    ASSUME MapOK, TreeInv, DeleteCase5
    PROVE  TreeInv' /\ Nodes(t') = Nodes(t)
<1> DEFINE s == Sibling(t, at)
           near == Side(t, at)
<1>1. /\ pc = "delete5" /\ size' = size /\ at' = at /\ victim' = victim /\ child' = child
      /\ pc' = "delete6" /\ pc \in Deletes /\ pc' \in Deletes
  BY DEF DeleteCase5, Deletes, calls, Goes
<1>2. PICK way : Deleting(t, way, at, victim, child) BY <1>1, Removing
<1>3. t.parent[at] # None /\ NodeColor(t, s) = "black" /\ ~AllBlack(t, s)
  BY <1>1, Removing DEF Mended
<1>4. CASE NodeColor(t, t[near][s]) = "red" /\ NodeColor(t, t[Opposite(near)][s]) = "black"
  <2>1. t' = Rotate(Paint(Paint(t, s, "red"), t[near][s], "black"), s, Opposite(near))
    BY <1>3, <1>4 DEF DeleteCase5
  <2>2. /\ Deleting(t', way, at, victim, child) /\ Nodes(t') = Nodes(t) /\ t'.parent[at] # None
        /\ NodeColor(t', Sibling(t', at)) = "black"
        /\ NodeColor(t', t'[Opposite(Side(t', at))][Sibling(t', at)]) = "red"
    BY <1>2, <1>3, <1>4, <2>1, RemoveCase5
  <2>3. /\ Deleting(t', way, at', victim', child') /\ size' = Cardinality(Nodes(t'))
        /\ t'.parent[at'] # None /\ NodeColor(t', Sibling(t', at')) = "black"
        /\ NodeColor(t', t'[Opposite(Side(t', at'))][Sibling(t', at')]) = "red"
    BY <1>1, <2>2, Removing
  <2> QED BY <1>1, <2>1, <2>2, <2>3, NextCase
<1>5. CASE ~(NodeColor(t, t[near][s]) = "red" /\ NodeColor(t, t[Opposite(near)][s]) = "black")
  <2>1. t' = t BY <1>5 DEF DeleteCase5
  <2>2. NodeColor(t, t[Opposite(near)][s]) = "red"
    <3>1. /\ near \in Sides /\ Opposite(near) \in Sides /\ s \in Keys
          /\ \A x \in Sides : x = near \/ x = Opposite(near)
      BY <1>2, <1>3, Kin
    <3>2. t[near][s] \in Nil /\ t[Opposite(near)][s] \in Nil BY <1>1, <3>1, Types, Removing
    <3>3. ~(NodeColor(t, t[near][s]) = "black" /\ NodeColor(t, t[Opposite(near)][s]) = "black")
      <4>1. ~(NodeColor(t, t["left"][s]) = "black" /\ NodeColor(t, t["right"][s]) = "black")
        BY <1>3 DEF AllBlack
      <4> HIDE DEF near, s
      <4>2. "left" \in Sides /\ "right" \in Sides BY DEF Sides
      <4> QED BY <3>1, <4>1, <4>2
    <3>4. TreeType(t) BY <1>1, Removing
    <3> HIDE DEF near, s
    <3> QED BY <1>5, <3>2, <3>3, <3>4, Colors2
  <2>3. /\ Deleting(t', way, at', victim', child') /\ size' = Cardinality(Nodes(t'))
        /\ t'.parent[at'] # None /\ NodeColor(t', Sibling(t', at')) = "black"
        /\ NodeColor(t', t'[Opposite(Side(t', at'))][Sibling(t', at')]) = "red"
    BY <1>1, <1>2, <1>3, <2>1, <2>2, Removing
  <2> QED BY <1>1, <2>1, <2>2, <2>3, NextCase
<1> QED BY <1>4, <1>5

\* The colours of the sixth case, before the rotation.
LEMMA PaintedSix ==
    ASSUME MapOK, NEW tr, TreeType(tr), NEW s \in Keys, NEW p \in Keys, NEW f \in Keys,
           s # p, f # s, f # p, tr.color[f] = "red"
    PROVE  LET u == Paint(Paint(tr, s, NodeColor(tr, p)), p, "black")  v == Paint(u, f, "black") IN
           /\ NodeColor(u, f) = "red" /\ u.left = tr.left /\ u.right = tr.right
           /\ TreeType(v) /\ Same(tr, v)
           /\ \A k \in Keys : v.color[k] =
                IF k = p \/ k = f THEN "black" ELSE IF k = s THEN tr.color[p] ELSE tr.color[k]
<1> DEFINE d == NodeColor(tr, p)
           w == Paint(tr, s, d)
           u == Paint(w, p, "black")
           v == Paint(u, f, "black")
<1>1. p # None /\ f # None BY DEF MapOK
<1>2. d = tr.color[p] /\ d \in {"red", "black"} BY <1>1, Types DEF NodeColor
<1> HIDE DEF d
<1>3. TreeType(w) /\ Same(tr, w) /\ w.color = [tr.color EXCEPT ![s] = d] BY <1>2, Painted
<1> HIDE DEF w
<1>4. TreeType(u) /\ Same(w, u) /\ u.color = [w.color EXCEPT ![p] = "black"] BY <1>3, Painted
<1> HIDE DEF u
<1>5. TreeType(v) /\ Same(u, v) /\ v.color = [u.color EXCEPT ![f] = "black"] BY <1>4, Painted
<1> HIDE DEF v
<1>6. tr.color \in [Keys -> {"red", "black"}] BY DEF TreeType
<1>7. NodeColor(u, f) = "red" /\ u.left = tr.left /\ u.right = tr.right
  BY <1>1, <1>3, <1>4, <1>6 DEF NodeColor, Same
<1>8. Same(tr, v) BY <1>3, <1>4, <1>5 DEF Same
<1>9. \A k \in Keys : v.color[k] =
         IF k = p \/ k = f THEN "black" ELSE IF k = s THEN tr.color[p] ELSE tr.color[k]
  BY <1>2, <1>3, <1>4, <1>5, <1>6
<1> QED BY <1>5, <1>7, <1>8, <1>9 DEF v, u, w, d

LEMMA Delete6 ==
    ASSUME MapOK, TreeInv, DeleteCase6
    PROVE  TreeInv' /\ Nodes(t') = Nodes(t)
<1> DEFINE p == t.parent[at]
           s == Sibling(t, at)
           e == Side(t, at)
           o == Opposite(e)
           f == t[o][s]
           u == Paint(Paint(t, s, NodeColor(t, p)), p, "black")
           v == Paint(u, f, "black")
<1>1. /\ pc = "delete6" /\ size' = size /\ at' = at /\ victim' = victim /\ child' = child
      /\ pc' = "unlink2" /\ pc \in Deletes
  BY DEF DeleteCase6, Deletes, calls, Goes
<1>2. PICK way : Deleting(t, way, at, victim, child) BY <1>1, Removing
<1>3. p # None /\ NodeColor(t, s) = "black" /\ NodeColor(t, f) = "red"
  BY <1>1, Removing DEF Mended
<1>4. f # None /\ t.color[f] = "red" BY <1>3 DEF NodeColor
<1>5. /\ TreeType(t) /\ Shape(t) /\ p \in Keys /\ s \in Keys /\ e \in Sides /\ s # p
      /\ f \in Keys /\ f # s /\ f # p /\ None \notin Keys
  BY <1>2, <1>3, <1>4, Kin
<1>8. /\ NodeColor(u, f) = "red" /\ u.left = t.left /\ u.right = t.right
      /\ TreeType(v) /\ Same(t, v)
      /\ \A k \in Keys : v.color[k] =
           IF k = p \/ k = f THEN "black" ELSE IF k = s THEN t.color[p] ELSE t.color[k]
  <2> HIDE DEF p, s, f
  <2> QED BY <1>4, <1>5, PaintedSix
<1>9. t' = Rotate(v, p, e)
  <2>1. CASE e = "left"
    <3>1. f = u.right[s]
      <4> HIDE DEF e, s, u
      <4>1. o = "right" BY <2>1 DEF Opposite
      <4> HIDE DEF o
      <4> QED BY <1>8, <4>1
    <3>2. t' = Rotate(Paint(u, u.right[s], "black"), p, "left")
      BY <1>8, <2>1, <3>1 DEF DeleteCase6
    <3> QED BY <2>1, <3>1, <3>2
  <2>2. CASE e = "right"
    <3>1. f = u.left[s]
      <4> HIDE DEF e, s, u
      <4>1. o = "left" BY <2>2 DEF Opposite
      <4> HIDE DEF o
      <4> QED BY <1>8, <4>1
    <3>2. t' = Rotate(Paint(u, u.left[s], "black"), p, "right")
      BY <1>8, <2>2, <3>1 DEF DeleteCase6
    <3> QED BY <2>2, <3>1, <3>2
  <2> QED BY <1>5, <2>1, <2>2 DEF Sides
<1>11. Deleted(t', victim, child) /\ Nodes(t') = Nodes(t)
  <2> HIDE DEF v
  <2> QED BY <1>2, <1>3, <1>8, <1>9, RemoveCase6
<1>12. Deleted(t', victim', child') /\ size' = Cardinality(Nodes(t')) BY <1>1, <1>11, Removing
<1> QED BY <1>1, <1>11, <1>12, AtUnlink

LEMMA TreeInit == MapOK /\ Init => TreeInv
<1> SUFFICES ASSUME MapOK, Init PROVE TreeInv OBVIOUS
<1>1. Healthy(t, None, None, None, None) /\ Nodes(t) = {} BY NewTree DEF Init
<1>2. pc = "idle" /\ victim = None /\ size = 0 BY DEF Init
<1>3. pc \in Others /\ pc \notin Inserts /\ pc \notin Unlinks /\ pc \notin Deletes
  BY <1>2, Places
<1>4. New = None /\ Gone = None /\ Short = None /\ Waived = None
  BY <1>3, Places DEF New, Gone, Short, Waived
<1>5. Ordering BY <1>1, <1>2, <1>4 DEF Ordering, Healthy, Sorted
<1>6. Calling BY <1>2, <1>3 DEF Calling
<1>7. Inserted BY <1>2 DEF Inserted, Inserts
<1>8. Removed BY <1>2 DEF Removed, Unlinks, Deletes
<1>9. Mended BY <1>2 DEF Mended, Deletes
<1>10. Count BY <1>1, <1>2, <1>3, FS_EmptySet DEF Count
<1> QED BY <1>1, <1>3, <1>4, <1>5, <1>6, <1>7, <1>8, <1>9, <1>10 DEF TreeInv

LEMMA TreeStep == MapOK /\ TreeInv /\ [Next]_vars => TreeInv'
<1> SUFFICES ASSUME MapOK, TreeInv, [Next]_vars PROVE TreeInv' OBVIOUS
<1>1. CASE UNCHANGED vars
  BY <1>1 DEF vars, calls, TreeInv, Ordering, Calling, Inserted, Removed, Mended, Count,
              New, Gone, Short, Waived, Search, Pred
<1>2. CASE \/ PutFound \/ GetFound \/ NearestFound \/ Outermost \/ Climb \/ Answered
           \/ RemoveMissed
  BY <1>2, Queries
<1>3. CASE LookupDescend \/ NearestDescend BY <1>3, Lookups
<1>4. CASE PutDescend BY <1>4, Puts
<1>5. CASE PutLink BY <1>5, Links
<1>6. CASE InsertCase1 BY <1>6, Insert1
<1>7. CASE InsertCase2 BY <1>7, Insert2
<1>8. CASE InsertCase3 BY <1>8, Insert3
<1>9. CASE InsertCase4 BY <1>9, Insert4
<1>10. CASE InsertCase5 BY <1>10, Insert5
<1>11. CASE RemoveFound BY <1>11, Founds
<1>12. CASE RemovePred BY <1>12, Preds
<1>13. CASE RemoveColor BY <1>13, Colors
<1>14. CASE DeleteCase1 BY <1>14, Delete1
<1>15. CASE DeleteCase2 BY <1>15, Delete2
<1>16. CASE DeleteCase3 BY <1>16, Delete3
<1>17. CASE DeleteCase4 BY <1>17, Delete4
<1>18. CASE DeleteCase5 BY <1>18, Delete5
<1>19. CASE DeleteCase6 BY <1>19, Delete6
<1>20. CASE RemoveUnlink BY <1>20, Unlinking
<1>21. CASE Clear BY <1>21, Cleared
<1>22. ASSUME NEW k \in Keys, NEW o, Call(o, k) PROVE TreeInv' BY <1>22, Called
<1>23. CASE \E k \in Keys : \/ \E o \in {"first", "last"} : IteratorEnd(o, k)
                            \/ \E o \in {"next", "prev"} : IteratorStep(o, k)
  BY <1>23, Queries
<1> QED BY <1>1, <1>2, <1>3, <1>4, <1>5, <1>6, <1>7, <1>8, <1>9, <1>10, <1>11, <1>12, <1>13,
           <1>14, <1>15, <1>16, <1>17, <1>18, <1>19, <1>20, <1>21, <1>22, <1>23 DEF Next, Steps

\* The inductive invariant of the ordered map: whatever the keys and the
\* calls, the tree keeps its shape, its order, its colours and its black
\* heights up to what the place in the call leaves open.
THEOREM TreeKept == ASSUME MapOK PROVE Spec => []TreeInv
<1>1. Init => TreeInv BY TreeInit
<1>2. TreeInv /\ [Next]_vars => TreeInv' BY TreeStep
<1> QED BY <1>1, <1>2, PTL DEF Spec
-----------------------------------------------------------------------------
(* The ancestors of a node. *)

LEMMA Induct ==
    ASSUME NEW S, 0 \in S, \A i \in Nat : i \in S => i + 1 \in S
    PROVE  Nat \subseteq S
<1> DEFINE Below == {p \in Nat \X Nat : p[1] < p[2]}
           out == Nat \ S
<1>1. Below = OpToRel(<, Nat) BY DEF OpToRel
<1>2. IsWellFoundedOn(Below, Nat) BY <1>1, NatLessThanWellFounded
<1> SUFFICES ASSUME out # {} PROVE FALSE OBVIOUS
<1>3. PICK x \in out : \A y \in out : ~ (<<y, x>> \in Below)
  <2>1. out \subseteq Nat OBVIOUS
  <2> HIDE DEF Below, out
  <2> QED BY <1>2, <2>1, WFMin
<1>4. x \in Nat /\ x # 0 /\ x - 1 \in Nat OBVIOUS
<1>5. x - 1 \notin out
  <2>1. <<x - 1, x>> \in Nat \X Nat /\ <<x - 1, x>>[1] = x - 1 /\ <<x - 1, x>>[2] = x
    BY <1>4
  <2>2. <<x - 1, x>> \in Below BY <1>4, <2>1
  <2> QED BY <1>3, <2>2
<1>6. (x - 1) + 1 = x BY <1>4
<1> QED BY <1>3, <1>4, <1>5, <1>6

\* What the ascent from n has met after each step.
Rise(S) == S \cup {t.parent[m] : m \in S \ {None}}
Rises(n, j, f) == f = [i \in 0 .. j |-> IF i = 0 THEN {n} ELSE Rise(f[i - 1])]
Up(n) == CHOOSE f : Rises(n, Cardinality(Keys), f)

LEMMA Rising ==
    ASSUME MapOK, NEW n
    PROVE  /\ Cardinality(Keys) \in Nat /\ Ancestors(n) = Up(n)[Cardinality(Keys)] \ {None}
           /\ Up(n)[0] = {n}
           /\ \A i \in 0 .. Cardinality(Keys) : i + 1 <= Cardinality(Keys)
                => Up(n)[i + 1] = Rise(Up(n)[i])
<1>1. Cardinality(Keys) \in Nat BY FS_CardinalityType DEF MapOK
<1> DEFINE S == {j \in Nat : \E f : Rises(n, j, f)}
<1>2. 0 \in S
  <2>1. Rises(n, 0, [i \in 0 .. 0 |-> {n}]) BY DEF Rises
  <2> QED BY <2>1
<1>3. ASSUME NEW j \in Nat, NEW f, Rises(n, j, f) PROVE \E g : Rises(n, j + 1, g)
  <2> DEFINE g == [i \in 0 .. j + 1 |-> IF i <= j THEN f[i] ELSE Rise(f[j])]
  <2>1. ASSUME NEW i \in 0 .. j PROVE f[i] = IF i = 0 THEN {n} ELSE Rise(f[i - 1])
    BY <1>3, Zenon DEF Rises
  <2>2. ASSUME NEW i \in 0 .. j + 1 PROVE g[i] = IF i = 0 THEN {n} ELSE Rise(g[i - 1])
    <3>1. CASE i = 0 BY <3>1, <2>1
    <3>2. CASE i # 0 /\ i <= j
      <4>1. g[i] = f[i] /\ g[i - 1] = f[i - 1] BY <3>2
      <4> QED BY <4>1, <3>2, <2>1
    <3>3. CASE i = j + 1
      <4>1. g[i] = Rise(f[j]) /\ g[i - 1] = f[j] BY <3>3
      <4> QED BY <4>1, <3>3
    <3> QED BY <3>1, <3>2, <3>3
  <2>3. g = [i \in 0 .. j + 1 |-> g[i]] OBVIOUS
  <2> HIDE DEF g
  <2>4. Rises(n, j + 1, g) BY <2>2, <2>3 DEF Rises
  <2> QED BY <2>4
<1>4. \A j \in Nat : j \in S => j + 1 \in S BY <1>3
<1>5. Cardinality(Keys) \in S
  <2> HIDE DEF S
  <2> QED BY <1>1, <1>2, <1>4, Induct
<1>6. Rises(n, Cardinality(Keys), Up(n)) BY <1>5 DEF Up
<1>7. ASSUME NEW i \in 0 .. Cardinality(Keys)
      PROVE Up(n)[i] = IF i = 0 THEN {n} ELSE Rise(Up(n)[i - 1])
  BY <1>6, Zenon DEF Rises
<1>8. Up(n)[0] = {n} BY <1>1, <1>7
<1>9. ASSUME NEW i \in 0 .. Cardinality(Keys), i + 1 <= Cardinality(Keys)
      PROVE Up(n)[i + 1] = Rise(Up(n)[i])
  <2>1. i + 1 \in 0 .. Cardinality(Keys) /\ i + 1 # 0 /\ (i + 1) - 1 = i BY <1>1, <1>9
  <2> QED BY <2>1, <1>7
<1>10. Ancestors(n) = Up(n)[Cardinality(Keys)] \ {None}
  BY DEF Ancestors, Up, Rises, Rise
<1> QED BY <1>1, <1>8, <1>9, <1>10

LEMMA Ascent ==
    ASSUME MapOK, TreeType(t), NEW n \in Keys
    PROVE  /\ n \in Ancestors(n)
           /\ \A m \in Ancestors(n) : m \in Keys /\ t.parent[m] \in Ancestors(n) \cup {None}
           /\ \A S \in SUBSET Keys :
                 n \in S /\ (\A m \in S : t.parent[m] \in S \cup {None}) => Ancestors(n) \subseteq S
<1>1. PICK up, N : up = Up(n) /\ N = Cardinality(Keys) OBVIOUS
<1>2. N \in Nat /\ Ancestors(n) = up[N] \ {None} /\ up[0] = {n} BY <1>1, Rising
<1>3. \A i \in 0 .. N : i + 1 <= N => up[i + 1] = Rise(up[i]) BY <1>1, Rising
<1>4. n # None /\ None \notin Keys BY DEF MapOK
<1>5. \A m \in Keys : t.parent[m] \in Nil BY DEF TreeType
<1>6. ASSUME NEW S \in SUBSET Keys, n \in S, \A m \in S : t.parent[m] \in S \cup {None}
      PROVE  Ancestors(n) \subseteq S
  <2> DEFINE I == {i \in Nat : i <= N => up[i] \subseteq S \cup {None}}
  <2>1. 0 \in I BY <1>2, <1>6
  <2>2. ASSUME NEW i \in Nat, i \in I PROVE i + 1 \in I
    <3> SUFFICES ASSUME i + 1 <= N PROVE up[i + 1] \subseteq S \cup {None} BY <2>2
    <3>1. i \in 0 .. N BY <1>2
    <3>2. up[i] \subseteq S \cup {None} BY <2>2, <3>1
    <3>3. up[i + 1] = Rise(up[i]) BY <1>3, <3>1
    <3> QED BY <1>6, <3>2, <3>3 DEF Rise
  <2>3. N \in I
    <3> HIDE DEF I
    <3> QED BY <1>2, <2>1, <2>2, Induct
  <2> QED BY <1>2, <2>3
<1>7. IsFiniteSet(Nil) /\ Cardinality(Nil) = N + 1
  BY <1>1, <1>4, FS_AddElement DEF MapOK, Nil
<1> DEFINE Grown(i) == n \in up[i] /\ up[i] \subseteq Nil
                       /\ (Rise(up[i]) = up[i] \/ Cardinality(up[i]) >= i + 1)
           I == {i \in Nat : i <= N => Grown(i)}
<1>8. 0 \in I
  <2>1. Cardinality({n}) = 1 BY FS_Singleton
  <2> QED BY <1>2, <2>1 DEF Nil
<1>9. ASSUME NEW i \in Nat, i \in I PROVE i + 1 \in I
  <2> SUFFICES ASSUME i + 1 <= N PROVE Grown(i + 1) BY <1>9
  <2>1. i \in 0 .. N BY <1>2
  <2>2. PICK U, V : U = up[i] /\ V = up[i + 1] OBVIOUS
  <2>3. /\ V = Rise(U) /\ n \in U /\ U \subseteq Nil
        /\ Rise(U) = U \/ Cardinality(U) >= i + 1
    BY <1>3, <1>9, <2>1, <2>2
  <2>4. U \subseteq V /\ V \subseteq Nil BY <1>5, <2>3 DEF Rise, Nil
  <2>5. ASSUME Rise(U) # U PROVE Cardinality(V) >= (i + 1) + 1
    <3>1. PICK x : x \in V /\ x \notin U BY <2>3, <2>4, <2>5
    <3>2. IsFiniteSet(U) /\ IsFiniteSet(V) BY <1>7, <2>3, <2>4, FS_Subset
    <3>3. Cardinality(U \cup {x}) = Cardinality(U) + 1 BY <3>1, <3>2, FS_AddElement
    <3>4. Cardinality(U \cup {x}) <= Cardinality(V) BY <2>4, <3>1, <3>2, FS_Subset
    <3>5. Cardinality(U) \in Nat /\ Cardinality(V) \in Nat BY <3>2, FS_CardinalityType
    <3> QED BY <2>3, <2>5, <3>3, <3>4, <3>5
  <2>6. Rise(U) = U => Rise(V) = V BY <2>3
  <2> QED BY <2>2, <2>3, <2>4, <2>5, <2>6
<1>10. Grown(N)
  <2>1. N \in I
    <3> HIDE DEF I
    <3> QED BY <1>2, <1>8, <1>9, Induct
  <2> QED BY <1>2, <2>1
<1>11. Rise(up[N]) = up[N]
  <2> SUFFICES ASSUME Cardinality(up[N]) >= N + 1 PROVE Rise(up[N]) = up[N] BY <1>10
  <2>1. PICK U : U = up[N] OBVIOUS
  <2>2. U \subseteq Nil /\ Cardinality(U) >= N + 1 BY <1>10, <2>1
  <2>3. Cardinality(U) <= N + 1 BY <1>7, <2>2, FS_Subset
  <2>4. IsFiniteSet(U) /\ Cardinality(U) \in Nat BY <1>7, <2>2, FS_Subset, FS_CardinalityType
  <2>5. Cardinality(U) = Cardinality(Nil) BY <1>2, <1>7, <2>2, <2>3, <2>4
  <2>6. U = Nil BY <1>7, <2>2, <2>5, FS_Subset
  <2>7. Rise(Nil) = Nil BY <1>5 DEF Rise, Nil
  <2> QED BY <2>1, <2>6, <2>7
<1>12. n \in up[N] /\ up[N] \subseteq Nil BY <1>10
<1>13. ASSUME NEW m \in Ancestors(n)
       PROVE m \in Keys /\ t.parent[m] \in Ancestors(n) \cup {None}
  <2>1. m \in up[N] /\ m # None BY <1>2, <1>13
  <2>2. t.parent[m] \in Rise(up[N]) BY <2>1 DEF Rise
  <2> QED BY <1>2, <1>11, <1>12, <2>1, <2>2 DEF Nil
<1> QED BY <1>2, <1>4, <1>6, <1>12, <1>13

LEMMA Within ==
    ASSUME MapOK, Shape(t), NEW n \in Nodes(t)
    PROVE  /\ n \in Ancestors(n) /\ Ancestors(n) \subseteq Nodes(t)
           /\ t.root \in Ancestors(n) /\ t.root \in Nodes(t) /\ t.parent[t.root] = None
           /\ \A m \in Ancestors(n) : m # t.root => t.parent[m] \in Ancestors(n)
           /\ \A S \in SUBSET Keys :
                 n \in S /\ (\A m \in S : t.parent[m] \in S \cup {None}) => Ancestors(n) \subseteq S
<1>1. n \in Keys /\ Nodes(t) \subseteq Keys /\ TreeType(t) /\ None \notin Keys
  BY Types DEF Shape
<1>2. PICK A : A = Ancestors(n) OBVIOUS
<1>3. /\ n \in A
      /\ \A m \in A : m \in Keys /\ t.parent[m] \in A \cup {None}
      /\ \A S \in SUBSET Keys :
            n \in S /\ (\A m \in S : t.parent[m] \in S \cup {None}) => A \subseteq S
  BY <1>1, <1>2, Ascent
<1>4. \A m \in Nodes(t) : (m = t.root <=> t.parent[m] = None)
                          /\ (m # t.root => t.parent[m] \in Nodes(t))
  BY Parent
<1>5. \A m \in Nodes(t) : t.parent[m] \in Nodes(t) \cup {None} BY <1>4
<1>6. A \subseteq Nodes(t) BY <1>1, <1>3, <1>5
<1>7. \A m \in A : m # t.root => t.parent[m] \in A BY <1>3, <1>4, <1>6
<1>8. t.root \in A
  <2> SUFFICES ASSUME t.root \notin A PROVE FALSE OBVIOUS
  <2>1. A \in SUBSET (Nodes(t) \ {t.root}) /\ A # {} BY <1>3, <1>6
  <2>2. PICK m \in A : t.parent[m] \notin A BY <2>1 DEF Shape, Hang
  <2> QED BY <1>7, <2>2
<1>9. t.root \in Nodes(t) /\ t.parent[t.root] = None BY <1>4, <1>6, <1>8
<1> QED BY <1>2, <1>3, <1>6, <1>7, <1>8, <1>9

LEMMA Closed ==
    ASSUME MapOK, Shape(t), NEW n \in Nodes(t), NEW S, S \subseteq Nodes(t), n \in S,
           \A m \in S : m # t.root => t.parent[m] \in S
    PROVE  Ancestors(n) \subseteq S
<1>1. S \in SUBSET Keys BY Types DEF Shape
<1>2. t.parent[t.root] = None BY Within
<1>3. \A m \in S : t.parent[m] \in S \cup {None} BY <1>2
<1> QED BY <1>1, <1>3, Within

LEMMA Family ==
    ASSUME MapOK, Shape(t), NEW n \in Nodes(t), n # t.root
    PROVE  /\ t.parent[n] \in Nodes(t)
           /\ Ancestors(n) = Ancestors(t.parent[n]) \cup {n} /\ n \notin Ancestors(t.parent[n])
<1>1. PICK p, A, B : p = t.parent[n] /\ A = Ancestors(n) /\ B = Ancestors(p) OBVIOUS
<1>2. p \in Nodes(t) /\ p # None /\ Nodes(t) \subseteq Keys
  BY <1>1, Parent, Types DEF Shape
<1>3. \A m \in Nodes(t) : m # t.root => t.parent[m] \in Nodes(t) BY Parent
<1>4. /\ n \in A /\ A \subseteq Nodes(t) /\ t.parent[t.root] = None
      /\ \A m \in A : m # t.root => t.parent[m] \in A
  BY <1>1, Within
<1>5. /\ p \in B /\ B \subseteq Nodes(t)
      /\ \A m \in B : m # t.root => t.parent[m] \in B
  BY <1>1, <1>2, Within
<1>6. B \subseteq A BY <1>1, <1>2, <1>4, Closed
<1>7. A \subseteq B \cup {n}
  <2>1. PICK S : S = B \cup {n} OBVIOUS
  <2>2. S \subseteq Nodes(t) /\ n \in S /\ \A m \in S : m # t.root => t.parent[m] \in S
    BY <1>1, <1>5, <2>1
  <2>3. A \subseteq S BY <1>1, <2>2, Closed
  <2> QED BY <2>1, <2>3
<1>8. n \notin B
  <2> SUFFICES ASSUME n \in B PROVE FALSE OBVIOUS
  <2> DEFINE C == {m \in A : n \in Ancestors(m)}
  <2>1. ASSUME NEW m \in C PROVE m # t.root /\ t.parent[m] \in C
    <3>1. m \in Nodes(t) /\ m \in A /\ n \in Ancestors(m) BY <1>4
    <3>2. CASE m = n BY <1>1, <1>4, <3>2
    <3>3. CASE m # n
      <4>1. m # t.root
        <5> SUFFICES ASSUME m = t.root PROVE FALSE OBVIOUS
        <5>1. PICK S : S = {m} OBVIOUS
        <5>2. S \subseteq Nodes(t) /\ m \in S /\ \A k \in S : k # t.root => t.parent[k] \in S
          BY <3>1, <5>1
        <5>3. Ancestors(m) \subseteq S BY <3>1, <5>2, Closed
        <5> QED BY <3>1, <3>3, <5>1, <5>3
      <4>2. PICK q, D : q = t.parent[m] /\ D = Ancestors(q) OBVIOUS
      <4>3. q \in Nodes(t) /\ q \in A BY <1>3, <1>4, <3>1, <4>1, <4>2
      <4>4. /\ q \in D /\ D \subseteq Nodes(t)
            /\ \A k \in D : k # t.root => t.parent[k] \in D
        BY <4>2, <4>3, Within
      <4>5. PICK S : S = D \cup {m} OBVIOUS
      <4>6. S \subseteq Nodes(t) /\ m \in S /\ \A k \in S : k # t.root => t.parent[k] \in S
        BY <3>1, <4>2, <4>4, <4>5
      <4>7. Ancestors(m) \subseteq S BY <3>1, <4>6, Closed
      <4> QED BY <3>1, <3>3, <4>1, <4>2, <4>3, <4>5, <4>7
    <3> QED BY <3>2, <3>3
  <2>2. C \in SUBSET (Nodes(t) \ {t.root}) BY <1>4, <2>1
  <2>3. n \in C BY <1>1, <1>4
  <2> HIDE DEF C
  <2>4. PICK m \in C : t.parent[m] \notin C BY <2>2, <2>3 DEF Shape, Hang
  <2> QED BY <2>1, <2>4
<1>9. A = B \cup {n} BY <1>4, <1>6, <1>7
<1> QED BY <1>1, <1>2, <1>8, <1>9

\* What lies under a child is bounded by its parent.
LEMMA Under ==
    ASSUME MapOK, Shape(t), NEW b \in Bounds, NEW waived, Bounded(t, b, waived),
           NEW n \in Keys, n # waived, NEW s \in Sides, t[s][n] # None,
           NEW m \in Nodes(t), t[s][n] \in Ancestors(m)
    PROVE  b[Opposite(s)][m] \in Keys
           /\ (b[Opposite(s)][m] = n \/ Less(s, b[Opposite(s)][m], n))
<1>1. PICK c, o : c = t[s][n] /\ o = Opposite(s) OBVIOUS
<1>2. c \in Nodes(t) /\ n \in Nodes(t) /\ t.parent[c] = n /\ c # t.root BY <1>1, Child
<1>3. o \in Sides /\ o # s /\ Opposite(o) = s /\ (\A x \in Sides : x = s \/ x = o) /\ s \in Sides
  BY <1>1, Opposites
<1>4. None \notin Keys /\ Nodes(t) \subseteq Keys /\ Keys \subseteq Int BY Types DEF Shape, MapOK
<1>5. \A k \in Keys : b[o][k] \in Keys \cup {None} BY <1>3 DEF Bounds, Nil
<1>6. /\ \A k \in Keys : \A x \in Sides : t[x][k] # None =>
            /\ b[x][t[x][k]] = b[x][k]
            /\ b[Opposite(x)][t[x][k]] = IF k = waived THEN b[Opposite(x)][k] ELSE k
      /\ \A k \in Nodes(t) \ {waived} : b[o][k] = None \/ Less(o, b[o][k], k)
  BY <1>3 DEF Bounded, Inside
<1> DEFINE P(k) == b[o][k] \in Keys /\ (b[o][k] = n \/ Less(s, b[o][k], n))
           bad == {k \in Nodes(t) : c \in Ancestors(k) /\ ~ P(k)}
<1>7. P(c) BY <1>1, <1>6
<1>8. ASSUME NEW k \in bad PROVE k # t.root /\ t.parent[k] \in bad
  <2>1. k \in Nodes(t) /\ c \in Ancestors(k) /\ ~ P(k) /\ k # c BY <1>7
  <2>2. k # t.root
    <3> SUFFICES ASSUME k = t.root PROVE FALSE OBVIOUS
    <3>1. PICK S : S = {k} OBVIOUS
    <3>2. S \subseteq Nodes(t) /\ k \in S /\ \A j \in S : j # t.root => t.parent[j] \in S
      BY <2>1, <3>1
    <3>3. Ancestors(k) \subseteq S BY <2>1, <3>2, Closed
    <3> QED BY <2>1, <3>1, <3>3
  <2>3. PICK q : q = t.parent[k] OBVIOUS
  <2>4. q \in Nodes(t) /\ c \in Ancestors(q) BY <2>1, <2>2, <2>3, Family
  <2> SUFFICES ASSUME P(q) PROVE FALSE BY <2>2, <2>3, <2>4
  <2>5. PICK x \in Sides : t[x][q] = k BY <2>1, <2>2, <2>3, Parent
  <2>6. q \in Keys /\ k \in Keys /\ k # None BY <1>4, <2>1, <2>4
  <2>7. CASE x = o
    <3>1. b[o][k] = b[o][q] BY <1>3, <1>6, <2>5, <2>6, <2>7
    <3> QED BY <2>1, <3>1
  <2>8. CASE x = s
    <3>1. b[o][k] = IF q = waived THEN b[o][q] ELSE q BY <1>1, <1>3, <1>6, <2>5, <2>6, <2>8
    <3>2. q # waived => Less(o, b[o][q], q) BY <1>4, <1>6, <2>4
    <3>3. q # waived => Less(s, q, b[o][q]) BY <1>3, <3>2 DEF Less, Sides
    <3>4. PICK v : v = b[o][q] OBVIOUS
    <3>5. v \in Int /\ q \in Int /\ n \in Int /\ (v = n \/ Less(s, v, n)) BY <1>4, <2>6, <3>4
    <3>6. q # waived => Less(s, q, n) BY <3>3, <3>4, <3>5 DEF Less
    <3> QED BY <2>1, <2>6, <3>1, <3>6
  <2> QED BY <1>3, <2>7, <2>8
<1>9. bad = {}
  <2> HIDE DEF bad
  <2>1. bad \subseteq Nodes(t) BY DEF bad
  <2> SUFFICES ASSUME bad # {} PROVE FALSE OBVIOUS
  <2>2. bad \in SUBSET (Nodes(t) \ {t.root}) BY <1>8, <2>1
  <2>3. PICK k \in bad : t.parent[k] \notin bad BY <2>2 DEF Shape, Hang
  <2> QED BY <1>8, <2>3
<1>10. P(m) BY <1>1, <1>9
<1> QED BY <1>1, <1>10

\* ... and so lies to that side of it.
LEMMA UnderSide ==
    ASSUME MapOK, Shape(t), NEW b \in Bounds, NEW waived, Bounded(t, b, waived),
           NEW n \in Keys, n # waived, NEW s \in Sides, t[s][n] # None,
           NEW m \in Nodes(t), m # waived, t[s][n] \in Ancestors(m)
    PROVE  Less(s, m, n)
<1>1. PICK o : o = Opposite(s) OBVIOUS
<1>2. b[o][m] \in Keys /\ (b[o][m] = n \/ Less(s, b[o][m], n)) BY <1>1, Under
<1>3. o \in Sides /\ o # s BY <1>1, Opposites
<1>4. m \in Keys /\ Keys \subseteq Int /\ None \notin Keys BY Types DEF Shape, MapOK
<1>5. Inside(b, m, m) BY DEF Bounded
<1>6. Less(o, b[o][m], m) BY <1>2, <1>3, <1>4, <1>5 DEF Inside
<1>7. PICK v : v = b[o][m] OBVIOUS
<1>8. v \in Int /\ m \in Int /\ n \in Int BY <1>2, <1>4, <1>7
<1> QED BY <1>2, <1>3, <1>6, <1>7, <1>8 DEF Less, Sides

LEMMA LinkedHolds == MapOK /\ TreeInv => Linked
<1> SUFFICES ASSUME MapOK, TreeInv, NEW n \in Nodes(t)
             PROVE  /\ t.root \in Ancestors(n) /\ t.parent[t.root] = None
                    /\ \A s \in {"left", "right"} : t[s][n] # None => t.parent[t[s][n]] = n
                    /\ n # t.root => n \in {t.left[t.parent[n]], t.right[t.parent[n]]}
  BY DEF Linked, InTree, Nodes
<1>1. Shape(t) BY Known
<1>2. t.root \in Ancestors(n) /\ t.parent[t.root] = None BY <1>1, Within
<1>3. n \in Keys BY <1>1, Types DEF Shape
<1>4. ASSUME NEW s \in {"left", "right"}, t[s][n] # None PROVE t.parent[t[s][n]] = n
  BY <1>1, <1>3, <1>4, Child DEF Sides
<1>5. ASSUME n # t.root PROVE n \in {t.left[t.parent[n]], t.right[t.parent[n]]}
  <2>1. PICK s \in Sides : t[s][t.parent[n]] = n BY <1>1, <1>5, Parent
  <2> QED BY <2>1 DEF Sides
<1> QED BY <1>2, <1>4, <1>5

LEMMA OrderedHolds == MapOK /\ TreeInv => Ordered
<1> SUFFICES ASSUME MapOK, TreeInv, NEW m \in Nodes(t) \ {victim}, NEW n \in Ancestors(m) \ {victim}
             PROVE  /\ t.left[n] \in Ancestors(m) => m < n
                    /\ t.right[n] \in Ancestors(m) => m > n
  BY DEF Ordered, InTree, Nodes
<1>1. Shape(t) /\ None \notin Keys BY Known
<1>2. Waived \in {victim, None} BY DEF Waived
<1>3. PICK b \in Bounds : Bounded(t, b, Waived) BY DEF TreeInv, Ordering
<1>4. PICK w : w = Waived OBVIOUS
<1>5. Bounded(t, b, w) /\ w \in {victim, None} BY <1>2, <1>3, <1>4
<1>6. m \in Keys /\ n \in Nodes(t) /\ n \in Keys /\ Ancestors(m) \subseteq Keys /\ Keys \subseteq Int
  <2>1. Ancestors(m) \subseteq Nodes(t) BY <1>1, Within
  <2> QED BY <1>1, <2>1, Types DEF Shape, MapOK
<1>7. m # w /\ n # w BY <1>1, <1>5, <1>6
<1>8. ASSUME NEW s \in Sides, t[s][n] \in Ancestors(m) PROVE Less(s, m, n)
  <2>1. t[s][n] # None BY <1>1, <1>6, <1>8
  <2> QED BY <1>1, <1>5, <1>6, <1>7, <1>8, <2>1, UnderSide
<1>9. t.left[n] \in Ancestors(m) => Less("left", m, n) BY <1>8 DEF Sides
<1>10. t.right[n] \in Ancestors(m) => Less("right", m, n) BY <1>8 DEF Sides
<1> QED BY <1>6, <1>9, <1>10 DEF Less

\* The black nodes above a node and its black height make up the root's.
LEMMA Depth ==
    ASSUME MapOK, Shape(t), NEW bh \in [Keys -> Nat],
           Heights(t, Weight(t, None, None), bh), NEW n \in Nodes(t)
    PROVE  BlackDepth(n) \in Nat
           /\ BlackDepth(n) + bh[n] = bh[t.root] + Weight(t, None, None)[n]
<1>1. PICK w : w = Weight(t, None, None) OBVIOUS
<1>2. Nodes(t) \subseteq Keys /\ None \notin Keys /\ IsFiniteSet(Keys) BY Types DEF Shape, MapOK
<1>3. w \in [Keys -> Nat] /\ \A k \in Keys : w[k] = IF t.color[k] = "black" THEN 1 ELSE 0
  <2>1. \A k \in Keys : w[k] =
            (IF t.color[k] = "black" /\ k # None THEN 1 ELSE 0) + (IF k = None THEN 1 ELSE 0)
    BY <1>1, Weighed
  <2>2. ASSUME NEW k \in Keys PROVE w[k] = IF t.color[k] = "black" THEN 1 ELSE 0
    <3>1. k # None BY <1>2
    <3> QED BY <2>1, <3>1
  <2>3. w \in [Keys -> Nat] BY <1>1, Weighed
  <2> QED BY <2>2, <2>3
<1> DEFINE B(k) == {m \in Ancestors(k) : t.color[m] = "black"}
           P(k) == BlackDepth(k) + bh[k] = bh[t.root] + w[k]
           bad == {k \in Nodes(t) : ~ P(k)}
<1>4. ASSUME NEW k \in Nodes(t) PROVE IsFiniteSet(B(k)) /\ BlackDepth(k) \in Nat
  <2>1. B(k) \subseteq Keys BY <1>2, Within
  <2>2. IsFiniteSet(B(k)) BY <1>2, <2>1, FS_Subset
  <2> QED BY <2>2, FS_CardinalityType DEF BlackDepth
<1>5. t.root \in Nodes(t) BY Within
<1>6. P(t.root)
  <2>1. PICK r, S : r = t.root /\ S = {r} OBVIOUS
  <2>2. S \subseteq Nodes(t) /\ r \in S /\ \A j \in S : j # t.root => t.parent[j] \in S
    BY <1>5, <2>1
  <2>3. Ancestors(r) \subseteq S /\ r \in Ancestors(r) BY <1>5, <2>1, <2>2, Closed, Within
  <2>4. B(r) = IF t.color[r] = "black" THEN {r} ELSE {} BY <2>1, <2>3
  <2>5. Cardinality({r}) = 1 /\ Cardinality({}) = 0 BY FS_Singleton, FS_EmptySet
  <2>6. BlackDepth(r) = w[r] BY <1>2, <1>3, <1>5, <2>1, <2>4, <2>5 DEF BlackDepth
  <2>7. w[r] \in Nat /\ bh[r] \in Nat BY <1>2, <1>3, <1>5, <2>1
  <2> QED BY <2>1, <2>6, <2>7
<1>7. ASSUME NEW k \in bad PROVE k # t.root /\ t.parent[k] \in bad
  <2>1. k \in Nodes(t) /\ k \in Keys /\ k # t.root /\ ~ P(k) BY <1>2, <1>6
  <2>2. PICK q, A : q = t.parent[k] /\ A = Ancestors(q) OBVIOUS
  <2>3. q \in Nodes(t) /\ q \in Keys /\ Ancestors(k) = A \cup {k} /\ k \notin A
    BY <1>2, <2>1, <2>2, Family
  <2> SUFFICES ASSUME P(q) PROVE FALSE BY <2>1, <2>2, <2>3
  <2>4. PICK x \in Sides : t[x][q] = k BY <2>1, <2>2, Parent
  <2>5. bh[q] = bh[k] + w[q]
    <3>1. bh[q] = Height(bh, t[x][q]) + w[q] BY <1>1, <2>3 DEF Heights
    <3> QED BY <1>2, <2>1, <2>4, <3>1 DEF Height
  <2>6. BlackDepth(k) = BlackDepth(q) + w[k]
    <3>1. PICK C : C = B(q) OBVIOUS
    <3>2. k \notin C /\ B(k) = IF t.color[k] = "black" THEN C \cup {k} ELSE C
      BY <2>2, <2>3, <3>1
    <3>3. IsFiniteSet(C) /\ BlackDepth(q) = Cardinality(C) /\ BlackDepth(q) \in Nat
      BY <1>4, <2>3, <3>1 DEF BlackDepth
    <3>4. Cardinality(C \cup {k}) = Cardinality(C) + 1 BY <3>2, <3>3, FS_AddElement
    <3>5. BlackDepth(k) = Cardinality(B(k)) BY DEF BlackDepth
    <3>6. w[k] = IF t.color[k] = "black" THEN 1 ELSE 0 BY <1>3, <2>1
    <3>7. CASE t.color[k] = "black"
      <4>1. BlackDepth(k) = Cardinality(C \cup {k}) BY <3>2, <3>5, <3>7
      <4> QED BY <3>3, <3>4, <3>6, <3>7, <4>1
    <3>8. CASE t.color[k] # "black"
      <4>1. BlackDepth(k) = Cardinality(C) BY <3>2, <3>5, <3>8
      <4> QED BY <3>3, <3>6, <3>8, <4>1
    <3> QED BY <3>7, <3>8
  <2>7. /\ BlackDepth(k) \in Nat /\ BlackDepth(q) \in Nat /\ w[k] \in Nat /\ w[q] \in Nat
        /\ bh[k] \in Nat /\ bh[q] \in Nat /\ bh[t.root] \in Nat
    BY <1>2, <1>3, <1>4, <1>5, <2>1, <2>3
  <2>8. BlackDepth(q) + bh[q] = bh[t.root] + w[q] OBVIOUS
  <2>9. BlackDepth(k) + bh[k] # bh[t.root] + w[k] BY <2>1
  <2> QED BY <2>5, <2>6, <2>7, <2>8, <2>9
<1>8. bad = {}
  <2> HIDE DEF bad
  <2>1. bad \subseteq Nodes(t) BY DEF bad
  <2> SUFFICES ASSUME bad # {} PROVE FALSE OBVIOUS
  <2>2. bad \in SUBSET (Nodes(t) \ {t.root}) BY <1>7, <2>1
  <2>3. PICK k \in bad : t.parent[k] \notin bad BY <2>2 DEF Shape, Hang
  <2> QED BY <1>7, <2>3
<1>9. P(n) BY <1>8
<1> QED BY <1>1, <1>4, <1>9

LEMMA RedBlackHolds == MapOK /\ TreeInv => RedBlack
<1> SUFFICES ASSUME MapOK, TreeInv, pc \in {"idle", "answered"}
             PROVE  /\ NodeColor(t, t.root) = "black"
                    /\ \A n \in InTree \ {t.root} :
                          t.color[n] = "red" => t.color[t.parent[n]] = "black"
                    /\ \A m, n \in Outer : BlackDepth(m) = BlackDepth(n)
                    /\ size = Cardinality(InTree)
  BY DEF RedBlack
<1>1. pc \in Others BY NoVictim
<1>2. /\ Healthy(t, None, None, None, None) /\ size = Cardinality(Nodes(t))
      /\ Shape(t) /\ None \notin Keys
  BY <1>1, Known
<1>3. Nodes(t) = InTree BY DEF Nodes, InTree
<1>4. Coloured(t, None, None) BY <1>2 DEF Healthy
<1>5. NodeColor(t, t.root) = "black" BY <1>4 DEF Coloured, NodeColor
<1>6. ASSUME NEW n \in Nodes(t) \ {t.root}, t.color[n] = "red" PROVE t.color[t.parent[n]] = "black"
  <2>1. n # None /\ t.parent[n] # None BY <1>2, Parent, Types DEF Shape
  <2> QED BY <1>4, <1>6, <2>1 DEF Coloured
<1>7. PICK bh \in [Keys -> Nat] : Heights(t, Weight(t, None, None), bh)
  BY <1>2 DEF Healthy, Even
<1>8. ASSUME NEW n \in Outer PROVE BlackDepth(n) = bh[t.root]
  <2>1. n \in Nodes(t) /\ (t.left[n] = None \/ t.right[n] = None) BY <1>3 DEF Outer
  <2>2. PICK s \in Sides : t[s][n] = None BY <2>1 DEF Sides
  <2>3. PICK w : w = Weight(t, None, None) OBVIOUS
  <2>4. n \in Keys /\ t.root \in Keys /\ w[n] \in Nat /\ bh[n] \in Nat /\ bh[t.root] \in Nat
    <3>1. n \in Keys /\ t.root \in Keys BY <1>2, <2>1, Within, Types DEF Shape
    <3>2. w \in [Keys -> Nat] BY <2>3, Weighed
    <3> QED BY <3>1, <3>2
  <2>5. bh[n] = 0 + w[n]
    <3>1. bh[n] = Height(bh, t[s][n]) + w[n] BY <1>7, <2>1, <2>3 DEF Heights
    <3> QED BY <2>2, <3>1 DEF Height
  <2>6. BlackDepth(n) \in Nat /\ BlackDepth(n) + bh[n] = bh[t.root] + w[n]
    BY <1>2, <1>7, <2>1, <2>3, Depth
  <2> QED BY <2>4, <2>5, <2>6
<1> QED BY <1>2, <1>3, <1>5, <1>6, <1>8

\* Whatever is put and removed, also while a call rebalances, child and
\* parent pointers agree and every node hangs on the root (replaceNode and the
\* rotations).
THEOREM TreeLinked == ASSUME MapOK PROVE Spec => []Linked
<1>1. TreeInv => Linked BY LinkedHolds
<1> QED BY <1>1, TreeKept, PTL

\* No rotation, exchange or unlinking breaks the order the searches of lookup,
\* Ceiling and Floor rely on.
THEOREM TreeOrdered == ASSUME MapOK PROVE Spec => []Ordered
<1>1. TreeInv => Ordered BY OrderedHolds
<1> QED BY <1>1, TreeKept, PTL

\* When a call has returned the tree is a red-black tree and size counts its
\* nodes: insertCase1 to 5 and deleteCase1 to 6 mend what Put and Remove break.
THEOREM TreeRedBlack == ASSUME MapOK PROVE Spec => []RedBlack
<1>1. TreeInv => RedBlack BY RedBlackHolds
<1> QED BY <1>1, TreeKept, PTL

LEMMA ChildAbove ==
    ASSUME MapOK, Shape(t), NEW k \in Nodes(t), NEW p \in Ancestors(k), p # k
    PROVE  \E s \in Sides : t[s][p] # None /\ t[s][p] \in Ancestors(k)
<1>1. PICK A : A = Ancestors(k) OBVIOUS
<1>2. /\ k \in A /\ A \subseteq Nodes(t) /\ t.root \in A
      /\ \A m \in A : m # t.root => t.parent[m] \in A
  BY <1>1, Within
<1>3. None \notin Keys /\ Nodes(t) \subseteq Keys BY Types DEF Shape
<1>4. PICK m \in A : m # t.root /\ t.parent[m] = p
  <2> SUFFICES ASSUME \A m \in A : m # t.root => t.parent[m] # p PROVE FALSE OBVIOUS
  <2>1. PICK S : S = A \ {p} OBVIOUS
  <2>2. S \subseteq Nodes(t) /\ k \in S /\ \A m \in S : m # t.root => t.parent[m] \in S
    BY <1>1, <1>2, <2>1
  <2>3. A \subseteq S BY <1>1, <2>2, Closed
  <2> QED BY <1>1, <2>1, <2>3
<1>5. PICK s \in Sides : t[s][p] = m BY <1>2, <1>4, Parent
<1> QED BY <1>1, <1>2, <1>3, <1>4, <1>5

-----------------------------------------------------------------------------
(* What queries find. *)

\* a is the node nearest to k on that side, None if there is none.
Beside(side, k, a) ==
    /\ a # None => a \in Nodes(t) /\ Less(side, a, k)
    /\ \A x \in Nodes(t) : Less(side, x, k) => a # None /\ (x = a \/ Less(side, x, a))

\* What is bounded as a node is lies under it.
LEMMA Between ==
    ASSUME MapOK, Shape(t), NEW b \in Bounds, Bounded(t, b, None),
           NEW n \in Nodes(t), NEW k \in Nodes(t), Inside(b, n, k)
    PROVE  n \in Ancestors(k)
<1>1. None \notin Keys /\ Nodes(t) \subseteq Keys /\ Keys \subseteq Int BY Types DEF Shape, MapOK
<1> DEFINE bad == {m \in Nodes(t) : Inside(b, m, k) /\ m \notin Ancestors(k)}
<1>2. ASSUME NEW m \in bad PROVE m # t.root /\ t.parent[m] \in bad
  <2>1. m \in Nodes(t) /\ m \in Keys /\ Inside(b, m, k) /\ m \notin Ancestors(k) BY <1>1
  <2>2. m # t.root BY <2>1, Within
  <2>3. PICK p : p = t.parent[m] OBVIOUS
  <2>4. p \in Nodes(t) /\ p \in Keys BY <1>1, <2>1, <2>2, <2>3, Parent
  <2>5. PICK s \in Sides : t[s][p] = m BY <2>1, <2>2, <2>3, Parent
  <2>6. t[s][p] # None /\ k \in Keys BY <1>1, <2>1, <2>5
  <2>7. Inside(b, p, k) /\ p # k /\ Toward(k, p) = s BY <2>1, <2>4, <2>5, <2>6, InsideUp
  <2> SUFFICES ASSUME p \in Ancestors(k) PROVE FALSE BY <2>2, <2>3, <2>4, <2>7
  <2>8. PICK y \in Sides : t[y][p] # None /\ t[y][p] \in Ancestors(k)
    BY <2>4, <2>7, ChildAbove
  <2>9. y = s
    <3>1. Less(y, k, p) BY <1>1, <2>4, <2>8, UnderSide
    <3>2. Less(s, k, p) BY <2>4, <2>6, <2>7, Towards
    <3>3. k \in Int /\ p \in Int BY <1>1, <2>4, <2>6
    <3> QED BY <3>1, <3>2, <3>3 DEF Less, Sides
  <2> QED BY <2>1, <2>5, <2>8, <2>9
<1>3. bad = {}
  <2> HIDE DEF bad
  <2>1. bad \subseteq Nodes(t) BY DEF bad
  <2> SUFFICES ASSUME bad # {} PROVE FALSE OBVIOUS
  <2>2. bad \in SUBSET (Nodes(t) \ {t.root}) BY <1>2, <2>1
  <2>3. PICK m \in bad : t.parent[m] \notin bad BY <2>2 DEF Shape, Hang
  <2> QED BY <1>2, <2>3
<1> QED BY <1>3

LEMMA BoundNodes ==
    ASSUME MapOK, Shape(t), NEW b \in Bounds, Bounded(t, b, None),
           NEW n \in Nodes(t), NEW s \in Sides
    PROVE  b[s][n] \in Nodes(t) \cup {None}
<1>1. None \notin Keys /\ Nodes(t) \subseteq Keys BY Types DEF Shape
<1> DEFINE bad == {m \in Nodes(t) : b[s][m] \notin Nodes(t) \cup {None}}
<1>2. ASSUME NEW m \in bad PROVE m # t.root /\ t.parent[m] \in bad
  <2>1. m \in Nodes(t) /\ m # None /\ b[s][m] \notin Nodes(t) \cup {None} BY <1>1
  <2>2. m # t.root BY <2>1 DEF Bounded
  <2>3. PICK p : p = t.parent[m] OBVIOUS
  <2>4. p \in Nodes(t) /\ p \in Keys /\ p # None BY <1>1, <2>1, <2>2, <2>3, Parent
  <2>5. PICK y \in Sides : t[y][p] = m BY <2>1, <2>2, <2>3, Parent
  <2>6. b[y][m] = b[y][p] /\ b[Opposite(y)][m] = p BY <2>1, <2>4, <2>5, ChildBounds
  <2>7. s = y \/ s = Opposite(y) BY <2>5, Opposites
  <2> QED BY <2>1, <2>2, <2>3, <2>4, <2>6, <2>7
<1>3. bad = {}
  <2> HIDE DEF bad
  <2>1. bad \subseteq Nodes(t) BY DEF bad
  <2> SUFFICES ASSUME bad # {} PROVE FALSE OBVIOUS
  <2>2. bad \in SUBSET (Nodes(t) \ {t.root}) BY <1>2, <2>1
  <2>3. PICK m \in bad : t.parent[m] \notin bad BY <2>2 DEF Shape, Hang
  <2> QED BY <1>2, <2>3
<1> QED BY <1>3

\* Without a child on a side, a node is next to its bound there.
LEMMA Gap ==
    ASSUME MapOK, Shape(t), NEW b \in Bounds, Bounded(t, b, None),
           NEW n \in Nodes(t), NEW s \in Sides, t[s][n] = None
    PROVE  Beside(s, n, b[s][n])
<1>1. None \notin Keys /\ Nodes(t) \subseteq Keys BY Types DEF Shape
<1>2. PICK c, o : c = b[s][n] /\ o = Opposite(s) OBVIOUS
<1>3. c \in Nodes(t) \cup {None} BY <1>2, BoundNodes
<1>4. Inside(b, n, n) /\ n # None BY <1>1 DEF Bounded
<1>5. c # None => Less(s, c, n) BY <1>2, <1>4 DEF Inside
<1>6. o \in Sides /\ o # s /\ \A y \in Sides : y = s \/ y = o BY <1>2, Opposites
<1>7. ASSUME NEW x \in Nodes(t), Less(s, x, n) PROVE c # None /\ (x = c \/ Less(s, x, c))
  <2> SUFFICES ASSUME ~(c # None /\ (x = c \/ Less(s, x, c))) PROVE FALSE OBVIOUS
  <2>1. x \in Keys /\ n \in Keys BY <1>1
  <2>2. c # None => Less(s, c, x)
    <3>1. ASSUME c # None PROVE c \in Keys BY <1>1, <1>3, <3>1
    <3>2. ASSUME c # None PROVE Less(s, c, x) BY <2>1, <3>1, <3>2, Sided
    <3> QED BY <3>2
  <2>3. b[o][n] = None \/ Less(o, b[o][n], x)
    <3> SUFFICES ASSUME b[o][n] # None PROVE Less(o, b[o][n], x) OBVIOUS
    <3>1. PICK d : d = b[o][n] OBVIOUS
    <3>2. d \in Keys /\ Less(o, d, n) BY <1>1, <1>4, <1>6, <3>1, BoundNodes DEF Inside
    <3>3. Less(o, n, x) BY <1>2, <1>7, <2>1, Sided
    <3>4. Less(o, d, x) BY <1>6, <2>1, <3>2, <3>3, Sided
    <3> QED BY <3>1, <3>4
  <2>4. Inside(b, n, x)
    <3>1. b[s][n] = None \/ Less(s, b[s][n], x) BY <1>2, <2>2
    <3> QED BY <1>6, <2>3, <3>1 DEF Inside
  <2>5. n \in Ancestors(x) BY <2>4, Between
  <2>6. x # n BY <1>7, <2>1, Sided
  <2>7. PICK y \in Sides : t[y][n] # None /\ t[y][n] \in Ancestors(x) BY <2>5, <2>6, ChildAbove
  <2>8. Less(y, x, n) BY <1>1, <1>4, <2>1, <2>7, UnderSide
  <2>9. y = o BY <1>6, <2>7
  <2>10. Less(o, n, x) BY <1>2, <1>7, <2>1, Sided
  <2> QED BY <1>6, <2>1, <2>8, <2>9, <2>10, Sided
<1> QED BY <1>2, <1>3, <1>5, <1>7 DEF Beside

\* Where a search ends, its key is not in the tree, and is beside the last
\* node and beside the bound of the last node.
LEMMA Missing ==
    ASSUME MapOK, Shape(t), NEW b \in Bounds, Bounded(t, b, None),
           NEW n \in Nodes(t), NEW s \in Sides, t[s][n] = None,
           NEW k \in Keys, Inside(b, n, k), Less(s, k, n)
    PROVE  k \notin Nodes(t) /\ Beside(s, k, b[s][n]) /\ Beside(Opposite(s), k, n)
<1>1. None \notin Keys /\ Nodes(t) \subseteq Keys /\ n \in Keys BY Types DEF Shape
<1>2. PICK c, o : c = b[s][n] /\ o = Opposite(s) OBVIOUS
<1>3. Beside(s, n, c) BY <1>2, Gap
<1>4. c # None => c \in Nodes(t) /\ c \in Keys /\ Less(s, c, k)
  <2>1. c # None => Less(s, c, k) BY <1>2 DEF Inside
  <2> QED BY <1>1, <1>3, <2>1 DEF Beside
<1>5. o \in Sides BY <1>2, Opposites
<1>6. k \notin Nodes(t)
  <2> SUFFICES ASSUME k \in Nodes(t) PROVE FALSE OBVIOUS
  <2>1. c # None /\ (k = c \/ Less(s, k, c)) BY <1>3 DEF Beside
  <2>2. c \in Keys /\ Less(s, c, k) BY <1>4, <2>1
  <2>3. ~Less(s, k, c) BY <2>2, Sided
  <2>4. k = c => Less(s, k, k) BY <2>2
  <2> QED BY <2>1, <2>3, <2>4, Sided
<1>7. Beside(s, k, c)
  <2>1. ASSUME NEW x \in Nodes(t), Less(s, x, k) PROVE c # None /\ (x = c \/ Less(s, x, c))
    <3>1. x \in Keys BY <1>1
    <3>2. Less(s, x, n) BY <1>1, <2>1, <3>1, Sided
    <3> QED BY <1>3, <3>2 DEF Beside
  <2> QED BY <1>4, <2>1 DEF Beside
<1>8. Beside(o, k, n)
  <2>1. Less(o, n, k) BY <1>1, <1>2, Sided
  <2>2. ASSUME NEW x \in Nodes(t), Less(o, x, k) PROVE x = n \/ Less(o, x, n)
    <3>1. x \in Keys BY <1>1
    <3> SUFFICES ASSUME x # n, ~Less(o, x, n) PROVE FALSE OBVIOUS
    <3>2. Less(s, x, n) BY <1>1, <1>2, <1>5, <3>1, Sided
    <3>3. c # None /\ (x = c \/ Less(s, x, c)) BY <1>3, <3>2 DEF Beside
    <3>4. Less(s, x, k) BY <1>4, <3>1, <3>3, Sided
    <3>5. Less(s, k, x) BY <1>2, <2>2, <3>1, Sided
    <3> QED BY <3>1, <3>4, <3>5, Sided
  <2> QED BY <1>1, <2>1, <2>2 DEF Beside
<1> QED BY <1>2, <1>6, <1>7, <1>8

-----------------------------------------------------------------------------
(* What is true of a query under way. *)

\* A search has lost no key, and the candidate of Ceiling and Floor is the
\* bound on the side they are about.
Seeking(b) ==
    pc = "search" /\ op \in {"get", "ceiling", "floor"} =>
        IF at = None
          THEN arg \notin Nodes(t) /\ (op # "get" => Beside(Opposite(Keeps(op)), arg, best))
          ELSE Inside(b, at, arg) /\ (op # "get" => best = b[Opposite(Keeps(op))][at])

\* On its way down the iterator stays next to where it has started.
Walking(b) ==
    pc = "outermost" =>
        /\ op \in {"first", "last", "next", "prev"} /\ arg \in Keys
        /\ IF at = None
             THEN Nodes(t) = {} /\ op \in {"first", "last"}
             ELSE at \in Nodes(t) /\ b[Near][at] = IF op \in {"first", "last"} THEN None ELSE arg

\* On its way up it comes from a node with the bound of where it has started.
Climbing(b) ==
    pc = "climb" =>
        /\ op \in {"next", "prev"} /\ arg \in Nodes(t) /\ t[Opposite(Near)][arg] = None
        /\ IF at = None
             THEN b[Opposite(Near)][arg] = None
             ELSE /\ at \in Nodes(t)
                  /\ \E s \in Sides :
                        /\ t[s][at] # None /\ Inside(b, t[s][at], arg)
                        /\ b[Opposite(Near)][t[s][at]] = b[Opposite(Near)][arg]

QueryInv ==
    /\ pc = "idle" => best = None
    /\ pc \in {"search", "outermost", "climb"} =>
          \E b \in Bounds : Bounded(t, b, None) /\ Seeking(b) /\ Walking(b) /\ Climbing(b)

LEMMA Inwards ==
    ASSUME MapOK, Shape(t), NEW b \in Bounds, Bounded(t, b, None), NEW n \in Nodes(t),
           NEW k \in Keys, Inside(b, n, k), NEW s \in Sides, Less(s, k, n), t[s][n] # None
    PROVE  Inside(b, t[s][n], k)
<1>1. n \in Keys /\ n # None BY Types DEF Shape
<1>2. b[s][t[s][n]] = b[s][n] /\ b[Opposite(s)][t[s][n]] = n BY <1>1, ChildBounds
<1>3. Less(Opposite(s), n, k) BY <1>1, Sided
<1>4. \A y \in Sides : y = s \/ y = Opposite(s) BY Opposites
<1>5. b[s][n] = None \/ Less(s, b[s][n], k) BY DEF Inside
<1> QED BY <1>2, <1>3, <1>4, <1>5 DEF Inside

LEMMA Nears ==
    /\ Near \in Sides /\ Opposite(Near) \in Sides /\ Opposite(Near) # Near
    /\ Opposite(Opposite(Near)) = Near
    /\ \A o : Keeps(o) \in Sides /\ Opposite(Keeps(o)) \in Sides
              /\ Opposite(Opposite(Keeps(o))) = Keeps(o)
  BY DEF Near, Keeps, Sides, Opposite

\* The root is bounded by nothing.
LEMMA AtRoot ==
    ASSUME MapOK, Shape(t), NEW b \in Bounds, Bounded(t, b, None)
    PROVE  /\ t.root = None => Nodes(t) = {}
           /\ t.root # None => t.root \in Nodes(t) /\ \A s \in Sides : b[s][t.root] = None
           /\ \A k : t.root # None => Inside(b, t.root, k)
<1>1. t.root = None => Nodes(t) = {} BY NoNodes
<1>2. t.root # None => t.root \in Nodes(t) BY Types DEF Shape, Nil
<1>3. t.root # None => \A s \in Sides : b[s][t.root] = None BY DEF Bounded
<1> QED BY <1>1, <1>2, <1>3 DEF Inside

LEMMA QuerySearches ==
    ASSUME MapOK, TreeInv, QueryInv, LookupDescend \/ NearestDescend
    PROVE  QueryInv'
<1>1. /\ pc = "search" /\ op # "put" /\ at # None /\ arg # at /\ at' = t[Turn][at] /\ t' = t
      /\ pc' = "search" /\ op' = op /\ arg' = arg
      /\ op \in {"ceiling", "floor"} => best' = IF Turn = Keeps(op) THEN at ELSE best
  <2>1. CASE LookupDescend BY <2>1 DEF LookupDescend, Searching, calls, Hit
  <2>2. CASE NearestDescend BY <2>2 DEF NearestDescend, Searching, Hit
  <2> QED BY <2>1, <2>2
<1>2. arg \in Keys /\ at \in Nodes(t) /\ at \in Keys /\ Shape(t) /\ None \notin Keys
  <2>1. arg \in Keys /\ at \in Nodes(t) /\ Shape(t) BY <1>1, Searched DEF Healthy
  <2> QED BY <2>1, Types DEF Shape
<1>3. PICK b \in Bounds : Bounded(t, b, None) /\ Seeking(b) BY <1>1 DEF QueryInv
<1>4. PICK s : s = Turn OBVIOUS
<1>5. s = Toward(arg, at) BY <1>4 DEF Turn, Toward
<1>6. s \in Sides /\ Less(s, arg, at) BY <1>1, <1>2, <1>5, Towards
<1>7. at' = t[s][at] BY <1>1, <1>4
<1>8. ASSUME op \in {"get", "ceiling", "floor"}
      PROVE IF t[s][at] = None
              THEN arg \notin Nodes(t) /\ (op # "get" => Beside(Opposite(Keeps(op)), arg, best'))
              ELSE Inside(b, t[s][at], arg) /\ (op # "get" => best' = b[Opposite(Keeps(op))][t[s][at]])
  <2>1. Inside(b, at, arg) /\ (op # "get" => best = b[Opposite(Keeps(op))][at])
    BY <1>1, <1>3, <1>8 DEF Seeking
  <2>2. PICK o, z : o = Opposite(Keeps(op)) /\ z = Keeps(op) OBVIOUS
  <2>3. o \in Sides /\ z \in Sides /\ z = Opposite(o) /\ o = Opposite(z) BY <2>2, Nears
  <2>4. s = o \/ s = z BY <1>6, <2>3, Opposites
  <2>5. op # "get" => best' = IF s = z THEN at ELSE b[o][at] BY <1>1, <1>4, <1>8, <2>1, <2>2
  <2>6. CASE t[s][at] = None
    <3>1. arg \notin Nodes(t) /\ Beside(s, arg, b[s][at]) /\ Beside(Opposite(s), arg, at)
      BY <1>2, <1>3, <1>6, <2>1, <2>6, Missing
    <3>2. op # "get" => Beside(o, arg, best')
      <4>1. CASE s = z BY <2>3, <2>5, <3>1, <4>1
      <4>2. CASE s # z BY <2>4, <2>5, <3>1, <4>2
      <4> QED BY <4>1, <4>2
    <3> QED BY <2>2, <2>6, <3>1, <3>2
  <2>7. CASE t[s][at] # None
    <3>1. Inside(b, t[s][at], arg) BY <1>2, <1>3, <1>6, <2>1, <2>7, Inwards
    <3>2. b[s][t[s][at]] = b[s][at] /\ b[Opposite(s)][t[s][at]] = at
      BY <1>2, <1>3, <1>6, <2>7, ChildBounds
    <3>3. op # "get" => best' = b[o][t[s][at]]
      <4>1. CASE s = z BY <2>3, <2>5, <3>2, <4>1
      <4>2. CASE s # z BY <2>4, <2>5, <3>2, <4>2
      <4> QED BY <4>1, <4>2
    <3> QED BY <2>2, <2>7, <3>1, <3>3
  <2> QED BY <2>6, <2>7
<1>9. Seeking(b)' BY <1>1, <1>7, <1>8 DEF Seeking, Beside
<1>10. Bounded(t', b, None) /\ Walking(b)' /\ Climbing(b)' BY <1>1, <1>3 DEF Walking, Climbing
<1> QED BY <1>1, <1>9, <1>10 DEF QueryInv

LEMMA QueryBegins ==
    ASSUME MapOK, TreeInv, QueryInv, NEW o, NEW k \in Keys, Call(o, k)
    PROVE  QueryInv'
<1>1. /\ pc = "idle" /\ pc' = "search" /\ op' = o /\ arg' = k /\ at' = t.root /\ t' = t
      /\ best' = best /\ best = None
  BY DEF Call, Goes, QueryInv
<1>2. pc \in Others BY <1>1, Places
<1>3. Shape(t) /\ \E b \in Bounds : Bounded(t, b, None) BY <1>2, Known
<1>4. PICK b \in Bounds : Bounded(t, b, None) BY <1>3
<1>5. CASE t.root = None
  <2>1. Nodes(t) = {} BY <1>3, <1>4, <1>5, AtRoot
  <2>2. \A s : Beside(s, k, None) BY <2>1 DEF Beside
  <2>3. Seeking(b)' BY <1>1, <1>5, <2>1, <2>2 DEF Seeking, Beside
  <2> QED BY <1>1, <1>4, <2>3 DEF QueryInv, Walking, Climbing
<1>6. CASE t.root # None
  <2>1. Inside(b, t.root, k) /\ \A s \in Sides : b[s][t.root] = None
    BY <1>3, <1>4, <1>6, AtRoot
  <2>2. b[Opposite(Keeps(o))][t.root] = None BY <2>1, Nears
  <2>3. Seeking(b)' BY <1>1, <1>6, <2>1, <2>2 DEF Seeking
  <2> QED BY <1>1, <1>4, <2>3 DEF QueryInv, Walking, Climbing
<1> QED BY <1>5, <1>6

LEMMA WalkBegins ==
    ASSUME MapOK, TreeInv, QueryInv, NEW k \in Keys, NEW o \in {"first", "last"}, IteratorEnd(o, k)
    PROVE  QueryInv'
<1>1. /\ pc = "idle" /\ pc' = "outermost" /\ op' = o /\ arg' = k /\ at' = t.root /\ t' = t
  BY DEF IteratorEnd, Goes
<1>2. pc \in Others BY <1>1, Places
<1>3. Shape(t) /\ \E b \in Bounds : Bounded(t, b, None) BY <1>2, Known
<1>4. PICK b \in Bounds : Bounded(t, b, None) BY <1>3
<1>5. /\ t.root = None => Nodes(t) = {}
      /\ t.root # None => t.root \in Nodes(t) /\ \A s \in Sides : b[s][t.root] = None
  BY <1>3, <1>4, AtRoot
<1>6. PICK s \in Sides : s = IF o \in {"first", "next"} THEN "left" ELSE "right" BY DEF Sides
<1>7. Near' = s BY <1>1, <1>6 DEF Near
<1>8. Walking(b)' BY <1>1, <1>5, <1>7 DEF Walking
<1> QED BY <1>1, <1>4, <1>8 DEF QueryInv, Seeking, Climbing

LEMMA StepBegins ==
    ASSUME MapOK, TreeInv, QueryInv, NEW n \in Keys, NEW o \in {"next", "prev"}, IteratorStep(o, n)
    PROVE  QueryInv'
<1>1. /\ pc = "idle" /\ n \in Nodes(t) /\ op' = o /\ arg' = n /\ t' = t
  BY DEF IteratorStep, InTree, Nodes
<1>2. pc \in Others BY <1>1, Places
<1>3. Shape(t) /\ None \notin Keys /\ \E b \in Bounds : Bounded(t, b, None) BY <1>2, Known
<1>4. PICK b \in Bounds : Bounded(t, b, None) BY <1>3
<1>5. PICK far, near : far = (IF o = "next" THEN "right" ELSE "left") /\ near = Opposite(far)
  OBVIOUS
<1>6. far \in Sides /\ near \in Sides /\ far = Opposite(near)
  BY <1>5 DEF Sides, Opposite
<1>7. Near' = near BY <1>1, <1>5 DEF Near, Opposite
<1>8. CASE t[far][n] # None
  <2>1. pc' = "outermost" /\ at' = t[far][n] BY <1>5, <1>8 DEF IteratorStep, Goes
  <2>2. b[near][t[far][n]] = n BY <1>3, <1>4, <1>5, <1>6, <1>8, ChildBounds
  <2>3. t[far][n] \in Nodes(t) BY <1>3, <1>6, <1>8, Child
  <2>4. Walking(b)' BY <1>1, <1>7, <1>8, <2>1, <2>2, <2>3 DEF Walking
  <2> QED BY <1>1, <1>4, <2>1, <2>4 DEF QueryInv, Seeking, Climbing
<1>9. CASE t[far][n] = None
  <2>1. pc' = "climb" /\ at' = t.parent[n] BY <1>5, <1>9 DEF IteratorStep, Goes
  <2>2. CASE n = t.root
    <3>1. t.parent[n] = None /\ b[far][n] = None BY <1>1, <1>3, <1>4, <1>6, <2>2, Parent, AtRoot
    <3>2. Climbing(b)' BY <1>1, <1>6, <1>7, <1>9, <2>1, <3>1 DEF Climbing
    <3> QED BY <1>1, <1>4, <2>1, <3>2 DEF QueryInv, Seeking, Walking
  <2>3. CASE n # t.root
    <3>1. PICK p : p = t.parent[n] OBVIOUS
    <3>2. p \in Nodes(t) /\ p # None BY <1>1, <1>3, <2>3, <3>1, Parent, Types DEF Shape
    <3>3. PICK s \in Sides : t[s][p] = n BY <1>1, <1>3, <2>3, <3>1, Parent
    <3>4. Inside(b, n, n) BY <1>1, <1>3, <1>4 DEF Bounded
    <3>5. Climbing(b)' BY <1>1, <1>3, <1>6, <1>7, <1>9, <2>1, <3>1, <3>2, <3>3, <3>4 DEF Climbing
    <3> QED BY <1>1, <1>4, <2>1, <3>5 DEF QueryInv, Seeking, Walking
  <2> QED BY <2>2, <2>3
<1> QED BY <1>8, <1>9

LEMMA QueryWalks ==
    ASSUME MapOK, TreeInv, QueryInv, Outermost, pc' = "outermost"
    PROVE  QueryInv'
<1>1. /\ pc = "outermost" /\ at # None /\ t[Near][at] # None /\ at' = t[Near][at]
      /\ t' = t /\ op' = op /\ arg' = arg /\ Near' = Near
  BY DEF Outermost, Found, Goes, calls, Near
<1>2. pc \in Others BY <1>1, Places
<1>3. Shape(t) BY <1>2, Known
<1>4. PICK b \in Bounds : Bounded(t, b, None) /\ Walking(b) BY <1>1 DEF QueryInv
<1>5. /\ op \in {"first", "last", "next", "prev"} /\ arg \in Keys /\ at \in Nodes(t)
      /\ b[Near][at] = IF op \in {"first", "last"} THEN None ELSE arg
  BY <1>1, <1>4 DEF Walking
<1>6. PICK s \in Sides : s = Near BY Nears
<1>7. at \in Keys BY <1>3, <1>5, Types DEF Shape
<1>8. t[s][at] \in Nodes(t) /\ b[s][t[s][at]] = b[s][at]
  BY <1>1, <1>3, <1>4, <1>6, <1>7, Child, ChildBounds
<1>9. t[s][at] # None /\ at' = t[s][at] /\ b[s][at'] = b[s][at] /\ Near' = s /\ at' \in Nodes(t)
  BY <1>1, <1>6, <1>8
<1>10. Walking(b)' BY <1>1, <1>5, <1>6, <1>9 DEF Walking
<1> QED BY <1>1, <1>4, <1>10 DEF QueryInv, Seeking, Climbing

LEMMA QueryClimbs ==
    ASSUME MapOK, TreeInv, QueryInv, Climb, pc' = "climb"
    PROVE  QueryInv'
<1>1. /\ pc = "climb" /\ at # None /\ (IF op = "next" THEN arg > at ELSE arg < at)
      /\ at' = t.parent[at] /\ t' = t /\ op' = op /\ arg' = arg /\ Near' = Near
  BY DEF Climb, Passed, Found, Goes, calls, Near
<1>2. pc \in Others BY <1>1, Places
<1>3. Shape(t) /\ None \notin Keys BY <1>2, Known
<1>4. PICK b \in Bounds : Bounded(t, b, None) /\ Climbing(b) BY <1>1 DEF QueryInv
<1>5. PICK near, far : near = Near /\ far = Opposite(Near) OBVIOUS
<1>6. near \in Sides /\ far \in Sides /\ far # near /\ near = Opposite(far) BY <1>5, Nears
<1>7. /\ op \in {"next", "prev"} /\ arg \in Nodes(t) /\ t[far][arg] = None /\ at \in Nodes(t)
  BY <1>1, <1>4, <1>5 DEF Climbing
<1>8. PICK s \in Sides :
        t[s][at] # None /\ Inside(b, t[s][at], arg) /\ b[far][t[s][at]] = b[far][arg]
  BY <1>1, <1>4, <1>5 DEF Climbing
<1>9. arg \in Keys /\ at \in Keys BY <1>3, <1>7, Types DEF Shape
<1>10. Inside(b, at, arg) /\ arg # at /\ Toward(arg, at) = s
  BY <1>3, <1>4, <1>8, <1>9, InsideUp
<1>11. s = far
  <2>1. arg \in Int /\ at \in Int BY <1>9 DEF MapOK
  <2>2. far = IF op = "next" THEN "right" ELSE "left" BY <1>5, <1>7 DEF Near, Opposite
  <2> QED BY <1>1, <1>10, <2>1, <2>2 DEF Toward
<1>12. b[far][at] = b[far][arg] BY <1>4, <1>8, <1>9, <1>11, ChildBounds
<1>13. far = Opposite(Near') /\ at' = t.parent[at] BY <1>1, <1>5
<1>14. CASE at = t.root
  <2>1. t.parent[at] = None /\ b[far][at] = None
    BY <1>1, <1>3, <1>4, <1>6, <1>7, <1>14, Parent, AtRoot
  <2>2. Climbing(b)' BY <1>1, <1>7, <1>12, <1>13, <2>1 DEF Climbing
  <2> QED BY <1>1, <1>4, <2>2 DEF QueryInv, Seeking, Walking
<1>15. CASE at # t.root
  <2>1. PICK p : p = t.parent[at] OBVIOUS
  <2>2. p \in Nodes(t) /\ p # None BY <1>3, <1>7, <1>15, <2>1, Parent, Types DEF Shape
  <2>3. PICK y \in Sides : t[y][p] = at BY <1>3, <1>7, <1>15, <2>1, Parent
  <2>4. Climbing(b)' BY <1>1, <1>7, <1>10, <1>12, <1>13, <2>1, <2>2, <2>3 DEF Climbing
  <2> QED BY <1>1, <1>4, <2>4 DEF QueryInv, Seeking, Walking
<1> QED BY <1>14, <1>15

LEMMA QueryStep == MapOK /\ TreeInv /\ QueryInv /\ [Next]_vars => QueryInv'
<1> SUFFICES ASSUME MapOK, TreeInv, QueryInv, [Next]_vars PROVE QueryInv' OBVIOUS
<1>1. ASSUME pc' \notin {"idle", "search", "outermost", "climb"} PROVE QueryInv'
  BY <1>1 DEF QueryInv
<1>2. ASSUME Return PROVE QueryInv' BY <1>2 DEF Return, QueryInv
<1>3. CASE UNCHANGED vars
  BY <1>3 DEF vars, calls, QueryInv, Seeking, Walking, Climbing, Beside, Near
<1>4. CASE LookupDescend \/ NearestDescend BY <1>4, QuerySearches
<1>5. CASE \/ PutFound \/ Answered \/ RemoveMissed \/ RemoveUnlink
           \/ InsertCase1 \/ InsertCase2 \/ InsertCase5
  <2>1. Return \/ pc' \in {"insert2", "insert3"}
    BY <1>5 DEF PutFound, Answered, RemoveMissed, RemoveUnlink, InsertCase1, InsertCase2,
                InsertCase5, PutReturns, Goes
  <2> QED BY <1>1, <1>2, <2>1
<1>6. CASE PutLink \/ InsertCase3 \/ InsertCase4 \/ GetFound \/ NearestFound
  <2>1. pc' \notin {"idle", "search", "outermost", "climb"}
    BY <1>6 DEF PutLink, InsertCase3, InsertCase4, GetFound, NearestFound, Found, Goes
  <2> QED BY <1>1, <2>1
<1>14. CASE \/ RemoveFound \/ RemovePred \/ RemoveColor
           \/ DeleteCase1 \/ DeleteCase2 \/ DeleteCase3 \/ DeleteCase4 \/ DeleteCase5 \/ DeleteCase6
  <2>1. pc' \notin {"idle", "search", "outermost", "climb"}
    BY <1>14 DEF RemoveFound, RemovePred, RemoveColor, DeleteCase1, DeleteCase2, DeleteCase3,
                DeleteCase4, DeleteCase5, DeleteCase6, Goes
  <2> QED BY <1>1, <2>1
<1>7. CASE PutDescend
  <2>1. pc = "search" /\ pc' = "search" /\ op' = "put" /\ t' = t
    BY <1>7 DEF PutDescend, Searching, calls
  <2>2. pc \in Others BY <2>1, Places
  <2>3. PICK b \in Bounds : Bounded(t, b, None) BY <2>2, Known
  <2> QED BY <2>1, <2>3 DEF QueryInv, Seeking, Walking, Climbing
<1>8. CASE Outermost
  <2>1. pc' = "outermost" \/ pc' = "answered" BY <1>8 DEF Outermost, Found, Goes
  <2> QED BY <1>1, <1>8, <2>1, QueryWalks
<1>9. CASE Climb
  <2>1. pc' = "climb" \/ pc' = "answered" BY <1>9 DEF Climb, Found, Goes
  <2> QED BY <1>1, <1>9, <2>1, QueryClimbs
<1>10. CASE Clear
  <2>1. pc' = "idle" /\ best' = None BY <1>10 DEF Clear, calls, QueryInv
  <2> QED BY <2>1 DEF QueryInv
<1>11. ASSUME NEW k \in Keys, NEW o, Call(o, k) PROVE QueryInv' BY <1>11, QueryBegins
<1>12. ASSUME NEW k \in Keys, NEW o \in {"first", "last"}, IteratorEnd(o, k) PROVE QueryInv'
  BY <1>12, WalkBegins
<1>13. ASSUME NEW k \in Keys, NEW o \in {"next", "prev"}, IteratorStep(o, k) PROVE QueryInv'
  BY <1>13, StepBegins
<1> QED BY <1>3, <1>4, <1>5, <1>6, <1>7, <1>8, <1>9, <1>10, <1>11, <1>12, <1>13, <1>14
        DEF Next, Steps

-----------------------------------------------------------------------------
(* The map is a set of keys. *)

LEMMA LeastIs ==
    ASSUME NEW S, S \subseteq Int
    PROVE  /\ S = {} => Abstract!Least(S) = None /\ Abstract!Greatest(S) = None
           /\ \A a \in S : (\A y \in S : a <= y) => Abstract!Least(S) = a
           /\ \A a \in S : (\A y \in S : a >= y) => Abstract!Greatest(S) = a
<1>1. S = {} => Abstract!Least(S) = None /\ Abstract!Greatest(S) = None
  BY DEF Abstract!Least, Abstract!Greatest
<1>2. ASSUME NEW a \in S, \A y \in S : a <= y PROVE Abstract!Least(S) = a
  <2>1. PICK x : x = CHOOSE z \in S : \A y \in S : z <= y OBVIOUS
  <2>2. x \in S /\ \A y \in S : x <= y BY <1>2, <2>1
  <2>3. x <= a /\ a <= x /\ x \in Int /\ a \in Int BY <1>2, <2>2
  <2> QED BY <2>1, <2>3 DEF Abstract!Least
<1>3. ASSUME NEW a \in S, \A y \in S : a >= y PROVE Abstract!Greatest(S) = a
  <2>1. PICK x : x = CHOOSE z \in S : \A y \in S : z >= y OBVIOUS
  <2>2. x \in S /\ \A y \in S : x >= y BY <1>3, <2>1
  <2>3. x >= a /\ a >= x /\ x \in Int /\ a \in Int BY <1>3, <2>2
  <2> QED BY <2>1, <2>3 DEF Abstract!Greatest
<1> QED BY <1>1, <1>2, <1>3

\* The nearest key on a side is what the set answers.
LEMMA BesideIs ==
    ASSUME MapOK, Shape(t), NEW k \in Keys, NEW a
    PROVE  /\ Beside("right", k, a) => Abstract!Least({x \in Nodes(t) : x > k}) = a
           /\ Beside("left", k, a) => Abstract!Greatest({x \in Nodes(t) : x < k}) = a
<1>1. Nodes(t) \subseteq Int /\ k \in Int BY Types DEF Shape, MapOK
<1>2. ASSUME Beside("right", k, a) PROVE Abstract!Least({x \in Nodes(t) : x > k}) = a
  <2>1. PICK S : S = {x \in Nodes(t) : x > k} OBVIOUS
  <2>2. S \subseteq Int BY <1>1, <2>1
  <2>3. CASE a = None
    <3>1. S = {} BY <1>1, <1>2, <2>1, <2>3 DEF Beside, Less
    <3> QED BY <2>1, <2>2, <2>3, <3>1, LeastIs
  <2>4. CASE a # None
    <3>1. a \in S /\ \A y \in S : a <= y BY <1>1, <1>2, <2>1, <2>4 DEF Beside, Less
    <3> QED BY <2>1, <2>2, <3>1, LeastIs
  <2> QED BY <2>3, <2>4
<1>3. ASSUME Beside("left", k, a) PROVE Abstract!Greatest({x \in Nodes(t) : x < k}) = a
  <2>1. PICK S : S = {x \in Nodes(t) : x < k} OBVIOUS
  <2>2. S \subseteq Int BY <1>1, <2>1
  <2>3. CASE a = None
    <3>1. S = {} BY <1>1, <1>3, <2>1, <2>3 DEF Beside, Less
    <3> QED BY <2>1, <2>2, <2>3, <3>1, LeastIs
  <2>4. CASE a # None
    <3>1. a \in S /\ \A y \in S : a >= y BY <1>1, <1>3, <2>1, <2>4 DEF Beside, Less
    <3> QED BY <2>1, <2>2, <3>1, LeastIs
  <2> QED BY <2>3, <2>4
<1> QED BY <1>2, <1>3

\* n is what the set answers to the call.
Right(n) ==
    \/ op = "get" /\ n = Abstract!Least(Nodes(t) \cap {arg})
    \/ op = "ceiling" /\ n = Abstract!Least({x \in Nodes(t) : x >= arg})
    \/ op = "floor" /\ n = Abstract!Greatest({x \in Nodes(t) : x <= arg})
    \/ op = "first" /\ n = Abstract!Least(Nodes(t))
    \/ op = "last" /\ n = Abstract!Greatest(Nodes(t))
    \/ op = "next" /\ n = Abstract!Least({x \in Nodes(t) : x > arg})
    \/ op = "prev" /\ n = Abstract!Greatest({x \in Nodes(t) : x < arg})

LEMMA SearchAnswers ==
    ASSUME MapOK, TreeInv, QueryInv, GetFound \/ NearestFound
    PROVE  arg \in Keys /\ \E n : Found(n) /\ Right(n)
<1>1. /\ pc = "search" /\ op \in {"get", "ceiling", "floor"} /\ (at = None \/ arg = at)
      /\ Found(IF at = None /\ op # "get" THEN best ELSE at)
  BY DEF GetFound, NearestFound, Searching, Hit
<1>2. arg \in Keys /\ at \in Nodes(t) \cup {None} /\ Shape(t) BY <1>1, Searched DEF Healthy
<1>3. PICK b \in Bounds : Seeking(b) BY <1>1 DEF QueryInv
<1>4. Nodes(t) \subseteq Int /\ arg \in Int /\ None \notin Nodes(t)
  BY <1>2, Types DEF Shape, MapOK
<1>5. CASE at # None
  <2>1. arg = at /\ arg \in Nodes(t) BY <1>1, <1>2, <1>5
  <2>2. Abstract!Least(Nodes(t) \cap {arg}) = arg
    <3>1. PICK S : S = Nodes(t) \cap {arg} OBVIOUS
    <3>2. S \subseteq Int /\ arg \in S /\ \A y \in S : arg <= y BY <1>4, <2>1, <3>1
    <3> QED BY <3>1, <3>2, LeastIs
  <2>3. Abstract!Least({x \in Nodes(t) : x >= arg}) = arg
    <3>1. PICK S : S = {x \in Nodes(t) : x >= arg} OBVIOUS
    <3>2. S \subseteq Int /\ arg \in S /\ \A y \in S : arg <= y BY <1>4, <2>1, <3>1
    <3> QED BY <3>1, <3>2, LeastIs
  <2>4. Abstract!Greatest({x \in Nodes(t) : x <= arg}) = arg
    <3>1. PICK S : S = {x \in Nodes(t) : x <= arg} OBVIOUS
    <3>2. S \subseteq Int /\ arg \in S /\ \A y \in S : arg >= y BY <1>4, <2>1, <3>1
    <3> QED BY <3>1, <3>2, LeastIs
  <2>5. Found(at) /\ Right(at) BY <1>1, <1>5, <2>1, <2>2, <2>3, <2>4 DEF Right
  <2> QED BY <1>2, <2>5
<1>6. CASE at = None
  <2>1. arg \notin Nodes(t) /\ (op # "get" => Beside(Opposite(Keeps(op)), arg, best))
    BY <1>1, <1>3, <1>6 DEF Seeking
  <2>2. CASE op = "get"
    <3>1. Nodes(t) \cap {arg} = {} BY <2>1
    <3>2. Abstract!Least(Nodes(t) \cap {arg}) = None BY <3>1, LeastIs
    <3> QED BY <1>1, <1>2, <1>6, <2>2, <3>2 DEF Right
  <2>3. CASE op = "ceiling"
    <3>1. Beside("right", arg, best) BY <2>1, <2>3 DEF Keeps, Opposite
    <3>2. Abstract!Least({x \in Nodes(t) : x > arg}) = best BY <1>2, <3>1, BesideIs
    <3>3. {x \in Nodes(t) : x >= arg} = {x \in Nodes(t) : x > arg} BY <1>4, <2>1
    <3> QED BY <1>1, <1>2, <1>6, <2>3, <3>2, <3>3 DEF Right
  <2>4. CASE op = "floor"
    <3>1. Beside("left", arg, best) BY <2>1, <2>4 DEF Keeps, Opposite
    <3>2. Abstract!Greatest({x \in Nodes(t) : x < arg}) = best BY <1>2, <3>1, BesideIs
    <3>3. {x \in Nodes(t) : x <= arg} = {x \in Nodes(t) : x < arg} BY <1>4, <2>1
    <3> QED BY <1>1, <1>2, <1>6, <2>4, <3>2, <3>3 DEF Right
  <2> QED BY <1>1, <2>2, <2>3, <2>4
<1> QED BY <1>5, <1>6

LEMMA WalkAnswers ==
    ASSUME MapOK, TreeInv, QueryInv, Outermost, pc' # "outermost"
    PROVE  arg \in Keys /\ \E n : Found(n) /\ Right(n)
<1>1. pc = "outermost" /\ Found(at) /\ (at = None \/ t[Near][at] = None) BY DEF Outermost
<1>2. pc \in Others BY <1>1, Places
<1>3. Shape(t) BY <1>2, Known
<1>4. PICK b \in Bounds : Bounded(t, b, None) /\ Walking(b) BY <1>1 DEF QueryInv
<1>5. op \in {"first", "last", "next", "prev"} /\ arg \in Keys BY <1>1, <1>4 DEF Walking
<1>6. Nodes(t) \subseteq Int /\ arg \in Int /\ None \notin Nodes(t)
  BY <1>3, <1>5, Types DEF Shape, MapOK
<1>7. CASE at = None
  <2>1. Nodes(t) = {} /\ op \in {"first", "last"} BY <1>1, <1>4, <1>7 DEF Walking
  <2>2. Abstract!Least(Nodes(t)) = None /\ Abstract!Greatest(Nodes(t)) = None
    BY <1>6, <2>1, LeastIs
  <2> QED BY <1>1, <1>5, <1>7, <2>1, <2>2 DEF Right
<1>8. CASE at # None
  <2>1. PICK s : s = Near OBVIOUS
  <2>2. s \in Sides /\ t[s][at] = None BY <1>1, <1>8, <2>1, Nears
  <2>3. at \in Nodes(t) /\ b[s][at] = IF op \in {"first", "last"} THEN None ELSE arg
    BY <1>1, <1>4, <1>8, <2>1 DEF Walking
  <2>4. Beside(s, at, b[s][at]) BY <1>3, <1>4, <2>2, <2>3, Gap
  <2>5. s = IF op \in {"first", "next"} THEN "left" ELSE "right" BY <2>1 DEF Near
  <2>6. at \in Int BY <1>6, <2>3
  <2>7. CASE op = "first"
    <3>1. Beside("left", at, None) BY <2>3, <2>4, <2>5, <2>7
    <3>2. \A y \in Nodes(t) : at <= y BY <1>6, <2>6, <3>1 DEF Beside, Less
    <3>3. Abstract!Least(Nodes(t)) = at BY <1>6, <2>3, <3>2, LeastIs
    <3> QED BY <1>1, <1>5, <2>7, <3>3 DEF Right
  <2>8. CASE op = "last"
    <3>1. Beside("right", at, None) BY <2>3, <2>4, <2>5, <2>8
    <3>2. \A y \in Nodes(t) : at >= y BY <1>6, <2>6, <3>1 DEF Beside, Less
    <3>3. Abstract!Greatest(Nodes(t)) = at BY <1>6, <2>3, <3>2, LeastIs
    <3> QED BY <1>1, <1>5, <2>8, <3>3 DEF Right
  <2>9. CASE op = "next"
    <3>1. Beside("left", at, arg) BY <2>3, <2>4, <2>5, <2>9
    <3>2. arg < at /\ \A y \in Nodes(t) : y < at => y = arg \/ y < arg
      BY <1>5, <3>1 DEF Beside, Less, MapOK
    <3>3. PICK S : S = {x \in Nodes(t) : x > arg} OBVIOUS
    <3>4. S \subseteq Int /\ at \in S /\ \A y \in S : at <= y BY <1>6, <2>3, <2>6, <3>2, <3>3
    <3>5. Abstract!Least(S) = at BY <3>4, LeastIs
    <3> QED BY <1>1, <1>5, <2>9, <3>3, <3>5 DEF Right
  <2>10. CASE op = "prev"
    <3>1. Beside("right", at, arg) BY <2>3, <2>4, <2>5, <2>10
    <3>2. at < arg /\ \A y \in Nodes(t) : at < y => y = arg \/ arg < y
      BY <1>5, <3>1 DEF Beside, Less, MapOK
    <3>3. PICK S : S = {x \in Nodes(t) : x < arg} OBVIOUS
    <3>4. S \subseteq Int /\ at \in S /\ \A y \in S : at >= y BY <1>6, <2>3, <2>6, <3>2, <3>3
    <3>5. Abstract!Greatest(S) = at BY <3>4, LeastIs
    <3> QED BY <1>1, <1>5, <2>10, <3>3, <3>5 DEF Right
  <2> QED BY <1>5, <2>7, <2>8, <2>9, <2>10
<1> QED BY <1>7, <1>8

LEMMA ClimbAnswers ==
    ASSUME MapOK, TreeInv, QueryInv, Climb, pc' # "climb"
    PROVE  arg \in Keys /\ \E n : Found(n) /\ Right(n)
<1>1. pc = "climb" /\ Found(at) /\ ~Passed BY DEF Climb
<1>2. pc \in Others BY <1>1, Places
<1>3. Shape(t) /\ None \notin Keys BY <1>2, Known
<1>4. PICK b \in Bounds : Bounded(t, b, None) /\ Climbing(b) BY <1>1 DEF QueryInv
<1>5. PICK near, far : near = Near /\ far = Opposite(Near) OBVIOUS
<1>6. near \in Sides /\ far \in Sides /\ far # near /\ far = Opposite(near) BY <1>5, Nears
<1>7. op \in {"next", "prev"} /\ arg \in Nodes(t) /\ t[far][arg] = None
  BY <1>1, <1>4, <1>5 DEF Climbing
<1>8. arg \in Keys BY <1>3, <1>7, Types DEF Shape
<1>9. at = b[far][arg]
  <2>1. CASE at = None BY <1>1, <1>4, <1>5, <2>1 DEF Climbing
  <2>2. CASE at # None
    <3>1. PICK s \in Sides :
            t[s][at] # None /\ Inside(b, t[s][at], arg) /\ b[far][t[s][at]] = b[far][arg]
      BY <1>1, <1>4, <1>5, <2>2 DEF Climbing
    <3>2. at \in Keys
      <4>1. at \in Nodes(t) BY <1>1, <1>4, <2>2 DEF Climbing
      <4> QED BY <1>3, <4>1, Types DEF Shape
    <3>3. arg # at /\ Toward(arg, at) = s BY <1>3, <1>4, <1>8, <3>1, <3>2, InsideUp
    <3>4. s = near
      <4>1. arg \in Int /\ at \in Int BY <1>8, <3>2 DEF MapOK
      <4>2. ~(IF op = "next" THEN arg > at ELSE arg < at) BY <1>1, <2>2 DEF Passed
      <4>3. near = IF op = "next" THEN "left" ELSE "right" BY <1>5, <1>7 DEF Near
      <4> QED BY <3>3, <4>1, <4>2, <4>3 DEF Toward
    <3>5. b[far][t[s][at]] = at BY <1>3, <1>4, <1>6, <3>1, <3>2, <3>4, ChildBounds
    <3> QED BY <3>1, <3>5
  <2> QED BY <2>1, <2>2
<1>10. Beside(far, arg, at) BY <1>3, <1>4, <1>6, <1>7, <1>9, Gap
<1>11. far = IF op = "next" THEN "right" ELSE "left" BY <1>5, <1>7 DEF Near, Opposite
<1>12. Right(at) BY <1>3, <1>7, <1>8, <1>10, <1>11, BesideIs DEF Right
<1> QED BY <1>1, <1>8, <1>12

\* A query that has found its key answers as the set would.
LEMMA Replies ==
    ASSUME Nodes(t') = Nodes(t), NEW n, Found(n), Right(n)
    PROVE  Abstract!Answer(arg)
<1>1. pc' = "answered" /\ op' = op /\ arg' = arg /\ answer' = n BY DEF Found, Goes
<1>2. InTree = Nodes(t) /\ InTree' = Nodes(t') BY DEF InTree, Nodes
<1>3. op \in DOMAIN Abstract!Answers(arg) /\ Abstract!Answers(arg)[op] = n
  BY <1>2 DEF Right, Abstract!Answers
<1> QED BY <1>1, <1>2, <1>3 DEF Abstract!Answer

LEMMA SetInit == MapOK /\ Init => QueryInv /\ Abstract!Init
<1> SUFFICES ASSUME MapOK, Init PROVE QueryInv /\ Abstract!Init OBVIOUS
<1>1. pc = "idle" /\ best = None BY DEF Init
<1>2. Nodes(t) = {} /\ InTree = Nodes(t) BY NewTree DEF Init, InTree, Nodes
<1> QED BY <1>1, <1>2 DEF QueryInv, Abstract!Init

Reply == IF pc = "answered" THEN [op |-> op, arg |-> arg, key |-> answer] ELSE None

LEMMA SetStep ==
    MapOK /\ TreeInv /\ QueryInv /\ [Next]_vars => [Abstract!Next]_<<InTree, Reply>>
<1> SUFFICES ASSUME MapOK, TreeInv, QueryInv, [Next]_vars
             PROVE  [Abstract!Next]_<<InTree, Reply>>
  OBVIOUS
<1>1. InTree = Nodes(t) /\ InTree' = Nodes(t') BY DEF InTree, Nodes
<1>2. ASSUME Nodes(t') = Nodes(t), pc # "answered", pc' # "answered"
      PROVE  UNCHANGED <<InTree, Reply>>
  BY <1>1, <1>2 DEF Reply
<1>3. CASE UNCHANGED vars BY <1>1, <1>3 DEF vars, calls, Reply
<1>4. CASE \/ PutDescend \/ LookupDescend \/ NearestDescend \/ PutFound \/ RemoveMissed
           \/ RemoveFound
  <2>1. t' = t /\ pc # "answered" /\ pc' # "answered"
    BY <1>4 DEF PutDescend, LookupDescend, NearestDescend, PutFound, RemoveMissed, RemoveFound,
                Searching, Return, Goes, calls
  <2> QED BY <1>2, <2>1
<1>5. CASE \/ InsertCase1 \/ InsertCase2 \/ InsertCase3 \/ InsertCase4 \/ InsertCase5
           \/ RemovePred \/ RemoveColor
           \/ DeleteCase1 \/ DeleteCase2 \/ DeleteCase3 \/ DeleteCase4 \/ DeleteCase5 \/ DeleteCase6
  <2>1. Nodes(t') = Nodes(t)
    BY <1>5, Insert1, Insert2, Insert3, Insert4, Insert5, Preds, Colors,
       Delete1, Delete2, Delete3, Delete4, Delete5, Delete6
  <2>2. pc # "answered"
    BY <1>5 DEF InsertCase1, InsertCase2, InsertCase3, InsertCase4, InsertCase5, RemovePred,
                RemoveColor, DeleteCase1, DeleteCase2, DeleteCase3, DeleteCase4, DeleteCase5,
                DeleteCase6
  <2>3. CASE InsertCase1 \/ InsertCase2 \/ InsertCase3 \/ InsertCase4 \/ InsertCase5
    <3>1. pc' # "answered"
      BY <2>3 DEF InsertCase1, InsertCase2, InsertCase3, InsertCase4, InsertCase5, PutReturns,
                  Return, Goes
    <3> QED BY <1>2, <2>1, <2>2, <3>1
  <2>4. CASE RemovePred \/ RemoveColor
    <3>1. pc' # "answered" BY <2>2, <2>4 DEF RemovePred, RemoveColor, Goes
    <3> QED BY <1>2, <2>1, <2>2, <3>1
  <2>5. CASE \/ DeleteCase1 \/ DeleteCase2 \/ DeleteCase3 \/ DeleteCase4 \/ DeleteCase5
             \/ DeleteCase6
    <3>1. pc' # "answered"
      BY <2>5 DEF DeleteCase1, DeleteCase2, DeleteCase3, DeleteCase4, DeleteCase5, DeleteCase6,
                  Goes
    <3> QED BY <1>2, <2>1, <2>2, <3>1
  <2> QED BY <1>5, <2>3, <2>4, <2>5
<1>6. CASE PutLink
  <2>1. Nodes(t') = Nodes(t) \cup {arg} BY <1>6, Links
  <2>2. pc = "search" /\ pc' = "insert1"
    <3>1. pc = "search" BY <1>6 DEF PutLink, Searching
    <3>2. pc' = "insert1" BY <1>6 DEF PutLink, Goes
    <3> QED BY <3>1, <3>2
  <2>3. arg \in Keys BY <2>2, Searched
  <2>4. Reply' = Reply BY <2>2 DEF Reply
  <2>5. Abstract!Put(arg) BY <1>1, <2>1, <2>4 DEF Abstract!Put, Reply
  <2> QED BY <2>3, <2>5 DEF Abstract!Next
<1>7. CASE RemoveUnlink
  <2>1. Nodes(t') = Nodes(t) \ {victim} BY <1>7, Unlinking
  <2>2. pc = "unlink2" /\ pc' = "idle" BY <1>7 DEF RemoveUnlink, Return
  <2>3. victim \in Keys
    <3>1. victim \in Nodes(t) BY <2>2, Known DEF Deleted
    <3> QED BY <3>1, Known, Types
  <2>4. Reply' = Reply BY <2>2 DEF Reply
  <2>5. Abstract!Remove(victim) BY <1>1, <2>1, <2>4 DEF Abstract!Remove, Reply
  <2> QED BY <2>3, <2>5 DEF Abstract!Next
<1>8. CASE Clear
  <2>1. Nodes(t') = {} /\ pc = "idle" /\ pc' = "idle" BY <1>8, NewTree DEF Clear
  <2>2. Reply' = Reply BY <2>1 DEF Reply
  <2>3. Abstract!Clear BY <1>1, <2>1, <2>2 DEF Abstract!Clear, Reply
  <2> QED BY <2>3 DEF Abstract!Next
<1>9. CASE Answered
  <2>1. t' = t /\ pc' = "idle" BY <1>9 DEF Answered, Return
  <2>2. Abstract!Forget BY <1>1, <2>1 DEF Abstract!Forget
  <2> QED BY <2>2 DEF Abstract!Next
<1>10. ASSUME arg \in Keys, NEW n, Found(n), Right(n) PROVE Abstract!Next
  <2>1. Nodes(t') = Nodes(t) BY <1>10 DEF Found
  <2>2. Abstract!Answer(arg) BY <1>10, <2>1, Replies
  <2> QED BY <1>10, <2>2 DEF Abstract!Next
<1>11. CASE GetFound \/ NearestFound BY <1>10, <1>11, SearchAnswers
<1>12. CASE Outermost
  <2>1. CASE pc' = "outermost"
    <3>1. t' = t /\ pc = "outermost" BY <1>12, <2>1 DEF Outermost, Found, Goes
    <3> QED BY <1>2, <2>1, <3>1
  <2>2. CASE pc' # "outermost" BY <1>10, <1>12, <2>2, WalkAnswers
  <2> QED BY <2>1, <2>2
<1>13. CASE Climb
  <2>1. CASE pc' = "climb"
    <3>1. t' = t /\ pc = "climb" BY <1>13, <2>1 DEF Climb, Found, Goes
    <3> QED BY <1>2, <2>1, <3>1
  <2>2. CASE pc' # "climb" BY <1>10, <1>13, <2>2, ClimbAnswers
  <2> QED BY <2>1, <2>2
<1>14. CASE \E k \in Keys :
              \/ \E o \in {"put", "remove", "get", "ceiling", "floor"} : Call(o, k)
              \/ \E o \in {"first", "last"} : IteratorEnd(o, k)
              \/ \E o \in {"next", "prev"} : IteratorStep(o, k)
  <2>1. t' = t /\ pc = "idle" /\ pc' \in {"search", "outermost", "climb"}
    BY <1>14 DEF Call, IteratorEnd, IteratorStep, Goes
  <2> QED BY <1>2, <2>1
<1> QED BY <1>3, <1>4, <1>5, <1>6, <1>7, <1>8, <1>9, <1>11, <1>12, <1>13, <1>14 DEF Next, Steps

\* Put and Remove change the set of keys by one key, whatever they turn
\* around, and Get, Ceiling, Floor, First, Last, Next and Prev answer from it.
THEOREM TreeIsSet == ASSUME MapOK PROVE Spec => OrderedMapSpec
<1>1. Init => TreeInv /\ QueryInv /\ Abstract!Init BY TreeInit, SetInit
<1>2. TreeInv /\ QueryInv /\ [Next]_vars => TreeInv' /\ QueryInv' BY TreeStep, QueryStep
<1>3. TreeInv /\ QueryInv /\ [Next]_vars => [Abstract!Next]_<<InTree, Reply>> BY SetStep
<1> QED BY <1>1, <1>2, <1>3, PTL DEF Spec, OrderedMapSpec, Abstract!Spec, Reply
=============================================================================
