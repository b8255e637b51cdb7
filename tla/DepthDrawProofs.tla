--------------------------- MODULE DepthDrawProofs ---------------------------
(***************************************************************************)
(* Proofs about DepthDraw, for all ids, objects and depths, of a careful   *)
(* game: the layers stay whole, and the layer an instance is on is known.  *)
(***************************************************************************)
EXTENDS DepthDraw, FiniteSetTheorems, WellFoundedInduction, TLAPS

-----------------------------------------------------------------------------
(* What a layer's list is. *)

\* The pointers lead to nodes and sentinels.
LinksTyped(l) == /\ l.next \in [Slot -> Node \cup {NULL}]
                 /\ l.prev \in [Slot -> Slot \cup {NULL}]

\* The list of layer d in l is the nodes in S, in ascending order: its sentinel is
\* a negative number and so below them.
Linked(l, d, S) ==
  /\ \A x \in S \cup {d} :
       \/ l.next[x] = NULL /\ \A y \in S : y <= x
       \/ /\ l.next[x] \in S /\ x < l.next[x]
          /\ \A y \in S : y <= x \/ l.next[x] <= y
  /\ \A x \in S : /\ l.prev[x] \in S \cup {d} /\ l.prev[x] < x
                  /\ \A y \in S : y <= l.prev[x] \/ x <= y
  /\ l.prev[d] \in S \cup {d} /\ \A y \in S : y <= l.prev[d]

\* Sentinels and nodes are different numbers, and neither is NULL.
LEMMA Slots ==
  /\ Slot \subseteq Int /\ NULL \notin Slot /\ MaxNode \in Nat
  /\ \A d \in Depths : d \in Int /\ d < 0 /\ d \notin Node /\ d \in Slot
  /\ \A n \in Node : n \in Int /\ n >= 1 /\ n \in Slot
BY DepthAssumption DEF Slot, Node, NULL

LEMMA NextTyped ==
  ASSUME NEW l, LinksTyped(l)
  PROVE  /\ \A d \in Depths : l.next[d] \in Node \cup {NULL}
         /\ \A n \in Node : l.next[n] \in Node \cup {NULL}
<1>1. Depths \subseteq Slot /\ Node \subseteq Slot
  BY DEF Slot
<1> QED
  BY <1>1 DEF LinksTyped

\* A set of natural numbers that is not empty has a least member.
LEMMA LeastNatural ==
  ASSUME NEW T \in SUBSET Nat, T # {}
  PROVE  \E m \in T : \A k \in T : m <= k
<1> DEFINE Less == {x \in Nat \X Nat : x[1] < x[2]}
<1>1. IsWellFoundedOn(Less, Nat)
  BY NatLessThanWellFounded DEF OpToRel
<1>2. PICK m \in T : \A k \in T : <<k, m>> \notin Less
  BY <1>1, WFMin
<1>3. ASSUME NEW k \in T
      PROVE  m <= k
  <2>1. m \in Nat /\ k \in Nat
    OBVIOUS
  <2>2. <<k, m>> \in Nat \X Nat /\ <<k, m>>[1] = k /\ <<k, m>>[2] = m
    BY <2>1
  <2>3. ~(k < m)
    BY <2>2, <1>2
  <2> QED
    BY <2>1, <2>3
<1> QED
  BY <1>3

-----------------------------------------------------------------------------
(* The nodes that the loop over a layer comes to. *)

\* What is reached in at most n + 1 steps, for the first n.
Reached(d, n, g) ==
  /\ g \in [0 .. n -> SUBSET (Node \cup {NULL})]
  /\ g[0] = {links.next[d]}
  /\ \A k \in 1 .. n : g[k] = g[k - 1] \cup {links.next[x] : x \in g[k - 1] \ {NULL}}

\* The recursive function in the definition of Chain.
ReachOf(d) ==
  CHOOSE reach : reach = [n \in 0 .. MaxNode |->
     IF n = 0 THEN {links.next[d]}
     ELSE LET r == reach[n - 1] IN r \cup {links.next[x] : x \in r \ {NULL}}]

\* Had it no values up to some number, there would be a least such number.
LEMMA ReachedExists ==
  ASSUME LinksTyped(links), NEW d \in Depths, NEW n \in Nat
  PROVE  \E g : Reached(d, n, g)
<1> DEFINE Bad == {k \in Nat : ~\E g : Reached(d, k, g)}
<1>1. SUFFICES ASSUME Bad # {} PROVE FALSE
  OBVIOUS
<1>2. PICK m \in Bad : \A k \in Bad : m <= k
  BY <1>1, LeastNatural
<1>3. links.next[d] \in Node \cup {NULL}
  BY NextTyped
<1>4. m # 0
  <2> DEFINE g == [k \in 0 .. 0 |-> {links.next[d]}]
  <2>1. Reached(d, 0, g)
    BY <1>3 DEF Reached
  <2> QED
    BY <2>1
<1>5. PICK g : Reached(d, m - 1, g)
  BY <1>2, <1>4
<1> DEFINE h == [k \in 0 .. m |->
                   IF k = m THEN g[m - 1] \cup {links.next[x] : x \in g[m - 1] \ {NULL}}
                   ELSE g[k]]
<1>6. Reached(d, m, h)
  <2>1. m \in Nat /\ m - 1 \in 0 .. m - 1 /\ m >= 1
    BY <1>4
  <2>2. g[m - 1] \subseteq Node \cup {NULL}
    BY <1>5, <2>1 DEF Reached
  <2>3. \A x \in g[m - 1] \ {NULL} : links.next[x] \in Node \cup {NULL}
    BY <2>2, NextTyped
  <2>4. h[m] \in SUBSET (Node \cup {NULL})
    BY <2>1, <2>2, <2>3
  <2>5. \A k \in 0 .. m - 1 : h[k] = g[k] /\ h[k] \in SUBSET (Node \cup {NULL})
    BY <1>5, <2>1 DEF Reached
  <2>6. h \in [0 .. m -> SUBSET (Node \cup {NULL})]
    <3>1. h = [k \in 0 .. m |-> h[k]]
      OBVIOUS
    <3> HIDE DEF h
    <3>2. \A k \in 0 .. m : h[k] \in SUBSET (Node \cup {NULL})
      <4>1. \A k \in 0 .. m : k = m \/ k \in 0 .. m - 1
        BY <2>1
      <4> QED
        BY <2>4, <2>5, <4>1
    <3> QED
      BY <3>1, <3>2
  <2>7. h[0] = {links.next[d]}
    BY <1>5, <2>1, <2>5 DEF Reached
  <2>8. ASSUME NEW k \in 1 .. m
        PROVE  h[k] = h[k - 1] \cup {links.next[x] : x \in h[k - 1] \ {NULL}}
    <3>1. h[k - 1] = g[k - 1]
      BY <2>1, <2>5
    <3>2. CASE k = m
      BY <2>1, <3>1, <3>2
    <3>3. CASE k # m
      <4>1. k \in 1 .. m - 1 /\ k \in 0 .. m - 1
        BY <2>1, <3>3
      <4>2. h[k] = g[k]
        BY <2>5, <4>1
      <4>3. g[k] = g[k - 1] \cup {links.next[x] : x \in g[k - 1] \ {NULL}}
        BY <1>5, <4>1 DEF Reached
      <4> HIDE DEF h
      <4> QED
        BY <3>1, <4>2, <4>3
    <3> QED
      BY <3>2, <3>3
  <2> HIDE DEF h
  <2> QED
    BY <2>6, <2>7, <2>8 DEF Reached
<1> QED
  BY <1>2, <1>6

LEMMA ChainReached ==
  ASSUME LinksTyped(links), NEW d \in Depths
  PROVE  Reached(d, MaxNode, ReachOf(d)) /\ Chain(d) = ReachOf(d)[MaxNode] \ {NULL}
<1> DEFINE F(reach) == [n \in 0 .. MaxNode |->
              IF n = 0 THEN {links.next[d]}
              ELSE LET r == reach[n - 1] IN r \cup {links.next[x] : x \in r \ {NULL}}]
           R == ReachOf(d)
<1>1. MaxNode \in Nat
  BY Slots
<1>2. PICK g : Reached(d, MaxNode, g)
  BY <1>1, ReachedExists
<1>3. g = F(g)
  <2>1. ASSUME NEW n \in 0 .. MaxNode
        PROVE  g[n] = IF n = 0 THEN {links.next[d]}
                      ELSE g[n - 1] \cup {links.next[x] : x \in g[n - 1] \ {NULL}}
    <3>1. CASE n = 0
      BY <1>2, <3>1 DEF Reached
    <3>2. CASE n # 0
      <4>1. n \in 1 .. MaxNode
        BY <1>1, <3>2
      <4> QED
        BY <1>2, <3>2, <4>1 DEF Reached
    <3> QED
      BY <3>1, <3>2
  <2>2. g = [n \in 0 .. MaxNode |-> g[n]]
    BY <1>2 DEF Reached
  <2> QED
    BY <2>1, <2>2
<1>4. R = F(R)
  BY <1>3 DEF ReachOf
<1> HIDE DEF R
<1>5. /\ R[0] = {links.next[d]}
      /\ \A k \in 1 .. MaxNode : R[k] = R[k - 1] \cup {links.next[x] : x \in R[k - 1] \ {NULL}}
      /\ R = [n \in 0 .. MaxNode |-> R[n]]
  BY <1>1, <1>4
<1> DEFINE Good == {n \in Nat : n <= MaxNode => R[n] \in SUBSET (Node \cup {NULL})}
<1>6. Nat \ Good = {}
  <2>1. SUFFICES ASSUME Nat \ Good # {} PROVE FALSE
    OBVIOUS
  <2>2. PICK m \in Nat \ Good : \A k \in Nat \ Good : m <= k
    BY <2>1, LeastNatural
  <2>3. m <= MaxNode /\ R[m] \notin SUBSET (Node \cup {NULL})
    BY <2>2
  <2>4. m # 0
    <3>1. links.next[d] \in Node \cup {NULL}
      BY NextTyped
    <3> QED
      BY <1>5, <2>3, <3>1
  <2>5. m - 1 \in Good /\ m \in 1 .. MaxNode /\ m - 1 <= MaxNode
    BY <1>1, <2>2, <2>3, <2>4
  <2>6. R[m - 1] \subseteq Node \cup {NULL}
    BY <2>5
  <2>7. \A x \in R[m - 1] \ {NULL} : links.next[x] \in Node \cup {NULL}
    BY <2>6, NextTyped
  <2>8. R[m] = R[m - 1] \cup {links.next[x] : x \in R[m - 1] \ {NULL}}
    BY <1>5, <2>5
  <2>9. {links.next[x] : x \in R[m - 1] \ {NULL}} \subseteq Node \cup {NULL}
    BY <2>7
  <2> QED
    BY <2>3, <2>6, <2>8, <2>9
<1>7. Reached(d, MaxNode, R)
  <2>1. \A n \in 0 .. MaxNode : R[n] \in SUBSET (Node \cup {NULL})
    BY <1>1, <1>6
  <2>2. R \in [0 .. MaxNode -> SUBSET (Node \cup {NULL})]
    BY <1>5, <2>1
  <2> QED
    BY <1>5, <2>2 DEF Reached
<1>8. Chain(d) = R[MaxNode] \ {NULL}
  BY DEF Chain, R, ReachOf
<1> QED
  BY <1>7, <1>8 DEF R

\* The chain from the sentinel of a layer has all of the layer's nodes: each is
\* reached no later than after as many steps as there are nodes up to it.
LEMMA ChainIs ==
  ASSUME LinksTyped(links), NEW d \in Depths, NEW S \in SUBSET Node, Linked(links, d, S)
  PROVE  Chain(d) = S
<1> DEFINE R == ReachOf(d)
           Upto(n) == {y \in S : y <= n + 1} \cup {links.next[d]}
           Good == {n \in Nat : n <= MaxNode => Upto(n) \subseteq R[n] /\ R[n] \subseteq S \cup {NULL}}
<1>1. MaxNode \in Nat /\ d \in Int /\ d < 0 /\ d \notin S
      /\ \A y \in S : y \in Int /\ y >= 1 /\ y <= MaxNode /\ y \in Node /\ y # NULL
  BY Slots DEF Node, NULL
<1>2. /\ Chain(d) = R[MaxNode] \ {NULL}
      /\ R[0] = {links.next[d]}
      /\ \A k \in 1 .. MaxNode : R[k] = R[k - 1] \cup {links.next[x] : x \in R[k - 1] \ {NULL}}
  BY ChainReached DEF Reached
<1> HIDE DEF R
<1>3. \A x \in S \cup {d} : links.next[x] \in S \cup {NULL}
  BY DEF Linked
<1>4. Nat \ Good = {}
  <2>1. SUFFICES ASSUME Nat \ Good # {} PROVE FALSE
    OBVIOUS
  <2>2. PICK m \in Nat \ Good : \A k \in Nat \ Good : m <= k
    BY <2>1, LeastNatural
  <2>3. m <= MaxNode /\ ~(Upto(m) \subseteq R[m] /\ R[m] \subseteq S \cup {NULL})
    BY <2>2
  <2>4. ASSUME NEW y \in S, NEW x \in S \cup {d}, links.prev[y] = x
        PROVE  links.next[x] = y
    <3>1. /\ x \in Int /\ y \in Int /\ x < y
          /\ \A z \in S : z <= x \/ y <= z
      BY <1>1, <2>4 DEF Linked
    <3>2. \/ links.next[x] = NULL /\ \A z \in S : z <= x
          \/ /\ links.next[x] \in S /\ x < links.next[x]
             /\ \A z \in S : z <= x \/ links.next[x] <= z
      BY DEF Linked
    <3>3. links.next[x] \in S
      BY <3>1, <3>2
    <3>4. links.next[x] \in Int
      BY <1>1, <3>3
    <3> QED
      BY <3>1, <3>2, <3>3, <3>4
  <2>5. CASE m = 0
    <3>1. R[0] \subseteq S \cup {NULL}
      BY <1>2, <1>3
    <3>2. ASSUME NEW y \in S, y <= 1
          PROVE  y = links.next[d]
      <4>1. y = 1
        BY <1>1, <3>2
      <4>2. links.prev[y] \in S \cup {d} /\ links.prev[y] < y
        BY DEF Linked
      <4>3. links.prev[y] = d
        <5>1. ASSUME NEW x \in S PROVE ~(x < y)
          BY <1>1, <4>1
        <5> QED
          BY <4>2, <5>1
      <4> QED
        BY <2>4, <4>3
    <3>3. Upto(0) \subseteq R[0]
      BY <1>2, <3>2
    <3> QED
      BY <2>3, <2>5, <3>1, <3>3
  <2>6. CASE m # 0
    <3>1. m - 1 \in Nat /\ m - 1 <= MaxNode /\ m \in 1 .. MaxNode /\ m \in Nat
      BY <1>1, <2>3, <2>6
    <3>2. m - 1 \in Good
      BY <2>2, <3>1
    <3>3. Upto(m - 1) \subseteq R[m - 1] /\ R[m - 1] \subseteq S \cup {NULL}
      BY <3>1, <3>2
    <3>4. R[m] = R[m - 1] \cup {links.next[x] : x \in R[m - 1] \ {NULL}}
      BY <1>2, <3>1
    <3>5. R[m] \subseteq S \cup {NULL}
      BY <1>3, <3>3, <3>4
    <3>6. ASSUME NEW y \in S, y <= m + 1
          PROVE  y \in R[m]
      <4>1. CASE y <= m
        <5>1. y \in Upto(m - 1)
          BY <3>1, <4>1
        <5> QED
          BY <3>3, <3>4, <5>1
      <4>2. CASE links.prev[y] = d
        <5>1. links.next[d] = y
          BY <2>4, <4>2
        <5> QED
          BY <3>3, <3>4, <5>1
      <4>3. CASE links.prev[y] # d
        <5> DEFINE x == links.prev[y]
        <5>1. x \in S /\ x < y
          BY <4>3 DEF Linked
        <5>2. links.next[x] = y
          BY <2>4, <5>1
        <5> HIDE DEF x
        <5>3. x <= (m - 1) + 1
          BY <1>1, <3>1, <3>6, <5>1
        <5>4. x \in R[m - 1] /\ x # NULL
          BY <1>1, <3>3, <5>1, <5>3
        <5> QED
          BY <3>4, <5>2, <5>4
      <4> QED
        BY <4>2, <4>3
    <3>7. links.next[d] \in R[m]
      BY <3>3, <3>4
    <3>8. Upto(m) \subseteq R[m]
      BY <3>6, <3>7
    <3> QED
      BY <2>3, <3>5, <3>8
  <2> QED
    BY <2>5, <2>6
<1>5. Upto(MaxNode) \subseteq R[MaxNode] /\ R[MaxNode] \subseteq S \cup {NULL}
  BY <1>1, <1>4
<1>6. S \subseteq Upto(MaxNode)
  BY <1>1
<1> QED
  BY <1>1, <1>2, <1>5, <1>6

-----------------------------------------------------------------------------
(* What appending and unlinking a node do to the layers. *)

\* Layer e in m is as in l: no pointer of its was assigned.
LEMMA Untouched ==
  ASSUME NEW l, NEW m, NEW e, NEW T, Linked(l, e, T),
         \A x \in T \cup {e} : m.next[x] = l.next[x] /\ m.prev[x] = l.prev[x]
  PROVE  Linked(m, e, T)
BY DEF Linked

LEMMA AddedKeeps ==
  ASSUME NEW l, LinksTyped(l), NEW d \in Depths, NEW S \in SUBSET Node, NEW a \in Node,
         Linked(l, d, S), \A y \in S : y < a
  PROVE  /\ LinksTyped(Added(l, d, a))
         /\ Linked(Added(l, d, a), d, S \cup {a})
         /\ \A x \in Slot \ (S \cup {d, a}) : /\ Added(l, d, a).next[x] = l.next[x]
                                              /\ Added(l, d, a).prev[x] = l.prev[x]
<1> DEFINE p == l.prev[d]
           m == Added(l, d, a)
<1>1. p \in S \cup {d} /\ \A y \in S : y <= p
  BY DEF Linked
<1>2. /\ d \in Int /\ d < 0 /\ d \in Slot /\ a \in Int /\ a >= 1 /\ a \in Slot
      /\ \A y \in S : y \in Int /\ y >= 1 /\ y \in Slot
  BY Slots
<1>3. /\ DOMAIN l.next = Slot /\ DOMAIN l.prev = Slot
  BY DEF LinksTyped
<1>4. /\ m.next = [l.next EXCEPT ![p] = a, ![a] = NULL]
      /\ m.prev = [l.prev EXCEPT ![a] = p, ![d] = a]
  BY DEF Added
<1> HIDE DEF p
<1>5. \A y \in S : y # a /\ y <= a
  BY <1>2
<1>6. \A y \in S \cup {d} : y \in Slot /\ y # a /\ y \in Int
  BY <1>2, <1>5
<1>7. p \in Slot /\ p # a /\ a # d /\ p \in Int /\ d <= p
  <2>1. \A y \in S \cup {d} : d <= y
    BY <1>2
  <2> QED
    BY <1>1, <1>6, <2>1
<1>8. LinksTyped(m)
  BY <1>2, <1>4, <1>7 DEF LinksTyped
<1>9. /\ m.next[p] = a /\ m.next[a] = NULL /\ m.prev[a] = p /\ m.prev[d] = a
      /\ \A x \in Slot : x # p /\ x # a => m.next[x] = l.next[x]
      /\ \A x \in Slot : x # d /\ x # a => m.prev[x] = l.prev[x]
  BY <1>2, <1>3, <1>4, <1>7
<1> HIDE DEF m
<1>10. ASSUME NEW x \in S \cup {a} \cup {d}
      PROVE  \/ m.next[x] = NULL /\ \A y \in S \cup {a} : y <= x
             \/ /\ m.next[x] \in S \cup {a} /\ x < m.next[x]
                /\ \A y \in S \cup {a} : y <= x \/ m.next[x] <= y
  <2>1. CASE x = a
    <3>1. \A y \in S \cup {a} : y <= a
      BY <1>2, <1>5
    <3> QED
      BY <1>9, <2>1, <3>1
  <2>2. CASE x = p
    <3>1. p < a
      BY <1>1, <1>2
    <3> QED
      BY <1>1, <1>2, <1>7, <1>9, <2>2, <3>1
  <2>3. CASE x # a /\ x # p
    <3>1. x \in S \cup {d} /\ m.next[x] = l.next[x] /\ x \in Int
      BY <1>2, <1>9, <2>3
    <3>2. ~(\A y \in S : y <= x)
      <4>1. SUFFICES ASSUME \A y \in S : y <= x PROVE FALSE
        OBVIOUS
      <4>2. CASE p = d
        <5>1. \A y \in S : FALSE
          <6>1. SUFFICES ASSUME NEW y \in S PROVE FALSE
            OBVIOUS
          <6>2. y <= d /\ y \in Int /\ y >= 1 /\ d < 0 /\ d \in Int
            BY <1>1, <1>2, <4>2
          <6> QED
            BY <6>2
        <5> QED
          BY <2>3, <3>1, <4>2, <5>1
      <4>3. CASE p # d
        <5>1. p \in S /\ p <= x
          BY <1>1, <4>1, <4>3
        <5>2. x <= p
          <6>1. CASE x = d
            BY <1>7, <6>1
          <6>2. CASE x # d
            BY <1>1, <3>1, <6>2
          <6> QED
            BY <6>1, <6>2
        <5> QED
          BY <1>7, <2>3, <3>1, <5>1, <5>2
      <4> QED
        BY <4>2, <4>3
    <3>3. /\ l.next[x] \in S /\ x < l.next[x]
          /\ \A y \in S : y <= x \/ l.next[x] <= y
      BY <3>1, <3>2 DEF Linked
    <3>4. l.next[x] <= a
      BY <1>5, <3>3
    <3> QED
      BY <3>1, <3>3, <3>4
  <2> QED
    BY <2>1, <2>2, <2>3
<1>11. ASSUME NEW x \in S \cup {a}
      PROVE  /\ m.prev[x] \in S \cup {a} \cup {d} /\ m.prev[x] < x
             /\ \A y \in S \cup {a} : y <= m.prev[x] \/ x <= y
  <2>1. CASE x = a
    BY <1>1, <1>2, <1>9, <2>1
  <2>2. CASE x # a
    <3>1. x \in S /\ x \in Slot /\ x # d
      BY <1>2, <2>2, Slots
    <3>2. m.prev[x] = l.prev[x] /\ x <= a
      BY <1>9, <1>5, <2>2, <3>1
    <3>3. l.prev[x] \in S \cup {d} /\ l.prev[x] < x /\ \A y \in S : y <= l.prev[x] \/ x <= y
      BY <3>1 DEF Linked
    <3> QED
      BY <3>2, <3>3
  <2> QED
    BY <2>1, <2>2
<1>12. m.prev[d] \in S \cup {a} \cup {d} /\ \A y \in S \cup {a} : y <= m.prev[d]
  BY <1>2, <1>9
<1>13. Linked(m, d, S \cup {a})
  BY <1>10, <1>11, <1>12 DEF Linked
<1> QED
  BY <1>1, <1>8, <1>9, <1>13 DEF m

LEMMA SplicedKeeps ==
  ASSUME NEW l, LinksTyped(l), NEW d \in Depths, NEW S \in SUBSET Node, NEW w \in S,
         Linked(l, d, S)
  PROVE  /\ LinksTyped(Spliced(l, d, w))
         /\ Linked(Spliced(l, d, w), d, S \ {w})
         /\ \A x \in Slot \ (S \cup {d}) : /\ Spliced(l, d, w).next[x] = l.next[x]
                                           /\ Spliced(l, d, w).prev[x] = l.prev[x]
<1> DEFINE p == l.prev[w]
           n == l.next[w]
           m == Spliced(l, d, w)
           next1 == [l.next EXCEPT ![p] = n]
           prev1 == IF n = NULL THEN l.prev ELSE [l.prev EXCEPT ![n] = p]
<1>1. /\ p \in S \cup {d} /\ p < w /\ \A y \in S : y <= p \/ w <= y
  BY DEF Linked
<1>2. \/ n = NULL /\ \A y \in S : y <= w
      \/ n \in S /\ w < n /\ \A y \in S : y <= w \/ n <= y
  BY DEF Linked
<1>3. DOMAIN l.next = Slot /\ DOMAIN l.prev = Slot
  BY DEF LinksTyped
<1>4. /\ m.next = IF next1[d] = w THEN [next1 EXCEPT ![d] = NULL] ELSE next1
      /\ m.prev = IF prev1[d] = w THEN [prev1 EXCEPT ![d] = prev1[w]] ELSE prev1
  BY DEF Spliced
<1> HIDE DEF p, n, m
<1>5. /\ d \in Int /\ d < 0 /\ d \in Slot /\ d \notin S
      /\ NULL \notin Slot /\ \A y \in S : y \in Int /\ y >= 1 /\ y \in Slot
  BY Slots
<1>6. /\ p \in Int /\ p \in Slot /\ p # w /\ w # d /\ d <= p
      /\ n \in S => n \in Int /\ n # w /\ n # d
  <2>1. \A y \in S \cup {d} : y \in Int /\ y \in Slot /\ d <= y
    BY <1>5
  <2>2. w \in Int /\ p \in Int /\ p # w
    BY <1>1, <2>1
  <2>3. n \in S => n \in Int /\ n # w
    <3>1. n \in S => n # NULL
      BY <1>5
    <3> QED
      BY <1>2, <2>1, <2>2, <3>1
  <2> QED
    BY <1>1, <1>5, <2>1, <2>2, <2>3
\* Only p leads on to w.
<1>7. ASSUME NEW x \in S \cup {d}, l.next[x] = w
      PROVE  x = p
  <2>1. x < w /\ \A y \in S : y <= x \/ w <= y
    BY <1>5, <1>7 DEF Linked, NULL
  <2>2. x \in Int /\ w \in Int
    BY <1>5
  <2>3. x <= p
    <3>1. CASE x = d
      BY <1>6, <3>1
    <3>2. CASE x # d
      <4>1. x <= p \/ w <= x
        BY <1>1, <3>2
      <4> QED
        BY <2>1, <2>2, <4>1
    <3> QED
      BY <3>1, <3>2
  <2>4. p <= x
    <3>1. CASE p = d
      <4>1. \A y \in S \cup {d} : d <= y
        BY <1>5
      <4> QED
        BY <3>1, <4>1
    <3>2. CASE p # d
      <4>1. p <= x \/ w <= p
        BY <1>1, <2>1, <3>2
      <4> QED
        BY <1>1, <1>6, <2>2, <4>1
    <3> QED
      BY <3>1, <3>2
  <2> QED
    BY <1>6, <2>2, <2>3, <2>4
<1>8. m.next = next1
  <2>1. next1[d] # w
    <3>1. CASE p = d
      <4>1. next1[d] = n
        BY <1>3, <1>5, <3>1
      <4> QED
        BY <1>2, <1>5, <1>6, <4>1
    <3>2. CASE p # d
      <4>1. next1[d] = l.next[d]
        BY <1>3, <1>5, <3>2
      <4> QED
        BY <1>7, <3>2, <4>1
    <3> QED
      BY <3>1, <3>2
  <2> HIDE DEF next1
  <2> QED
    BY <1>4, <2>1
<1>9. /\ m.next[p] = n
      /\ \A x \in Slot : x # p => m.next[x] = l.next[x]
  BY <1>3, <1>6, <1>8
<1>10. /\ \A x \in Slot : x # d /\ x # n => m.prev[x] = l.prev[x]
       /\ n # NULL => m.prev[n] = p
       /\ m.prev[d] = IF l.prev[d] = w THEN p ELSE l.prev[d]
  <2>1. DOMAIN prev1 = Slot /\ prev1[d] = l.prev[d]
        /\ (\A x \in Slot : x # n => prev1[x] = l.prev[x]) /\ (n # NULL => prev1[n] = p)
    <3>1. CASE n = NULL
      BY <1>3, <3>1
    <3>2. CASE n # NULL
      BY <1>2, <1>3, <1>5, <1>6, <3>2
    <3> QED
      BY <3>1, <3>2
  <2>2. prev1[w] = p /\ w \in Slot
    BY <1>2, <1>5, <1>6, <2>1 DEF p
  <2> HIDE DEF prev1
  <2>3. n # d
    BY <1>2, <1>5, <1>6
  <2>4. m.prev[d] = IF l.prev[d] = w THEN p ELSE l.prev[d]
    BY <1>4, <1>5, <2>1, <2>2
  <2>5. ASSUME NEW x \in Slot, x # d
        PROVE  m.prev[x] = prev1[x]
    BY <1>4, <2>1, <2>5
  <2>6. n # NULL => n \in Slot
    BY <1>2, <1>5
  <2> QED
    BY <2>1, <2>3, <2>4, <2>5, <2>6
<1>11. LinksTyped(m)
  <2>1. l.next \in [Slot -> Node \cup {NULL}] /\ l.prev \in [Slot -> Slot \cup {NULL}]
        /\ n \in Node \cup {NULL} /\ p \in Slot \cup {NULL}
    BY <1>2, <1>6 DEF LinksTyped
  <2>2. next1 \in [Slot -> Node \cup {NULL}]
    BY <2>1
  <2>3. prev1 \in [Slot -> Slot \cup {NULL}]
    BY <2>1
  <2>4. prev1[w] \in Slot \cup {NULL}
    BY <1>5, <2>3
  <2> HIDE DEF next1, prev1
  <2>5. m.prev \in [Slot -> Slot \cup {NULL}]
    BY <1>4, <2>3, <2>4
  <2> QED
    BY <1>8, <2>2, <2>5 DEF LinksTyped
<1> HIDE DEF next1, prev1
<1>12. ASSUME NEW x \in (S \ {w}) \cup {d}
       PROVE  \/ m.next[x] = NULL /\ \A y \in S \ {w} : y <= x
              \/ /\ m.next[x] \in S \ {w} /\ x < m.next[x]
                 /\ \A y \in S \ {w} : y <= x \/ m.next[x] <= y
  <2>1. x \in Slot /\ x \in Int /\ w \in Int
    BY <1>5
  <2>2. CASE x = p
    <3>1. m.next[x] = n
      BY <1>9, <2>2
    <3>2. ASSUME NEW y \in S \ {w}, y <= w
          PROVE  y <= p
      <4>1. y \in Int
        BY <1>5
      <4> QED
        BY <1>1, <2>1, <3>2, <4>1
    <3>3. n \in S => p < n
      <4>1. SUFFICES ASSUME n \in S PROVE p < n
        OBVIOUS
      <4>2. n # NULL
        BY <1>5, <4>1
      <4>3. w < n /\ p < w /\ n \in Int /\ p \in Int
        BY <1>1, <1>2, <1>6, <4>1, <4>2
      <4> QED
        BY <2>1, <4>3
    <3> QED
      BY <1>2, <1>6, <2>2, <3>1, <3>2, <3>3
  <2>3. CASE x # p
    <3>1. m.next[x] = l.next[x] /\ l.next[x] # w
      BY <1>7, <1>9, <2>1, <2>3
    <3>2. \/ l.next[x] = NULL /\ \A y \in S : y <= x
          \/ /\ l.next[x] \in S /\ x < l.next[x]
             /\ \A y \in S : y <= x \/ l.next[x] <= y
      BY DEF Linked
    <3> QED
      BY <3>1, <3>2
  <2> QED
    BY <2>2, <2>3
<1>13. ASSUME NEW x \in S \ {w}
       PROVE  /\ m.prev[x] \in (S \ {w}) \cup {d} /\ m.prev[x] < x
              /\ \A y \in S \ {w} : y <= m.prev[x] \/ x <= y
  <2>1. x \in Slot /\ x \in Int /\ w \in Int /\ x # d /\ x # NULL
    BY <1>5
  <2>2. CASE x = n
    <3>1. m.prev[x] = p /\ n \in S
      BY <1>2, <1>10, <2>1, <2>2
    <3>2. p < x
      BY <1>1, <1>2, <1>6, <2>1, <2>2, <3>1
    <3>3. ASSUME NEW y \in S \ {w}
          PROVE  y <= p \/ x <= y
      <4>1. y \in Int /\ (y <= p \/ w <= y)
        BY <1>1, <1>5
      <4>2. y <= w \/ n <= y
        BY <1>2, <2>1, <2>2
      <4> QED
        BY <2>1, <2>2, <4>1, <4>2
    <3> QED
      BY <1>1, <1>6, <3>1, <3>2, <3>3
  <2>3. CASE x # n
    <3>1. m.prev[x] = l.prev[x]
      BY <1>10, <2>1, <2>3
    <3>2. l.prev[x] \in S \cup {d} /\ l.prev[x] < x /\ \A y \in S : y <= l.prev[x] \/ x <= y
      BY DEF Linked
    <3>3. l.prev[x] # w
      <4>1. SUFFICES ASSUME l.prev[x] = w PROVE FALSE
        OBVIOUS
      <4>2. w < x /\ \A y \in S : y <= w \/ x <= y
        BY <3>2, <4>1
      <4>3. n \in S /\ w < n /\ (x <= w \/ n <= x)
        BY <1>2, <2>1, <4>2
      <4>4. n \in Int /\ (n <= w \/ x <= n)
        BY <1>6, <4>2, <4>3
      <4> QED
        BY <2>1, <2>3, <4>2, <4>3, <4>4
    <3> QED
      BY <3>1, <3>2, <3>3
  <2> QED
    BY <2>2, <2>3
<1>14. m.prev[d] \in (S \ {w}) \cup {d} /\ \A y \in S \ {w} : y <= m.prev[d]
  <2>1. l.prev[d] \in S \cup {d} /\ \A y \in S : y <= l.prev[d]
    BY DEF Linked
  <2>2. CASE l.prev[d] = w
    <3>1. ASSUME NEW y \in S \ {w}
          PROVE  y <= p
      <4>1. y \in Int /\ w \in Int /\ y <= w /\ (y <= p \/ w <= y)
        BY <1>1, <1>5, <2>1, <2>2
      <4> QED
        BY <4>1
    <3> QED
      BY <1>1, <1>6, <1>10, <2>2, <3>1
  <2>3. CASE l.prev[d] # w
    BY <1>10, <2>1, <2>3
  <2> QED
    BY <2>2, <2>3
<1>15. Linked(m, d, S \ {w})
  BY <1>12, <1>13, <1>14 DEF Linked
<1>16. ASSUME NEW x \in Slot \ (S \cup {d})
       PROVE  m.next[x] = l.next[x] /\ m.prev[x] = l.prev[x]
  BY <1>1, <1>2, <1>5, <1>9, <1>10
<1> QED
  BY <1>11, <1>15, <1>16 DEF m

-----------------------------------------------------------------------------
(* All layers together. *)

\* The nodes of layer d are S[d], for all depths, and no node is on two layers.
Layers(l, S) ==
  /\ LinksTyped(l)
  /\ S \in [Depths -> SUBSET Node]
  /\ \A d \in Depths : Linked(l, d, S[d])
  /\ \A d, e \in Depths : d # e => S[d] \cap S[e] = {}

LEMMA LayersAdded ==
  ASSUME NEW l, NEW S, Layers(l, S), NEW d \in Depths, NEW a \in Node,
         \A e \in Depths : \A y \in S[e] : y < a
  PROVE  Layers(Added(l, d, a), [S EXCEPT ![d] = @ \cup {a}])
<1> DEFINE m == Added(l, d, a)
           T == [S EXCEPT ![d] = @ \cup {a}]
<1>1. /\ LinksTyped(l) /\ S \in [Depths -> SUBSET Node]
      /\ \A e \in Depths : Linked(l, e, S[e]) /\ S[e] \subseteq Node
      /\ \A e, g \in Depths : e # g => S[e] \cap S[g] = {}
  BY DEF Layers
<1>2. /\ LinksTyped(m) /\ Linked(m, d, S[d] \cup {a})
      /\ \A x \in Slot \ (S[d] \cup {d, a}) : m.next[x] = l.next[x] /\ m.prev[x] = l.prev[x]
  BY <1>1, AddedKeeps
<1>3. /\ T \in [Depths -> SUBSET Node] /\ T[d] = S[d] \cup {a}
      /\ \A e \in Depths : e # d => T[e] = S[e]
  BY <1>1
<1> HIDE DEF m, T
<1>4. \A e \in Depths : a \notin S[e]
  <2>1. a \in Int
    BY Slots
  <2> QED
    BY <2>1
<1>5. ASSUME NEW e \in Depths, e # d
      PROVE  Linked(m, e, T[e])
  <2>1. S[e] \cup {e} \subseteq Slot \ (S[d] \cup {d, a})
    BY <1>1, <1>4, <1>5, Slots
  <2>2. Linked(m, e, S[e])
    BY <1>1, <1>2, <2>1, Untouched
  <2> QED
    BY <1>3, <1>5, <2>2
<1>6. \A e, g \in Depths : e # g => T[e] \cap T[g] = {}
  BY <1>1, <1>3, <1>4
<1> QED
  BY <1>2, <1>3, <1>5, <1>6 DEF Layers, m, T

LEMMA LayersSpliced ==
  ASSUME NEW l, NEW S, Layers(l, S), NEW d \in Depths, NEW w \in S[d]
  PROVE  Layers(Spliced(l, d, w), [S EXCEPT ![d] = @ \ {w}])
<1> DEFINE m == Spliced(l, d, w)
           T == [S EXCEPT ![d] = @ \ {w}]
<1>1. /\ LinksTyped(l) /\ S \in [Depths -> SUBSET Node]
      /\ \A e \in Depths : Linked(l, e, S[e]) /\ S[e] \subseteq Node
      /\ \A e, g \in Depths : e # g => S[e] \cap S[g] = {}
  BY DEF Layers
<1>2. /\ LinksTyped(m) /\ Linked(m, d, S[d] \ {w})
      /\ \A x \in Slot \ (S[d] \cup {d}) : m.next[x] = l.next[x] /\ m.prev[x] = l.prev[x]
  BY <1>1, SplicedKeeps
<1>3. /\ T \in [Depths -> SUBSET Node] /\ T[d] = S[d] \ {w}
      /\ \A e \in Depths : e # d => T[e] = S[e]
  BY <1>1
<1> HIDE DEF m, T
<1>4. ASSUME NEW e \in Depths, e # d
      PROVE  Linked(m, e, T[e])
  <2>1. S[e] \cup {e} \subseteq Slot \ (S[d] \cup {d})
    BY <1>1, <1>4, Slots
  <2>2. Linked(m, e, S[e])
    BY <1>1, <1>2, <2>1, Untouched
  <2> QED
    BY <1>3, <1>4, <2>2
<1>5. \A e, g \in Depths : e # g => T[e] \cap T[g] = {}
  BY <1>1, <1>3
<1> QED
  BY <1>2, <1>3, <1>4, <1>5 DEF Layers, m, T

\* The nodes of every layer, where A are the active instances, it their nodes and
\* home the layers they are on.
ContentsOf(A, it, home) == [d \in Depths |-> {it[i] : i \in {j \in A : home[j] = d}}]

LEMMA ContentsSame ==
  ASSUME NEW A, NEW it, NEW home, NEW it2, NEW home2,
         \A j \in A : it2[j] = it[j] /\ home2[j] = home[j]
  PROVE  ContentsOf(A, it2, home2) = ContentsOf(A, it, home)
BY DEF ContentsOf

\* An instance leaves its layer.
LEMMA Taken ==
  ASSUME NEW l, NEW A, NEW it, NEW home, Layers(l, ContentsOf(A, it, home)),
         NEW i \in A, home[i] \in Depths, \A j, k \in A : it[j] = it[k] => j = k
  PROVE  Layers(Spliced(l, home[i], it[i]), ContentsOf(A \ {i}, it, home))
<1> DEFINE S == ContentsOf(A, it, home)
           T == ContentsOf(A \ {i}, it, home)
<1>1. it[i] \in S[home[i]]
  BY DEF ContentsOf
<1>2. Layers(Spliced(l, home[i], it[i]), [S EXCEPT ![home[i]] = @ \ {it[i]}])
  BY <1>1, LayersSpliced
<1>3. T = [S EXCEPT ![home[i]] = @ \ {it[i]}]
  <2>1. T[home[i]] = S[home[i]] \ {it[i]}
    BY DEF ContentsOf
  <2>2. \A d \in Depths : d # home[i] => T[d] = S[d]
    BY DEF ContentsOf
  <2>3. T = [d \in Depths |-> T[d]] /\ S = [d \in Depths |-> S[d]]
    BY DEF ContentsOf
  <2> HIDE DEF S, T
  <2> QED
    BY <2>1, <2>2, <2>3
<1> QED
  BY <1>2, <1>3

\* An instance is put on layer d with the new node a.
LEMMA Put ==
  ASSUME NEW l, NEW A, NEW it, NEW home, Layers(l, ContentsOf(A, it, home)),
         NEW d \in Depths, NEW a \in Node, \A j \in A : it[j] < a,
         NEW i, i \notin A, NEW it2, NEW home2, it2[i] = a, home2[i] = d,
         \A j \in A : it2[j] = it[j] /\ home2[j] = home[j]
  PROVE  Layers(Added(l, d, a), ContentsOf(A \cup {i}, it2, home2))
<1> DEFINE S == ContentsOf(A, it, home)
           T == ContentsOf(A \cup {i}, it2, home2)
<1>1. \A e \in Depths : \A y \in S[e] : y < a
  BY DEF ContentsOf
<1>2. Layers(Added(l, d, a), [S EXCEPT ![d] = @ \cup {a}])
  BY <1>1, LayersAdded
<1>3. T = [S EXCEPT ![d] = @ \cup {a}]
  <2>1. T[d] = S[d] \cup {a}
    BY DEF ContentsOf
  <2>2. \A e \in Depths : e # d => T[e] = S[e]
    BY DEF ContentsOf
  <2>3. T = [e \in Depths |-> T[e]] /\ S = [e \in Depths |-> S[e]]
    BY DEF ContentsOf
  <2> HIDE DEF S, T
  <2> QED
    BY <2>1, <2>2, <2>3
<1> QED
  BY <1>2, <1>3

-----------------------------------------------------------------------------
(* The inductive invariant. *)

\* The requests that are yet to be applied, and the layer every instance is on.
Waiting == DOMAIN pending \ Applied
Homes   == [i \in Ids |-> IF i \in Waiting THEN pending[i][1] ELSE depth[i]]

Typed ==
  /\ used \in Nat /\ used <= MaxNode
  /\ active \subseteq Ids /\ inactive \subseteq Ids
  /\ active \cap inactive = {}
  /\ DOMAIN myiter = Ids /\ DOMAIN depth = Ids /\ DOMAIN object = Ids
  /\ \A i \in active : myiter[i] \in 1 .. used /\ depth[i] \in Depths
  /\ \A i, j \in active : myiter[i] = myiter[j] => i = j
  /\ \A i \in active \cup inactive : object[i] \in Objects

\* A request may be of an instance that is no longer there: a careful game starts
\* none of that id before the request is cleared.
Requests ==
  /\ IsFiniteSet(DOMAIN pending)
  /\ \A i \in DOMAIN pending : /\ pending[i][1] \in Depths
                               /\ i \in active => pending[i][2] = depth[i]
  /\ pc \in {"game", "draw"} /\ todo \subseteq DOMAIN pending
  /\ pc = "game" => todo = {}

Whole    == Layers(links, ContentsOf(active, myiter, Homes))
RoomLeft == used + Cardinality(Waiting) <= MaxNode

IInv == Typed /\ Requests /\ Whole /\ RoomLeft

\* While the game's code runs, no request has been applied.
LEMMA InGame ==
  ASSUME IInv, pc = "game"
  PROVE  /\ Applied = {} /\ Waiting = DOMAIN pending
         /\ \A i \in active : Homes[i] = NamedLayer(i) /\ Homes[i] \in Depths
<1>1. Applied = {} /\ Waiting = DOMAIN pending
  BY DEF Applied, Waiting
<1>2. \A i \in active : i \in Ids /\ depth[i] \in Depths
  BY DEF IInv, Typed
<1>3. \A i \in DOMAIN pending : pending[i][1] \in Depths
  BY DEF IInv, Requests
<1> QED
  BY <1>1, <1>2, <1>3 DEF Homes, NamedLayer

\* The instance each step of the game leaves alone keeps its layer.
LEMMA HomesKept ==
  ASSUME pc = "game", pc' = pc, NEW i \in Ids,
         i \in DOMAIN pending <=> i \in DOMAIN pending',
         i \in DOMAIN pending => pending'[i][1] = pending[i][1],
         i \notin DOMAIN pending => depth'[i] = depth[i]
  PROVE  Homes'[i] = Homes[i]
BY DEF Homes, Waiting, Applied

LEMMA InitIInv == Init => IInv
<1> SUFFICES ASSUME Init PROVE IInv
  OBVIOUS
<1>1. /\ used = 0 /\ active = {} /\ inactive = {} /\ todo = {} /\ pc = "game"
      /\ DOMAIN myiter = Ids /\ DOMAIN depth = Ids /\ DOMAIN object = Ids
      /\ DOMAIN pending = {}
  BY DEF Init
<1>2. IsFiniteSet({}) /\ Cardinality({}) = 0
  BY FS_EmptySet
<1>3. Typed
  BY <1>1, Slots DEF Typed
<1>4. Requests
  BY <1>1, <1>2 DEF Requests
<1>5. Waiting = {}
  BY <1>1 DEF Waiting
<1>6. RoomLeft
  BY <1>1, <1>2, <1>5, Slots DEF RoomLeft
<1>7. Whole
  <2> DEFINE S == ContentsOf(active, myiter, Homes)
  <2>1. S \in [Depths -> SUBSET Node] /\ \A d \in Depths : S[d] = {}
    BY <1>1 DEF ContentsOf
  <2>2. /\ links.next = [s \in Slot |-> NULL]
        /\ links.prev = [s \in Slot |-> IF s \in Depths THEN s ELSE NULL]
    BY DEF Init
  <2>3. LinksTyped(links)
    BY <2>2 DEF LinksTyped, Slot
  <2>4. ASSUME NEW d \in Depths
        PROVE  Linked(links, d, {})
    <3>1. links.next[d] = NULL /\ links.prev[d] = d
      BY <2>2 DEF Slot
    <3> QED
      BY <3>1 DEF Linked
  <2> HIDE DEF S
  <2>5. Layers(links, S)
    BY <2>1, <2>3, <2>4 DEF Layers
  <2> QED
    BY <2>5 DEF Whole, S
<1> QED
  BY <1>3, <1>4, <1>6, <1>7 DEF IInv

\* depthv::init of an instance that is on no layer: over the lists l with the
\* instances A on them.
LEMMA InitKeeps ==
  ASSUME IInv, pc = "game", pc' = pc, pending' = pending,
         NEW i \in Ids, NEW o \in Objects, NEW l, NEW A \in SUBSET active, i \notin A,
         Careful, Layers(l, ContentsOf(A, myiter, Homes)),
         InitDepth(l, i, o), active' = A \cup {i}, todo' = todo
  PROVE  /\ Whole' /\ RoomLeft' /\ Waiting' = Waiting
         /\ used' \in Nat /\ used' <= MaxNode
         /\ DOMAIN myiter' = Ids /\ DOMAIN depth' = Ids /\ DOMAIN object' = Ids
         /\ \A j \in active' : myiter'[j] \in 1 .. used' /\ depth'[j] \in Depths
         /\ \A j, k \in active' : myiter'[j] = myiter'[k] => j = k
         /\ \A j \in Ids : object'[j] = IF j = i THEN o ELSE object[j]
         /\ \A j \in Ids : j # i => depth'[j] = depth[j]
         /\ i \notin DOMAIN pending
<1> DEFINE a == used + 1
           d == Layer[o]
<1>1. /\ i \notin DOMAIN pending
      /\ used + Cardinality(DOMAIN pending) < MaxNode
      /\ used' = a /\ links' = Added(l, d, a)
      /\ myiter' = [myiter EXCEPT ![i] = a]
      /\ depth' = [depth EXCEPT ![i] = d]
      /\ object' = [object EXCEPT ![i] = o]
  BY DEF InitDepth, Room
<1>2. /\ used \in Nat /\ MaxNode \in Nat /\ d \in Depths
      /\ DOMAIN myiter = Ids /\ DOMAIN depth = Ids /\ DOMAIN object = Ids
      /\ active \subseteq Ids
  BY DepthAssumption DEF IInv, Typed
<1>3. /\ \A j \in active : myiter[j] \in 1 .. used /\ depth[j] \in Depths
      /\ \A j, k \in active : myiter[j] = myiter[k] => j = k
  BY DEF IInv, Typed
<1>4. Cardinality(DOMAIN pending) \in Nat
  BY FS_CardinalityType DEF IInv, Requests
<1>5. Waiting = DOMAIN pending /\ Waiting' = Waiting
  BY DEF Waiting, Applied
<1>6. a \in Node /\ a \in Nat /\ a <= MaxNode
  BY <1>1, <1>2, <1>4 DEF Node
<1> HIDE DEF a, d
<1>7. /\ myiter'[i] = a /\ depth'[i] = d
      /\ \A j \in Ids : j # i => myiter'[j] = myiter[j] /\ depth'[j] = depth[j]
      /\ \A j \in Ids : object'[j] = IF j = i THEN o ELSE object[j]
      /\ DOMAIN myiter' = Ids /\ DOMAIN depth' = Ids /\ DOMAIN object' = Ids
  BY <1>1, <1>2
<1>8. Homes'[i] = d /\ \A j \in Ids : j # i => Homes'[j] = Homes[j]
  BY <1>1, <1>5, <1>7 DEF Homes
<1>9. \A j \in A : myiter[j] < a
  BY <1>2, <1>3 DEF a
<1>10. Whole'
  <2>1. \A j \in A : myiter'[j] = myiter[j] /\ Homes'[j] = Homes[j]
    BY <1>2, <1>7, <1>8
  <2> DEFINE it2 == myiter'
             home2 == Homes'
  <2>2. it2[i] = a /\ home2[i] = d /\ \A j \in A : it2[j] = myiter[j] /\ home2[j] = Homes[j]
    BY <1>7, <1>8, <2>1
  <2> HIDE DEF it2, home2
  <2>3. Layers(Added(l, d, a), ContentsOf(A \cup {i}, it2, home2))
    BY <1>2, <1>6, <1>9, <2>2, Put
  <2> QED
    BY <1>1, <2>3 DEF Whole, it2, home2
<1>11. RoomLeft'
  <2>1. used' + Cardinality(DOMAIN pending) <= MaxNode
    BY <1>1, <1>2, <1>4, <1>6 DEF a
  <2>2. Waiting' = DOMAIN pending
    BY <1>5
  <2> QED
    BY <2>1, <2>2 DEF RoomLeft
<1>12. \A j \in active' : myiter'[j] \in 1 .. used' /\ depth'[j] \in Depths
  <2>1. \A j \in A : myiter[j] \in 1 .. a /\ a \in 1 .. a
    BY <1>2, <1>3 DEF a
  <2>2. a \in 1 .. a
    BY <1>2 DEF a
  <2> QED
    BY <1>1, <1>2, <1>3, <1>7, <2>1, <2>2
<1>13. \A j, k \in active' : myiter'[j] = myiter'[k] => j = k
  <2>1. \A j \in A : j # i /\ j \in Ids /\ myiter'[j] = myiter[j] /\ myiter[j] # a
    <3>1. \A j \in A : myiter[j] \in Nat /\ myiter[j] # a
      BY <1>2, <1>3 DEF a
    <3> QED
      BY <1>2, <1>7, <3>1
  <2> QED
    BY <1>3, <1>7, <2>1
<1> QED
  BY <1>1, <1>5, <1>6, <1>7, <1>10, <1>11, <1>12, <1>13

\* depthv::remove of an active instance, while no request is being applied.
LEMMA RemoveKeeps ==
  ASSUME IInv, pc = "game", NEW i \in active
  PROVE  Layers(Removed(i), ContentsOf(active \ {i}, myiter, Homes))
<1>1. /\ Layers(links, ContentsOf(active, myiter, Homes))
      /\ \A j, k \in active : myiter[j] = myiter[k] => j = k
  BY DEF IInv, Whole, Typed
<1>2. Homes[i] = NamedLayer(i) /\ Homes[i] \in Depths
  BY InGame
<1>3. Layers(Spliced(links, Homes[i], myiter[i]), ContentsOf(active \ {i}, myiter, Homes))
  BY <1>1, <1>2, Taken
<1> QED
  BY <1>2, <1>3 DEF Removed

-----------------------------------------------------------------------------
(* One lemma for each action. *)

LEMMA InstanceCreateInv ==
  ASSUME Careful, IInv, pc = "game", NEW i \in Ids, NEW o \in Objects, InstanceCreate(i, o),
         UNCHANGED <<pc, todo>>
  PROVE  IInv'
<1>1. /\ i \notin active \cup inactive /\ InitDepth(links, i, o)
      /\ active' = active \cup {i} /\ UNCHANGED <<inactive, pending>>
  BY DEF InstanceCreate
<1>2. Typed /\ Requests /\ Layers(links, ContentsOf(active, myiter, Homes))
  BY DEF IInv, Whole
<1>4. /\ Whole' /\ RoomLeft'
      /\ used' \in Nat /\ used' <= MaxNode
      /\ DOMAIN myiter' = Ids /\ DOMAIN depth' = Ids /\ DOMAIN object' = Ids
      /\ \A j \in active' : myiter'[j] \in 1 .. used' /\ depth'[j] \in Depths
      /\ \A j, k \in active' : myiter'[j] = myiter'[k] => j = k
      /\ \A j \in Ids : object'[j] = IF j = i THEN o ELSE object[j]
      /\ \A j \in Ids : j # i => depth'[j] = depth[j]
      /\ i \notin DOMAIN pending
  BY <1>1, <1>2, InitKeeps
<1>5. Typed'
  <2>1. /\ active' \subseteq Ids /\ inactive' \subseteq Ids
        /\ active' \cap inactive' = {}
    BY <1>1, <1>2 DEF Typed
  <2>2. \A j \in active' \cup inactive' : object'[j] \in Objects
    BY <1>1, <1>2, <1>4 DEF Typed
  <2> QED
    BY <1>4, <2>1, <2>2 DEF Typed
<1>6. Requests'
  <2>1. \A j \in DOMAIN pending' : j \in active' => pending'[j][2] = depth'[j]
    BY <1>1, <1>2, <1>4 DEF Requests, Typed
  <2> QED
    BY <1>1, <1>2, <2>1 DEF Requests
<1> QED
  BY <1>4, <1>5, <1>6 DEF IInv

LEMMA InstanceActivateInv ==
  ASSUME Careful, IInv, pc = "game", NEW i \in Ids, InstanceActivate(i), UNCHANGED <<pc, todo>>
  PROVE  IInv'
<1>1. /\ i \in inactive /\ InitDepth(links, i, object[i])
      /\ active' = active \cup {i} /\ inactive' = inactive \ {i}
      /\ UNCHANGED pending
  BY DEF InstanceActivate
<1>2. Typed /\ Requests /\ Layers(links, ContentsOf(active, myiter, Homes))
  BY DEF IInv, Whole
<1>3. i \notin active /\ object[i] \in Objects
  BY <1>1, <1>2 DEF Typed
<1>4. /\ Whole' /\ RoomLeft'
      /\ used' \in Nat /\ used' <= MaxNode
      /\ DOMAIN myiter' = Ids /\ DOMAIN depth' = Ids /\ DOMAIN object' = Ids
      /\ \A j \in active' : myiter'[j] \in 1 .. used' /\ depth'[j] \in Depths
      /\ \A j, k \in active' : myiter'[j] = myiter'[k] => j = k
      /\ \A j \in Ids : object'[j] = IF j = i THEN object[i] ELSE object[j]
      /\ \A j \in Ids : j # i => depth'[j] = depth[j]
      /\ i \notin DOMAIN pending
  BY <1>1, <1>2, <1>3, InitKeeps
<1>5. Typed'
  <2>1. /\ active' \subseteq Ids /\ inactive' \subseteq Ids
        /\ active' \cap inactive' = {}
    BY <1>1, <1>2 DEF Typed
  <2>2. \A j \in active' \cup inactive' : object'[j] \in Objects
    BY <1>1, <1>2, <1>3, <1>4 DEF Typed
  <2> QED
    BY <1>4, <2>1, <2>2 DEF Typed
<1>6. Requests'
  <2>1. \A j \in DOMAIN pending' : j \in active' => pending'[j][2] = depth'[j]
    BY <1>1, <1>2, <1>3, <1>4 DEF Requests, Typed
  <2> QED
    BY <1>1, <1>2, <2>1 DEF Requests
<1> QED
  BY <1>4, <1>5, <1>6 DEF IInv

\* No request waits for an instance that a careful game changes.
LEMMA InstanceChangeInv ==
  ASSUME Careful, IInv, pc = "game", NEW i \in Ids, NEW o \in Objects,
         InstanceChange(i, o), UNCHANGED <<pc, todo>>
  PROVE  IInv'
<1>1. /\ i \in active /\ InitDepth(Removed(i), i, o)
      /\ UNCHANGED <<active, inactive, pending>>
  BY DEF InstanceChange
<1>2. Typed /\ Requests
  BY DEF IInv
<1>3. Layers(Removed(i), ContentsOf(active \ {i}, myiter, Homes))
  BY <1>1, RemoveKeeps
<1>4. active' = (active \ {i}) \cup {i}
  BY <1>1
<1>5. /\ Whole' /\ RoomLeft'
      /\ used' \in Nat /\ used' <= MaxNode
      /\ DOMAIN myiter' = Ids /\ DOMAIN depth' = Ids /\ DOMAIN object' = Ids
      /\ \A j \in active' : myiter'[j] \in 1 .. used' /\ depth'[j] \in Depths
      /\ \A j, k \in active' : myiter'[j] = myiter'[k] => j = k
      /\ \A j \in Ids : object'[j] = IF j = i THEN o ELSE object[j]
      /\ \A j \in Ids : j # i => depth'[j] = depth[j]
      /\ i \notin DOMAIN pending
  <2> DEFINE A == active \ {i}
             l == Removed(i)
  <2>1. /\ A \in SUBSET active /\ i \notin A /\ Layers(l, ContentsOf(A, myiter, Homes))
        /\ InitDepth(l, i, o) /\ active' = A \cup {i}
    BY <1>1, <1>3, <1>4
  <2> HIDE DEF A, l
  <2> QED
    BY <1>1, <2>1, InitKeeps
<1>6. Typed'
  <2>1. \A j \in active' \cup inactive' : object'[j] \in Objects
    BY <1>1, <1>2, <1>5 DEF Typed
  <2> QED
    BY <1>1, <1>2, <1>5, <2>1 DEF Typed
<1>7. Requests'
  <2>1. \A j \in DOMAIN pending' : j \in active' => pending'[j][2] = depth'[j]
    BY <1>1, <1>2, <1>5 DEF Requests, Typed
  <2> QED
    BY <1>1, <1>2, <2>1 DEF Requests
<1> QED
  BY <1>5, <1>6, <1>7 DEF IInv

\* A request is made or changed; the layer that it names first stays.
LEMMA SetDepthInv ==
  ASSUME IInv, pc = "game", NEW i \in Ids, NEW d \in Depths, SetDepth(i, d),
         UNCHANGED <<pc, todo>>
  PROVE  IInv'
<1>1. /\ i \in active /\ depth' = [depth EXCEPT ![i] = d]
      /\ used + Cardinality(DOMAIN pending) < MaxNode
      /\ UNCHANGED <<links, used, object, active, inactive, myiter>>
  BY DEF SetDepth, Room
<1>2. /\ DOMAIN pending' = DOMAIN pending \cup {i}
      /\ \A j \in DOMAIN pending : j # i => pending'[j] = pending[j]
      /\ pending'[i][2] = d
      /\ pending'[i][1] = IF i \in DOMAIN pending THEN pending[i][1] ELSE depth[i]
  BY DEF SetDepth
<1>3. Typed /\ Requests
  BY DEF IInv
<1>4. /\ depth'[i] = d /\ DOMAIN depth' = Ids
      /\ \A j \in Ids : j # i => depth'[j] = depth[j]
  BY <1>1, <1>3 DEF Typed
<1>5. Typed'
  <2>1. \A j \in active' : myiter'[j] \in 1 .. used' /\ depth'[j] \in Depths
    BY <1>1, <1>3, <1>4 DEF Typed
  <2> QED
    BY <1>1, <1>3, <1>4, <2>1 DEF Typed
<1>6. Requests'
  <2>1. IsFiniteSet(DOMAIN pending')
    BY <1>2, <1>3, FS_AddElement DEF Requests
  <2>2. \A j \in DOMAIN pending' : pending'[j][1] \in Depths
    BY <1>1, <1>2, <1>3 DEF Requests, Typed
  <2>3. \A j \in DOMAIN pending' : j \in active' => pending'[j][2] = depth'[j]
    BY <1>1, <1>2, <1>3, <1>4 DEF Requests, Typed
  <2>4. todo' \subseteq DOMAIN pending'
    BY <1>1, <1>2, <1>3 DEF Requests
  <2> QED
    BY <1>3, <2>1, <2>2, <2>3, <2>4 DEF Requests
<1>7. \A j \in active : Homes'[j] = Homes[j]
  <2>1. \A j \in active : j # i => Homes'[j] = Homes[j]
    BY <1>2, <1>3, <1>4, HomesKept DEF Typed
  <2>2. Homes'[i] = Homes[i]
    BY <1>1, <1>2, <1>3 DEF Typed, Homes, Waiting, Applied
  <2> QED
    BY <2>1, <2>2
<1>8. Whole'
  <2> DEFINE home2 == Homes'
  <2>1. \A j \in active : myiter[j] = myiter[j] /\ home2[j] = Homes[j]
    BY <1>7
  <2> HIDE DEF home2
  <2>2. ContentsOf(active, myiter, home2) = ContentsOf(active, myiter, Homes)
    BY <2>1, ContentsSame
  <2> QED
    BY <1>1, <2>2 DEF IInv, Whole, home2
<1>9. RoomLeft'
  <2> DEFINE P == DOMAIN pending
  <2>2. IsFiniteSet(P) /\ Cardinality(P) \in Nat
    BY <1>3, FS_CardinalityType DEF Requests
  <2>3. Waiting' = P \cup {i}
    BY <1>2 DEF Waiting, Applied
  <2> HIDE DEF P
  <2>4. Cardinality(P \cup {i}) <= Cardinality(P) + 1 /\ Cardinality(P \cup {i}) \in Nat
    <3> DEFINE b == Cardinality(P)
               e == Cardinality(P \cup {i})
    <3>1. e = b \/ e = b + 1
      <4>1. CASE i \in P
        <5>1. P \cup {i} = P
          BY <4>1
        <5> QED
          BY <5>1
      <4>2. CASE i \notin P
        BY <2>2, <4>2, FS_AddElement
      <4> QED
        BY <4>1, <4>2
    <3>2. b \in Nat
      BY <2>2
    <3> HIDE DEF b, e
    <3>3. e <= b + 1 /\ e \in Nat
      BY <3>1, <3>2
    <3> QED
      BY <3>3 DEF b, e
  <2>5. used \in Nat /\ MaxNode \in Nat /\ used + Cardinality(P) < MaxNode
    BY <1>1, <1>3, DepthAssumption DEF Typed, P
  <2>6. used + Cardinality(P \cup {i}) <= MaxNode
    BY <2>2, <2>4, <2>5
  <2> QED
    BY <1>1, <2>3, <2>6 DEF RoomLeft
<1> QED
  BY <1>5, <1>6, <1>8, <1>9 DEF IInv

\* An instance is destroyed or deactivated; its request, if there is one, stays.
LEMMA RemoveInv ==
  ASSUME IInv, pc = "game", NEW i \in Ids,
         InstanceDestroy(i) \/ InstanceDeactivate(i), UNCHANGED <<pc, todo>>
  PROVE  IInv'
<1>1. /\ i \in active /\ links' = Removed(i)
      /\ myiter' = [myiter EXCEPT ![i] = NULL]
      /\ active' = active \ {i}
      /\ UNCHANGED <<used, object, depth, pending>>
  BY DEF InstanceDestroy, InstanceDeactivate, RemoveDepth
<1>2. inactive' \subseteq inactive \cup {i}
  BY DEF InstanceDestroy, InstanceDeactivate
<1>3. Typed /\ Requests
  BY DEF IInv
<1>4. /\ DOMAIN myiter' = Ids
      /\ \A j \in active' : j \in Ids /\ j # i /\ myiter'[j] = myiter[j]
  BY <1>1, <1>3 DEF Typed
<1>5. Typed'
  <2>1. /\ active' \subseteq Ids /\ inactive' \subseteq Ids
        /\ active' \cap inactive' = {}
    BY <1>1, <1>2, <1>3 DEF Typed
  <2>2. \A j \in active' \cup inactive' : object'[j] \in Objects
    BY <1>1, <1>2, <1>3 DEF Typed
  <2>3. \A j \in active' : myiter'[j] \in 1 .. used' /\ depth'[j] \in Depths
    BY <1>1, <1>3, <1>4 DEF Typed
  <2>4. \A j, k \in active' : myiter'[j] = myiter'[k] => j = k
    BY <1>1, <1>3, <1>4 DEF Typed
  <2> QED
    BY <1>1, <1>3, <1>4, <2>1, <2>2, <2>3, <2>4 DEF Typed
<1>6. Requests'
  BY <1>1, <1>3 DEF Requests
<1>7. Waiting' = Waiting /\ Homes' = Homes
  BY <1>1 DEF Waiting, Applied, Homes
<1>8. Whole'
  <2>1. Layers(links', ContentsOf(active', myiter, Homes))
    BY <1>1, RemoveKeeps
  <2> DEFINE it2 == myiter'
             A2 == active'
  <2>2. \A j \in A2 : it2[j] = myiter[j] /\ Homes[j] = Homes[j]
    BY <1>4
  <2> HIDE DEF it2, A2
  <2>3. ContentsOf(A2, it2, Homes) = ContentsOf(A2, myiter, Homes)
    BY <2>2, ContentsSame
  <2> QED
    BY <1>7, <2>1, <2>3 DEF Whole, it2, A2
<1>9. RoomLeft'
  BY <1>1, <1>7 DEF IInv, RoomLeft
<1> QED
  BY <1>5, <1>6, <1>8, <1>9 DEF IInv

\* A room forgets who is deactivated: they are on no layer.
LEMMA ClearDeactivatedInv ==
  ASSUME IInv, pc = "game", ClearDeactivated, UNCHANGED <<pc, todo>>
  PROVE  IInv'
<1>1. /\ inactive' = {}
      /\ UNCHANGED <<links, used, object, active, myiter, depth, pending, pc, todo>>
  BY DEF ClearDeactivated
<1>2. Waiting' = Waiting /\ Homes' = Homes
  BY <1>1 DEF Waiting, Applied, Homes
<1>3. Typed'
  BY <1>1 DEF IInv, Typed
<1>4. Requests'
  BY <1>1 DEF IInv, Requests
<1>5. Whole'
  BY <1>1, <1>2 DEF IInv, Whole
<1>6. RoomLeft'
  BY <1>1, <1>2 DEF IInv, RoomLeft
<1> QED
  BY <1>3, <1>4, <1>5, <1>6 DEF IInv

\* The loop of draw_insts begins and ends with nobody's layer changed.
LEMMA DrawInstsInv ==
  ASSUME IInv, DrawInsts
  PROVE  IInv'
<1>1. /\ pc = "game" /\ pc' = "draw" /\ todo' = DOMAIN pending
      /\ UNCHANGED <<links, used, object, active, inactive, myiter, depth, pending>>
  BY DEF DrawInsts
<1>2. Waiting' = Waiting /\ Homes' = Homes
  BY <1>1 DEF Waiting, Applied, Homes
<1>3. Typed'
  BY <1>1 DEF IInv, Typed
<1>4. Requests'
  BY <1>1 DEF IInv, Requests
<1>5. Whole'
  BY <1>1, <1>2 DEF IInv, Whole
<1>6. RoomLeft'
  BY <1>1, <1>2 DEF IInv, RoomLeft
<1> QED
  BY <1>3, <1>4, <1>5, <1>6 DEF IInv

LEMMA ClearRequestsInv ==
  ASSUME IInv, ClearRequests
  PROVE  IInv'
<1>1. /\ pc = "draw" /\ pc' = "game" /\ todo = {} /\ DOMAIN pending' = {}
      /\ UNCHANGED <<links, used, object, active, inactive, myiter, depth, todo>>
  BY DEF ClearRequests
<1>2. Waiting = {} /\ Waiting' = {} /\ Homes' = Homes
  BY <1>1 DEF Waiting, Applied, Homes
<1>3. Typed'
  BY <1>1 DEF IInv, Typed
<1>4. Requests'
  BY <1>1, FS_EmptySet DEF IInv, Requests
<1>5. Whole'
  BY <1>1, <1>2 DEF IInv, Whole
<1>6. RoomLeft'
  BY <1>1, <1>2 DEF IInv, RoomLeft
<1> QED
  BY <1>3, <1>4, <1>5, <1>6 DEF IInv

\* One request is applied: the instance leaves the layer the request names first,
\* and comes to that of its depth.
LEMMA ApplyRequestInv ==
  ASSUME IInv, ApplyRequest
  PROVE  IInv'
<1>1. Typed /\ Requests /\ Layers(links, ContentsOf(active, myiter, Homes))
  BY DEF IInv, Whole
<1>2. PICK i \in todo :
        /\ todo' = todo \ {i}
        /\ IF i \in active
           THEN /\ links' = Added(Spliced(links, pending[i][1], myiter[i]),
                                pending[i][2], used + 1)
                /\ myiter' = [myiter EXCEPT ![i] = used + 1]
                /\ used' = used + 1
           ELSE UNCHANGED <<links, myiter, used>>
  BY DEF ApplyRequest
<1>3. /\ pc = "draw" /\ UNCHANGED <<object, active, inactive, depth, pending, pc>>
  BY DEF ApplyRequest
<1>4. Waiting = todo /\ Waiting' = todo \ {i} /\ i \in DOMAIN pending
  BY <1>1, <1>2, <1>3 DEF Waiting, Applied, Requests
<1>5. Requests'
  BY <1>1, <1>2, <1>3 DEF Requests
<1>6. \A j \in Ids : j # i => Homes'[j] = Homes[j]
  BY <1>3, <1>4 DEF Homes
<1> DEFINE c == Cardinality(todo)
<1>7. /\ IsFiniteSet(todo) /\ c \in Nat /\ c >= 1
      /\ Cardinality(todo \ {i}) = c - 1
      /\ used + c <= MaxNode /\ used \in Nat /\ MaxNode \in Nat
  <2>1. IsFiniteSet(todo)
    BY <1>1, FS_Subset DEF Requests
  <2>2. c \in Nat /\ c # 0
    BY <1>2, <2>1, FS_EmptySet, FS_CardinalityType
  <2>3. Cardinality(todo \ {i}) = c - 1
    BY <1>2, <2>1, FS_RemoveElement
  <2>4. used + c <= MaxNode /\ used \in Nat /\ MaxNode \in Nat
    BY <1>1, <1>4, DepthAssumption DEF IInv, RoomLeft, Typed
  <2> HIDE DEF c
  <2>5. c >= 1
    BY <2>2
  <2> QED
    BY <2>1, <2>2, <2>3, <2>4, <2>5
<1>8. CASE i \notin active
  <2>1. UNCHANGED <<links, myiter, used>>
    BY <1>2, <1>8
  <2>2. Typed'
    BY <1>1, <1>3, <2>1 DEF Typed
  <2>3. Whole'
    <3> DEFINE home2 == Homes'
    <3>1. \A j \in active : myiter[j] = myiter[j] /\ home2[j] = Homes[j]
      BY <1>1, <1>6, <1>8 DEF Typed
    <3> HIDE DEF home2
    <3>2. ContentsOf(active, myiter, home2) = ContentsOf(active, myiter, Homes)
      BY <3>1, ContentsSame
    <3> QED
      BY <1>1, <1>3, <2>1, <3>2 DEF Whole, home2
  <2>4. Cardinality(Waiting') = c - 1
    BY <1>4, <1>7
  <2>5. RoomLeft'
    <3> HIDE DEF c
    <3>1. used + (c - 1) <= MaxNode
      BY <1>7
    <3> QED
      BY <2>1, <2>4, <3>1 DEF RoomLeft
  <2> QED
    BY <1>5, <2>2, <2>3, <2>5 DEF IInv
<1>9. CASE i \in active
  <2> DEFINE a == used + 1
             d == depth[i]
             h == pending[i][1]
             l == Spliced(links, h, myiter[i])
  <2>1. /\ i \in Ids /\ d \in Depths /\ h \in Depths /\ pending[i][2] = d
        /\ Homes[i] = h /\ Homes'[i] = d
    BY <1>1, <1>3, <1>4, <1>9, <1>2 DEF Typed, Requests, Homes
  <2>2. /\ links' = Added(l, d, a) /\ myiter' = [myiter EXCEPT ![i] = a] /\ used' = a
    BY <1>2, <1>9, <2>1
  <2>3. /\ \A j \in active : j \in Ids /\ myiter[j] \in 1 .. used /\ depth[j] \in Depths
        /\ \A j, k \in active : myiter[j] = myiter[k] => j = k
        /\ DOMAIN myiter = Ids
    BY <1>1 DEF Typed
  <2>4. Layers(l, ContentsOf(active \ {i}, myiter, Homes))
    <3>1. Layers(Spliced(links, Homes[i], myiter[i]), ContentsOf(active \ {i}, myiter, Homes))
      BY <1>1, <1>9, <2>1, <2>3, Taken
    <3> QED
      BY <2>1, <3>1
  <2>6. a \in Node /\ a \in Nat /\ a <= MaxNode
    BY <1>7 DEF Node
  <2>7. \A j \in active : myiter[j] \in 1 .. a /\ myiter[j] < a /\ myiter[j] # a
    BY <1>7, <2>3
  <2>8. a \in 1 .. a
    BY <1>7
  <2> HIDE DEF a, d, h, l
  <2>9. /\ myiter'[i] = a /\ DOMAIN myiter' = Ids
        /\ \A j \in Ids : j # i => myiter'[j] = myiter[j]
    BY <2>1, <2>2, <2>3
  <2>10. Whole'
    <3> DEFINE it2 == myiter'
               home2 == Homes'
               A == active \ {i}
    <3>1. it2[i] = a /\ home2[i] = d /\ \A j \in A : it2[j] = myiter[j] /\ home2[j] = Homes[j]
      BY <1>6, <2>1, <2>3, <2>9
    <3>2. i \notin A /\ A \cup {i} = active /\ \A j \in A : myiter[j] < a
      BY <1>9, <2>7
    <3>3. Layers(l, ContentsOf(A, myiter, Homes))
      BY <2>4
    <3> HIDE DEF it2, home2, A
    <3>4. Layers(Added(l, d, a), ContentsOf(A \cup {i}, it2, home2))
      BY <2>1, <2>6, <3>1, <3>2, <3>3, Put
    <3> QED
      BY <1>3, <2>2, <3>2, <3>4 DEF Whole, it2, home2
  <2>11. Typed'
    <3>1. \A j \in active' : myiter'[j] \in 1 .. used' /\ depth'[j] \in Depths
      BY <1>3, <2>2, <2>3, <2>7, <2>8, <2>9
    <3>2. \A j, k \in active' : myiter'[j] = myiter'[k] => j = k
      BY <1>3, <2>3, <2>7, <2>9
    <3> QED
      BY <1>1, <1>3, <2>2, <2>6, <2>9, <3>1, <3>2 DEF Typed
  <2>12. RoomLeft'
    <3>1. Cardinality(Waiting') = c - 1
      BY <1>4, <1>7
    <3> HIDE DEF c
    <3>2. a + (c - 1) <= MaxNode
      BY <1>7 DEF a
    <3> QED
      BY <2>2, <3>1, <3>2 DEF RoomLeft
  <2> QED
    BY <1>5, <2>10, <2>11, <2>12 DEF IInv
<1> QED
  BY <1>8, <1>9

LEMMA NextInv ==
  ASSUME Careful, IInv, [Next]_vars
  PROVE  IInv'
<1>1. CASE UNCHANGED vars
  BY <1>1 DEF vars, IInv, Typed, Requests, Whole, RoomLeft, Waiting, Homes, Applied
<1>2. CASE Game
  <2>1. pc = "game" /\ UNCHANGED <<pc, todo>>
    BY <1>2 DEF Game
  <2>2. ASSUME NEW i \in Ids, NEW o \in Objects, InstanceCreate(i, o)
        PROVE  IInv'
    BY <2>1, <2>2, InstanceCreateInv
  <2>3. ASSUME NEW i \in Ids, NEW o \in Objects, InstanceChange(i, o)
        PROVE  IInv'
    BY <2>1, <2>3, InstanceChangeInv
  <2>4. ASSUME NEW i \in Ids, NEW d \in Depths, SetDepth(i, d)
        PROVE  IInv'
    BY <2>1, <2>4, SetDepthInv
  <2>5. ASSUME NEW i \in Ids, InstanceDestroy(i) \/ InstanceDeactivate(i)
        PROVE  IInv'
    BY <2>1, <2>5, RemoveInv
  <2>6. ASSUME NEW i \in Ids, InstanceActivate(i)
        PROVE  IInv'
    BY <2>1, <2>6, InstanceActivateInv
  <2>7. ASSUME ClearDeactivated
        PROVE  IInv'
    BY <2>1, <2>7, ClearDeactivatedInv
  <2> QED
    BY <1>2, <2>2, <2>3, <2>4, <2>5, <2>6, <2>7 DEF Game
<1>3. CASE DrawInsts
  BY <1>3, DrawInstsInv
<1>4. CASE ApplyRequest
  BY <1>4, ApplyRequestInv
<1>5. CASE ClearRequests
  BY <1>5, ClearRequestsInv
<1> QED
  BY <1>1, <1>2, <1>3, <1>4, <1>5 DEF Next

-----------------------------------------------------------------------------
(* The theorems, for every set of ids, objects and depths. *)

\* In a careful game the inductive invariant holds throughout.
THEOREM Invariance ==
  ASSUME Careful
  PROVE  Spec => []IInv
<1>1. IInv /\ [Next]_vars => IInv'
  BY NextInv
<1> QED
  BY <1>1, InitIInv, PTL DEF Spec

\* The chain of a layer has the nodes of the instances whose home it is.
LEMMA ChainsKnown ==
  ASSUME IInv
  PROVE  /\ \A d \in Depths : Chain(d) = {myiter[i] : i \in {j \in active : Homes[j] = d}}
         /\ \A d, e \in Depths : d # e => Chain(d) \cap Chain(e) = {}
         /\ \A i \in active : Homes[i] \in Depths
<1> DEFINE S == ContentsOf(active, myiter, Homes)
<1>1. Layers(links, S)
  BY DEF IInv, Whole
<1>2. \A d \in Depths : S[d] = {myiter[i] : i \in {j \in active : Homes[j] = d}}
  BY DEF ContentsOf
<1> HIDE DEF S
<1>3. \A d \in Depths : Chain(d) = S[d]
  BY <1>1, ChainIs DEF Layers
<1>4. \A d, e \in Depths : d # e => Chain(d) \cap Chain(e) = {}
  BY <1>1, <1>3 DEF Layers
<1>5. \A i \in active : Homes[i] \in Depths
  BY DEF IInv, Typed, Requests, Homes, Waiting
<1> QED
  BY <1>2, <1>3, <1>4, <1>5

\* Every active instance is on one layer's list and nothing else is on any, for any
\* number of instances and layers and however they are moved (depthv, draw_insts).
THEOREM DrawnOnce ==
  ASSUME Careful
  PROVE  Spec => []AllDrawnOnce
<1>1. IInv => AllDrawnOnce
  BY ChainsKnown DEF AllDrawnOnce
<1> QED
  BY <1>1, Invariance, PTL

\* The layer by which a node is unlinked is the layer it is on (depthv::remove,
\* draw_insts).
THEOREM LayerIsKnown ==
  ASSUME Careful
  PROVE  Spec => []LayerKnown
<1>1. IInv => LayerKnown
  <2> SUFFICES ASSUME IInv, NEW i \in active \ Applied
               PROVE  myiter[i] \in Chain(NamedLayer(i))
    BY DEF LayerKnown
  <2>1. i \in Ids
    BY DEF IInv, Typed
  <2>2. NamedLayer(i) = Homes[i]
    BY <2>1 DEF NamedLayer, Homes, Waiting
  <2> QED
    BY <2>2, ChainsKnown
<1> QED
  BY <1>1, Invariance, PTL

\* With no request left every instance is on the layer of its depth.
AtDepths == \A i \in active : myiter[i] \in Chain(depth[i])

\* When the requests are cleared, every instance is on the layer of the depth that
\* the game set last (depthv::function, draw_insts).
THEOREM DrawnAsSet ==
  ASSUME Careful
  PROVE  Spec => DrawnAtDepth
<1>1. IInv => (DOMAIN pending = {} => AtDepths)
  <2> SUFFICES ASSUME IInv, DOMAIN pending = {}, NEW i \in active
               PROVE  myiter[i] \in Chain(depth[i])
    BY DEF AtDepths
  <2>1. Homes[i] = depth[i]
    BY DEF IInv, Typed, Homes, Waiting
  <2> QED
    BY <2>1, ChainsKnown
<1>2. [Next]_vars => (ClearRequests => (DOMAIN pending = {})')
  BY DEF ClearRequests
<1>3. AtDepths' => (\A i \in active : myiter[i] \in Chain(depth[i]))'
  BY DEF AtDepths
<1> QED
  BY <1>1, <1>2, <1>3, Invariance, PTL DEF Spec, DrawnAtDepth
=============================================================================
