------------------------ MODULE InstanceSystemProofs ------------------------
(***************************************************************************)
(* Proofs about InstanceSystem, for all objects and ancestries, any number *)
(* of instances and any depth of nested events and calls of a careful game.*)
(***************************************************************************)
EXTENDS InstanceSystem, FiniteSetTheorems, SequenceTheorems, WellFoundedInduction, TLAPS

-----------------------------------------------------------------------------
(* Sets of numbers in ascending order. *)

\* A set of natural numbers that is not empty has a least member.
LEMMA LeastNatural ==
  ASSUME NEW T \in SUBSET Nat, T # {}
  PROVE  \E m \in T : \A k \in T : m <= k
<1> DEFINE Less == {x \in Nat \X Nat : x[1] < x[2]}
<1>1. IsWellFoundedOn(Less, Nat)
  BY NatLessThanWellFounded DEF OpToRel
<1>2. PICK m \in T : \A k \in T : <<k, m>> \notin Less
  BY <1>1, WFMin
<1>3. ASSUME NEW k \in T
      PROVE  m <= k
  <2>1. m \in Nat /\ k \in Nat
    OBVIOUS
  <2>2. <<k, m>> \in Nat \X Nat /\ <<k, m>>[1] = k /\ <<k, m>>[2] = m
    BY <2>1
  <2>3. ~(k < m)
    BY <2>2, <1>2
  <2> QED
    BY <2>1, <2>3
<1> QED
  BY <1>3

\* The members of T, in ascending order.
Enumerates(s, T) ==
  /\ s \in [1 .. Cardinality(T) -> T]
  /\ \A k, l \in DOMAIN s : k < l => s[k] < s[l]

\* There is one enumeration of no numbers.
LEMMA EmptyEnumeration == Enumerates(<<>>, {})
<1>1. Cardinality({}) = 0
  BY FS_EmptySet
<1>2. 1 .. 0 = {}
  OBVIOUS
<1>3. <<>> \in [1 .. 0 -> {}] /\ DOMAIN <<>> = {}
  BY <1>2
<1> QED
  BY <1>1, <1>3 DEF Enumerates

\* A set of numbers below a bound can be put in ascending order.
LEMMA EnumerationExists ==
  ASSUME NEW n \in Nat, NEW T \in SUBSET (0 .. n)
  PROVE  \E s : Enumerates(s, T)
<1> DEFINE Bad == {k \in Nat : \E U \in SUBSET (0 .. k) : ~(\E s : Enumerates(s, U))}
<1>1. SUFFICES ASSUME Bad # {} PROVE FALSE
  <2>1. n \notin Bad
    BY <1>1
  <2> QED
    BY <2>1
<1>2. Bad \in SUBSET Nat
  OBVIOUS
<1>3. PICK k \in Bad : \A j \in Bad : k <= j
  BY <1>1, <1>2, LeastNatural
<1>4. k \in Nat
  BY <1>2
<1>5. PICK U \in SUBSET (0 .. k) : ~(\E s : Enumerates(s, U))
  OBVIOUS
<1> HIDE DEF Bad
<1>6. IsFiniteSet(U) /\ Cardinality(U) \in Nat
  <2>1. IsFiniteSet(0 .. k)
    BY <1>4, FS_Interval
  <2> QED
    BY <2>1, FS_Subset, FS_CardinalityType
<1>7. U # {}
  <2>1. SUFFICES ASSUME U = {} PROVE FALSE
    OBVIOUS
  <2> QED
    BY <2>1, EmptyEnumeration, <1>5
<1> DEFINE V == U \ {k}
<1>8. IsFiniteSet(V) /\ Cardinality(V) \in Nat
      /\ Cardinality(U) = IF k \in U THEN Cardinality(V) + 1 ELSE Cardinality(V)
  <2>1. IsFiniteSet(V)
        /\ Cardinality(V) = IF k \in U THEN Cardinality(U) - 1 ELSE Cardinality(U)
    BY <1>6, FS_RemoveElement
  <2>2. Cardinality(V) \in Nat
    BY <2>1, FS_CardinalityType
  <2> HIDE DEF V
  <2> QED
    BY <1>6, <2>1, <2>2
<1>9. \E s : Enumerates(s, V)
  <2>1. CASE k = 0
    <3>1. V = {}
      BY <2>1
    <3> QED
      BY <3>1, EmptyEnumeration
  <2>2. CASE k > 0
    <3>1. k - 1 \in Nat /\ ~(k <= k - 1)
      BY <2>2, <1>4
    <3>2. V \in SUBSET (0 .. k - 1)
      BY <1>4, <2>2
    <3>3. k - 1 \notin Bad
      BY <3>1, <1>3
    <3> HIDE DEF V
    <3> QED
      BY <3>1, <3>2, <3>3 DEF Bad
  <2> QED
    BY <1>4, <2>1, <2>2
<1>10. PICK s : Enumerates(s, V)
  BY <1>9
<1>11. CASE k \in U
  <2> DEFINE c == Cardinality(V)
             t == [i \in 1 .. c + 1 |-> IF i = c + 1 THEN k ELSE s[i]]
  <2>1. c \in Nat /\ Cardinality(U) = c + 1
    BY <1>8, <1>11
  <2>2. s \in [1 .. c -> V] /\ \A i, j \in 1 .. c : i < j => s[i] < s[j]
    BY <1>10 DEF Enumerates
  <2> HIDE DEF c
  <2>3. \A i \in 1 .. c : s[i] \in U /\ s[i] < k /\ s[i] \in Nat
    <3>1. \A x \in V : x \in U /\ x < k /\ x \in Nat
      BY <1>4
    <3> QED
      BY <2>2, <3>1
  <2>4. t \in [1 .. c + 1 -> U]
    BY <2>1, <2>3, <1>11
  <2>5. ASSUME NEW i \in 1 .. c + 1, NEW j \in 1 .. c + 1, i < j
        PROVE  t[i] < t[j]
    <3>1. i \in 1 .. c /\ t[i] = s[i]
      BY <2>1, <2>5
    <3>2. CASE j = c + 1
      BY <3>1, <3>2, <2>3
    <3>3. CASE j # c + 1
      <4>1. j \in 1 .. c /\ t[j] = s[j]
        BY <2>1, <3>3
      <4> QED
        BY <3>1, <4>1, <2>2, <2>5
    <3> QED
      BY <3>2, <3>3
  <2>6. DOMAIN t = 1 .. c + 1
    OBVIOUS
  <2> HIDE DEF t
  <2>7. Enumerates(t, U)
    BY <2>1, <2>4, <2>5, <2>6 DEF Enumerates
  <2> QED
    BY <2>7, <1>5
<1>12. CASE k \notin U
  <2>1. V = U
    BY <1>12
  <2> QED
    BY <2>1, <1>10, <1>5
<1> QED
  BY <1>11, <1>12

\* Ascending(T) is a sequence of the members of T, each once.
LEMMA AscendingShape ==
  ASSUME NEW n \in Nat, NEW T \in SUBSET (0 .. n)
  PROVE  /\ IsFiniteSet(T) /\ Cardinality(T) \in Nat
         /\ Ascending(T) \in [1 .. Cardinality(T) -> T]
         /\ \A k, l \in 1 .. Cardinality(T) : Ascending(T)[k] = Ascending(T)[l] => k = l
         /\ \A x \in T : \E k \in 1 .. Cardinality(T) : Ascending(T)[k] = x
<1> DEFINE c == Cardinality(T)
           s == Ascending(T)
<1>1. IsFiniteSet(T) /\ c \in Nat
  <2>1. IsFiniteSet(0 .. n)
    BY FS_Interval
  <2> QED
    BY <2>1, FS_Subset, FS_CardinalityType
<1>2. s \in [1 .. c -> T] /\ \A k, l \in DOMAIN s : k < l => s[k] < s[l]
  <2>1. PICK t : Enumerates(t, T)
    BY EnumerationExists
  <2>2. \E u \in [1 .. Cardinality(T) -> T] : \A k, l \in DOMAIN u : k < l => u[k] < u[l]
    BY <2>1 DEF Enumerates
  <2> QED
    BY <2>2 DEF Ascending
<1> HIDE DEF c, s
<1>3. ASSUME NEW k \in 1 .. c, NEW l \in 1 .. c, s[k] = s[l]
      PROVE  k = l
  <2>1. s[k] \in Nat /\ s[l] \in Nat
    <3>1. T \subseteq Nat
      OBVIOUS
    <3> QED
      BY <1>2, <3>1
  <2> QED
    BY <1>2, <1>3, <2>1, <1>1
<1>4. s \in Injection(1 .. c, T)
  BY <1>2, <1>3 DEF Injection, IsInjective
<1>5. Cardinality(1 .. c) = c
  BY <1>1, FS_Interval
<1>6. s \in Surjection(1 .. c, T)
  BY <1>1, <1>4, <1>5, FS_Injection DEF c
<1>7. \A x \in T : \E k \in 1 .. c : s[k] = x
  BY <1>6 DEF Surjection
<1> QED
  BY <1>1, <1>2, <1>3, <1>7 DEF c, s

-----------------------------------------------------------------------------
(* Sequences. *)

\* What f has at the numbers of T: one entry for each.
LEMMA PickedShape ==
  ASSUME NEW n \in Nat, NEW T \in SUBSET (0 .. n), NEW P, NEW f, \A x \in T : f[x] \in P
  PROVE  /\ Picked(f, T) \in Seq(P)
         /\ ToSet(Picked(f, T)) = {f[x] : x \in T}
         /\ (\A x, y \in T : f[x] = f[y] => x = y) => IsInjective(Picked(f, T))
<1> DEFINE c == Cardinality(T)
           a == Ascending(T)
           r == [k \in 1 .. c |-> f[a[k]]]
<1>1. /\ c \in Nat /\ a \in [1 .. c -> T]
      /\ \A k, l \in 1 .. c : a[k] = a[l] => k = l
      /\ \A x \in T : \E k \in 1 .. c : a[k] = x
  BY AscendingShape
<1>2. Picked(f, T) = r
  <2>1. DOMAIN a = 1 .. c
    BY <1>1
  <2> QED
    BY <2>1 DEF Picked
<1> HIDE DEF c, a
<1>3. r \in [1 .. c -> P]
  BY <1>1
<1>4. r \in Seq(P)
  BY <1>1, <1>3
<1>5. ToSet(r) = {f[x] : x \in T}
  <2>1. ToSet(r) = {f[a[k]] : k \in 1 .. c}
    BY DEF ToSet
  <2>2. \A k \in 1 .. c : a[k] \in T
    BY <1>1
  <2>3. ASSUME NEW x \in T
        PROVE  \E k \in 1 .. c : f[a[k]] = f[x]
    <3>1. PICK k \in 1 .. c : a[k] = x
      BY <1>1
    <3> QED
      BY <3>1
  <2> QED
    BY <2>1, <2>2, <2>3
<1>6. (\A x, y \in T : f[x] = f[y] => x = y) => IsInjective(r)
  <2>1. DOMAIN r = 1 .. c /\ \A k \in 1 .. c : a[k] \in T /\ r[k] = f[a[k]]
    BY <1>1
  <2>2. SUFFICES ASSUME \A x, y \in T : f[x] = f[y] => x = y,
                        NEW k \in 1 .. c, NEW l \in 1 .. c, r[k] = r[l]
                 PROVE  k = l
    BY <2>1 DEF IsInjective
  <2>3. a[k] \in T /\ a[l] \in T /\ f[a[k]] = f[a[l]]
    BY <2>1, <2>2
  <2>4. a[k] = a[l]
    BY <2>2, <2>3
  <2> QED
    BY <2>4, <1>1
<1> QED
  BY <1>2, <1>4, <1>5, <1>6

\* The entries of s in S, once each if s has them once each.
LEMMA KeptShape ==
  ASSUME NEW P, NEW s \in Seq(P), NEW S
  PROVE  /\ Kept(s, S) \in Seq(P)
         /\ ToSet(Kept(s, S)) = ToSet(s) \cap S
         /\ IsInjective(s) => IsInjective(Kept(s, S))
<1> DEFINE T == {i \in DOMAIN s : s[i] \in S}
<1>1. Len(s) \in Nat /\ DOMAIN s = 1 .. Len(s)
  OBVIOUS
<1>2. T \in SUBSET (0 .. Len(s))
  BY <1>1
<1>3. \A x \in T : x \in DOMAIN s /\ s[x] \in P
  BY <1>1
<1>4. {s[x] : x \in T} = ToSet(s) \cap S
  BY DEF ToSet
<1>5. IsInjective(s) => \A x, y \in T : s[x] = s[y] => x = y
  BY DEF IsInjective
<1>6. Kept(s, S) = Picked(s, T)
  BY DEF Kept
<1> HIDE DEF T
<1>8. /\ Picked(s, T) \in Seq(P)
      /\ ToSet(Picked(s, T)) = {s[x] : x \in T}
      /\ (\A x, y \in T : s[x] = s[y] => x = y) => IsInjective(Picked(s, T))
  BY <1>1, <1>2, <1>3, PickedShape
<1> QED
  BY <1>4, <1>5, <1>6, <1>8

\* A list without repetitions, without the entries in S.
LEMMA OffShape ==
  ASSUME NEW P, NEW s \in Seq(P), NEW S, IsInjective(s)
  PROVE  /\ Off(s, S) \in Seq(P)
         /\ ToSet(Off(s, S)) = ToSet(s) \ S
         /\ IsInjective(Off(s, S))
<1> DEFINE T == {i \in DOMAIN s : s[i] \in S => \E j \in DOMAIN s : i < j /\ s[j] = s[i]}
<1>1. Len(s) \in Nat /\ DOMAIN s = 1 .. Len(s)
  OBVIOUS
<1>2. T \in SUBSET (0 .. Len(s))
  BY <1>1
<1>3. T = {i \in DOMAIN s : s[i] \notin S}
  <2>1. ASSUME NEW i \in DOMAIN s, NEW j \in DOMAIN s, s[j] = s[i]
        PROVE  ~(i < j)
    BY <2>1, <1>1 DEF IsInjective
  <2> QED
    BY <2>1
<1>4. \A x \in T : x \in DOMAIN s /\ s[x] \in P
  BY <1>1
<1>5. {s[x] : x \in T} = ToSet(s) \ S
  BY <1>3 DEF ToSet
<1>6. \A x, y \in T : s[x] = s[y] => x = y
  BY DEF IsInjective
<1>7. Off(s, S) = Picked(s, T)
  BY DEF Off
<1> HIDE DEF T
<1>8. /\ Picked(s, T) \in Seq(P)
      /\ ToSet(Picked(s, T)) = {s[x] : x \in T}
      /\ (\A x, y \in T : s[x] = s[y] => x = y) => IsInjective(Picked(s, T))
  BY <1>1, <1>2, <1>4, PickedShape
<1> QED
  BY <1>5, <1>6, <1>7, <1>8

\* A list without repetitions is as long as the set of its members is large.
LEMMA InjectiveLen ==
  ASSUME NEW P, NEW s \in Seq(P), IsInjective(s)
  PROVE  IsFiniteSet(ToSet(s)) /\ Cardinality(ToSet(s)) = Len(s)
<1>1. Len(s) \in Nat /\ DOMAIN s = 1 .. Len(s)
  OBVIOUS
<1>2. s \in Bijection(1 .. Len(s), ToSet(s))
  <2>1. s \in [1 .. Len(s) -> ToSet(s)]
    BY <1>1 DEF ToSet
  <2>2. \A x, y \in 1 .. Len(s) : s[x] = s[y] => x = y
    BY <1>1 DEF IsInjective
  <2>3. \A x \in ToSet(s) : \E k \in 1 .. Len(s) : s[k] = x
    BY <1>1 DEF ToSet
  <2> QED
    BY <2>1, <2>2, <2>3 DEF Bijection, Injection, Surjection, IsInjective
<1>3. IsFiniteSet(1 .. Len(s)) /\ Cardinality(1 .. Len(s)) = Len(s)
  BY <1>1, FS_Interval
<1> QED
  BY <1>2, <1>3, FS_Bijection DEF ExistsBijection

\* The members of a concatenation; it has no repetitions if its parts have none
\* and no member in common.
LEMMA ConcatShape ==
  ASSUME NEW P, NEW s \in Seq(P), NEW t \in Seq(P)
  PROVE  /\ s \o t \in Seq(P) /\ Len(s \o t) = Len(s) + Len(t)
         /\ ToSet(s \o t) = ToSet(s) \cup ToSet(t)
         /\ IsInjective(s) /\ IsInjective(t) /\ ToSet(s) \cap ToSet(t) = {}
              => IsInjective(s \o t)
<1>1. /\ Len(s) \in Nat /\ DOMAIN s = 1 .. Len(s)
      /\ Len(t) \in Nat /\ DOMAIN t = 1 .. Len(t)
  OBVIOUS
<1> DEFINE u == s \o t
<1>2. /\ u \in Seq(P) /\ Len(u) = Len(s) + Len(t) /\ DOMAIN u = 1 .. Len(s) + Len(t)
      /\ \A i \in 1 .. Len(s) + Len(t) : u[i] = IF i <= Len(s) THEN s[i] ELSE t[i - Len(s)]
  BY <1>1
<1> HIDE DEF u
<1>3. \A i \in DOMAIN u : \/ i \in DOMAIN s /\ u[i] = s[i]
                          \/ i - Len(s) \in DOMAIN t /\ u[i] = t[i - Len(s)]
  BY <1>1, <1>2
<1>4. ToSet(u) = ToSet(s) \cup ToSet(t)
  <2>1. \A i \in DOMAIN s : i \in DOMAIN u /\ u[i] = s[i]
    BY <1>1, <1>2
  <2>2. ASSUME NEW j \in DOMAIN t
        PROVE  j + Len(s) \in DOMAIN u /\ u[j + Len(s)] = t[j]
    BY <1>1, <1>2
  <2> QED
    BY <1>3, <2>1, <2>2 DEF ToSet
<1>5. ASSUME IsInjective(s), IsInjective(t), ToSet(s) \cap ToSet(t) = {},
             NEW i \in DOMAIN u, NEW j \in DOMAIN u, u[i] = u[j]
      PROVE  i = j
  <2>1. i \in Int /\ j \in Int /\ Len(s) \in Int
    BY <1>1, <1>2
  <2>2. CASE i \in DOMAIN s /\ u[i] = s[i] /\ j \in DOMAIN s /\ u[j] = s[j]
    BY <1>5, <2>2 DEF IsInjective
  <2>3. CASE /\ i - Len(s) \in DOMAIN t /\ u[i] = t[i - Len(s)]
             /\ j - Len(s) \in DOMAIN t /\ u[j] = t[j - Len(s)]
    <3>1. i - Len(s) = j - Len(s)
      BY <1>5, <2>3 DEF IsInjective
    <3> QED
      BY <2>1, <3>1
  <2>4. ASSUME NEW k \in DOMAIN s, NEW l \in DOMAIN t
        PROVE  s[k] # t[l]
    BY <1>5 DEF ToSet
  <2> QED
    BY <1>3, <1>5, <2>2, <2>3, <2>4
<1>6. IsInjective(s) /\ IsInjective(t) /\ ToSet(s) \cap ToSet(t) = {} => IsInjective(u)
  BY <1>5 DEF IsInjective
<1> QED
  BY <1>2, <1>4, <1>6 DEF u

\* The instances of a map in the order of their ids.
LEMMA InOrderShape ==
  ASSUME NEW P, NEW n \in Nat, NEW map, DOMAIN map \subseteq 0 .. n,
         \A d \in DOMAIN map : map[d] \in P
  PROVE  /\ InOrder(map) \in Seq(P)
         /\ ToSet(InOrder(map)) = Values(map)
         /\ (\A d, e \in DOMAIN map : map[d] = map[e] => d = e) => IsInjective(InOrder(map))
<1> DEFINE T == DOMAIN map
<1>1. /\ Picked(map, T) \in Seq(P)
      /\ ToSet(Picked(map, T)) = {map[x] : x \in T}
      /\ (\A x, y \in T : map[x] = map[y] => x = y) => IsInjective(Picked(map, T))
  BY PickedShape
<1> QED
  BY <1>1 DEF InOrder, Values

\* Of ps, those of o's kind join its list.
LEMMA JoiningShape ==
  ASSUME NEW P, NEW ps \in Seq(P), NEW i, NEW o
  PROVE  /\ Joining(ps, i, o) \in Seq(P)
         /\ ToSet(Joining(ps, i, o)) = {p \in ToSet(ps) : o \in Kinds[i[p].obj]}
         /\ IsInjective(ps) => IsInjective(Joining(ps, i, o))
<1> DEFINE S == {p \in ToSet(ps) : o \in Kinds[i[p].obj]}
<1>1. /\ Kept(ps, S) \in Seq(P)
      /\ ToSet(Kept(ps, S)) = ToSet(ps) \cap S
      /\ IsInjective(ps) => IsInjective(Kept(ps, S))
  BY KeptShape
<1> QED
  BY <1>1 DEF Joining

-----------------------------------------------------------------------------
(* The registries. *)

\* The instances that are neither destroyed nor deleted.
Alive == DOMAIN inst \ (cleanups \cup deleted)

Instance == [id : Nat, obj : Objects]

\* What the registries keep between any two steps.  The ids that are handed out
\* next are above every id.
Typed ==
  /\ inst \in Seq(Instance) /\ Len(inst) <= MaxInst
  /\ Values(list) \subseteq DOMAIN inst
  /\ Values(inactive) \subseteq DOMAIN inst
  /\ cleanups \subseteq DOMAIN inst
  /\ deleted \subseteq DOMAIN inst
  /\ maxid \in Nat
  /\ \A p \in DOMAIN inst : Id(p) < maxid
  /\ misuse = FALSE
RollsTyped ==
  /\ roll \in [Objects -> Seq(Ptr)]
  /\ count \in [Objects -> Nat]
Separate ==
  /\ Values(list) \cap Values(inactive) = {}
  /\ (Values(list) \cup Values(inactive)) \cap cleanups = {}
  /\ deleted = DOMAIN inst \ (Values(list) \cup Values(inactive) \cup cleanups)
ById ==
  /\ \A p, q \in Alive : Id(p) = Id(q) => p = q
  /\ \A d \in DOMAIN list : Id(list[d]) = d
  /\ \A d \in DOMAIN inactive : Id(inactive[d]) = d
Registered == Typed /\ RollsTyped /\ Separate /\ RollsAgree /\ ById

\* Instances are records with an id below maxid and an object.
LEMMA InstanceShape ==
  ASSUME Typed
  PROVE  /\ DOMAIN inst = 1 .. Len(inst) /\ Len(inst) \in Nat /\ DOMAIN inst \subseteq Ptr
         /\ \A p \in DOMAIN inst : /\ Id(p) \in Nat /\ Id(p) < maxid
                                   /\ Obj(p) \in Objects /\ Kinds[Obj(p)] \subseteq Objects
<1>1. MaxInst \in Nat /\ Kinds \in [Objects -> SUBSET Objects]
  BY KindsAssumption
<1>2. DOMAIN inst = 1 .. Len(inst) /\ Len(inst) \in Nat /\ Len(inst) <= MaxInst
  BY DEF Typed
<1>3. \A p \in DOMAIN inst : inst[p] \in Instance
  BY <1>2 DEF Typed
<1>4. \A p \in DOMAIN inst : Id(p) \in Nat /\ Obj(p) \in Objects
  BY <1>3 DEF Id, Obj, Instance
<1> QED
  BY <1>1, <1>2, <1>4 DEF Typed, Ptr

\* The two id maps lead to an instance by its id.
LEMMA MapsById ==
  ASSUME Registered
  PROVE  /\ \A d \in DOMAIN list : list[d] \in Values(list) /\ Id(list[d]) = d /\ d \in Nat
         /\ \A p \in Values(list) : Id(p) \in DOMAIN list /\ list[Id(p)] = p
         /\ \A d \in DOMAIN inactive :
               inactive[d] \in Values(inactive) /\ Id(inactive[d]) = d /\ d \in Nat
         /\ \A p \in Values(inactive) : Id(p) \in DOMAIN inactive /\ inactive[Id(p)] = p
<1>1. /\ \A d \in DOMAIN list : list[d] \in Values(list) /\ Id(list[d]) = d
      /\ \A d \in DOMAIN inactive : inactive[d] \in Values(inactive) /\ Id(inactive[d]) = d
  BY DEF Registered, ById, Values
<1>2. \A p \in DOMAIN inst : Id(p) \in Nat
  BY InstanceShape DEF Registered
<1>3. Values(list) \subseteq DOMAIN inst /\ Values(inactive) \subseteq DOMAIN inst
  BY DEF Registered, Typed
<1>4. /\ \A p \in Values(list) : \E d \in DOMAIN list : p = list[d]
      /\ \A p \in Values(inactive) : \E d \in DOMAIN inactive : p = inactive[d]
  BY DEF Values
<1> QED
  BY <1>1, <1>2, <1>3, <1>4

\* An instance is alive exactly if it is on one of the two lists.
LEMMA AliveListed ==
  ASSUME Registered
  PROVE  /\ Alive = Values(list) \cup Values(inactive)
         /\ Values(list) \cap Values(inactive) = {}
         /\ Alive \subseteq DOMAIN inst
         /\ \A p, q \in Alive : Id(p) = Id(q) => p = q
  BY DEF Registered, Separate, Typed, ById, Alive

\* So the registries are in the state that OnePlace and UniqueIds describe.
LEMMA Placed ==
  ASSUME Registered
  PROVE  OnePlace /\ UniqueIds
<1>1. UniqueIds
  BY DEF Registered, ById, UniqueIds, Alive
<1>2. \A p \in DOMAIN inst : p \in UNION {Values(list), Values(inactive), cleanups}
                               <=> p \in Values(list) \/ p \in Values(inactive) \/ p \in cleanups
  OBVIOUS
<1>3. OnePlace
  BY <1>2 DEF OnePlace, Registered, Separate, Typed
<1> QED
  BY <1>1, <1>3

-----------------------------------------------------------------------------
(* What activate and deactivate do to the lists. *)

\* deactivate() of active instances takes them, and only them, off every list
\* they are on.
LEMMA DeactivateRolls ==
  ASSUME Registered, NEW S \in SUBSET Values(list), Deactivate(S), UNCHANGED inst
  PROVE  /\ Values(list') = Values(list) \ S
         /\ \A d \in DOMAIN list' : d \in DOMAIN list /\ list'[d] = list[d]
         /\ RollsTyped' /\ RollsAgree' /\ misuse' = FALSE
<1>1. /\ \A d \in DOMAIN list : list[d] \in Values(list) /\ Id(list[d]) = d
      /\ \A p \in Values(list) : Id(p) \in DOMAIN list /\ list[Id(p)] = p
  BY MapsById
<1>2. /\ DOMAIN list' = DOMAIN list \ Ids(S)
      /\ \A d \in DOMAIN list' : list'[d] = list[d]
  BY DEF Deactivate, Without
<1>3. Values(list') = Values(list) \ S
  <2>1. \A d \in DOMAIN list : d \in Ids(S) <=> list[d] \in S
    BY <1>1 DEF Ids
  <2> QED
    BY <1>2, <2>1 DEF Values
<1>4. ASSUME NEW o \in Objects
      PROVE  /\ roll'[o] \in Seq(Ptr) /\ IsInjective(roll'[o])
             /\ ToSet(roll'[o]) = {p \in Values(list') : o \in Kinds[Obj(p)']}
             /\ count'[o] = Len(roll'[o]) /\ count'[o] \in Nat
  <2> DEFINE X == {p \in S : o \in Kinds[Obj(p)]}
  <2>1. /\ roll[o] \in Seq(Ptr) /\ IsInjective(roll[o])
        /\ ToSet(roll[o]) = {p \in Values(list) : o \in Kinds[Obj(p)]}
        /\ count[o] = Len(roll[o])
    BY DEF Registered, RollsTyped, RollsAgree
  <2>2. roll'[o] = Off(roll[o], X) /\ count'[o] = count[o] - Cardinality(X)
    BY DEF Deactivate
  <2>3. X \subseteq ToSet(roll[o])
    BY <2>1
  <2>4. {p \in Values(list') : o \in Kinds[Obj(p)']} = ToSet(roll[o]) \ X
    BY <2>1, <1>3 DEF Obj
  <2> HIDE DEF X
  <2>5. /\ Off(roll[o], X) \in Seq(Ptr) /\ ToSet(Off(roll[o], X)) = ToSet(roll[o]) \ X
        /\ IsInjective(Off(roll[o], X))
    BY <2>1, OffShape
  <2>6. /\ IsFiniteSet(ToSet(roll[o])) /\ Cardinality(ToSet(roll[o])) = Len(roll[o])
        /\ Cardinality(ToSet(Off(roll[o], X))) = Len(Off(roll[o], X))
    BY <2>1, <2>5, InjectiveLen
  <2>7. Cardinality(ToSet(roll[o]) \ X)
          = Cardinality(ToSet(roll[o])) - Cardinality(ToSet(roll[o]) \cap X)
    BY <2>6, FS_Difference
  <2>8. ToSet(roll[o]) \cap X = X
    BY <2>3
  <2>9. Len(roll'[o]) = Len(roll[o]) - Cardinality(X)
    BY <2>2, <2>5, <2>6, <2>7, <2>8
  <2>10. Len(roll'[o]) \in Nat
    BY <2>2, <2>5
  <2> QED
    BY <2>1, <2>2, <2>4, <2>5, <2>9, <2>10
<1>5. /\ DOMAIN roll' = Objects /\ roll' = [o \in Objects |-> roll'[o]]
      /\ DOMAIN count' = Objects /\ count' = [o \in Objects |-> count'[o]]
  BY DEF Deactivate
<1>6. RollsTyped'
  BY <1>4, <1>5 DEF RollsTyped
<1>7. RollsAgree'
  BY <1>4 DEF RollsAgree
<1>8. misuse' = FALSE
  <2>1. misuse' = (misuse \/ \E p \in S : p \notin Values(list))
    BY DEF Deactivate
  <2>2. misuse = FALSE
    BY DEF Registered, Typed
  <2> QED
    BY <2>1, <2>2
<1> QED
  BY <1>2, <1>3, <1>6, <1>7, <1>8

\* activate() of instances that are on no list, and whose ids no active instance
\* has, puts them, and only them, on every list they belong to.
LEMMA ActivateRolls ==
  ASSUME Registered, NEW ps \in Seq(Ptr), IsInjective(ps),
         \A p \in DOMAIN inst : inst'[p] = inst[p],
         ToSet(ps) \cap Values(list) = {},
         \A p \in ToSet(ps) : inst'[p].id \notin DOMAIN list,
         \A p, q \in ToSet(ps) : inst'[p].id = inst'[q].id => p = q,
         Activate(ps, inst')
  PROVE  /\ Values(list') = Values(list) \cup ToSet(ps)
         /\ \A d \in DOMAIN list : d \in DOMAIN list' /\ list'[d] = list[d]
         /\ \A p \in ToSet(ps) : inst'[p].id \in DOMAIN list' /\ list'[inst'[p].id] = p
         /\ \A d \in DOMAIN list' : inst'[list'[d]].id = d
         /\ RollsTyped' /\ RollsAgree'
<1>1. /\ \A d \in DOMAIN list : list[d] \in Values(list) /\ Id(list[d]) = d
      /\ \A p \in Values(list) : p \in DOMAIN inst /\ Id(p) \in DOMAIN list
  BY MapsById DEF Registered, Typed
<1>2. {p \in ToSet(ps) : inst'[p].id \notin DOMAIN list} = ToSet(ps)
  OBVIOUS
<1>3. list' = [d \in DOMAIN list \cup {inst'[p].id : p \in ToSet(ps)} |->
                 IF d \in DOMAIN list THEN list[d]
                 ELSE CHOOSE p \in ToSet(ps) : inst'[p].id = d]
  BY <1>2 DEF Activate
<1>4. \A d \in DOMAIN list : d \in DOMAIN list' /\ list'[d] = list[d]
  BY <1>3
<1>5. \A p \in ToSet(ps) : inst'[p].id \in DOMAIN list' /\ list'[inst'[p].id] = p
  BY <1>3
<1>6. \A d \in DOMAIN list' : d \in DOMAIN list \/ \E p \in ToSet(ps) : inst'[p].id = d
  BY <1>3
<1> HIDE <1>3
<1>7. Values(list') = Values(list) \cup ToSet(ps)
  BY <1>4, <1>5, <1>6 DEF Values
<1>8. \A d \in DOMAIN list' : inst'[list'[d]].id = d
  BY <1>1, <1>4, <1>5, <1>6 DEF Id
<1>9. ASSUME NEW o \in Objects
      PROVE  /\ roll'[o] \in Seq(Ptr) /\ IsInjective(roll'[o])
             /\ ToSet(roll'[o]) = {p \in Values(list') : o \in Kinds[Obj(p)']}
             /\ count'[o] = Len(roll'[o]) /\ count'[o] \in Nat
  <2> DEFINE J == Joining(ps, inst', o)
  <2>1. /\ roll[o] \in Seq(Ptr) /\ IsInjective(roll[o])
        /\ ToSet(roll[o]) = {p \in Values(list) : o \in Kinds[Obj(p)]}
        /\ count[o] = Len(roll[o])
    BY DEF Registered, RollsTyped, RollsAgree
  <2>2. roll'[o] = roll[o] \o J /\ count'[o] = count[o] + Len(J)
    BY DEF Activate
  <2>3. J \in Seq(Ptr) /\ IsInjective(J)
        /\ ToSet(J) = {p \in ToSet(ps) : o \in Kinds[inst'[p].obj]}
    BY JoiningShape
  <2> HIDE DEF J
  <2>4. ToSet(roll[o]) \cap ToSet(J) = {}
    BY <2>1, <2>3
  <2>5. {p \in Values(list') : o \in Kinds[Obj(p)']} = ToSet(roll[o]) \cup ToSet(J)
    <3>1. \A p \in Values(list) : Obj(p) = inst'[p].obj
      BY <1>1 DEF Obj
    <3>2. \A p : Obj(p)' = inst'[p].obj
      BY DEF Obj
    <3> QED
      BY <1>7, <2>1, <2>3, <3>1, <3>2
  <2>6. /\ roll[o] \o J \in Seq(Ptr) /\ Len(roll[o] \o J) = Len(roll[o]) + Len(J)
        /\ ToSet(roll[o] \o J) = ToSet(roll[o]) \cup ToSet(J)
        /\ IsInjective(roll[o] \o J)
    BY <2>1, <2>3, <2>4, ConcatShape
  <2>7. Len(roll[o] \o J) \in Nat
    BY <2>6
  <2> QED
    BY <2>1, <2>2, <2>5, <2>6, <2>7
<1>10. /\ DOMAIN roll' = Objects /\ roll' = [o \in Objects |-> roll'[o]]
       /\ DOMAIN count' = Objects /\ count' = [o \in Objects |-> count'[o]]
  BY DEF Activate
<1>11. RollsTyped'
  BY <1>9, <1>10 DEF RollsTyped
<1>12. RollsAgree'
  BY <1>9 DEF RollsAgree
<1> QED
  BY <1>4, <1>5, <1>7, <1>8, <1>11, <1>12

-----------------------------------------------------------------------------
(* Every engine function leaves the registries in order. *)

\* A constructor, with an id that no instance has that is still alive.
LEMMA ConstructKeeps ==
  ASSUME Registered, NEW d \in Nat, NEW o \in Objects, Construct(d, o),
         Len(inst) < MaxInst, \A p \in Alive : Id(p) # d,
         maxid' \in Nat, maxid <= maxid', d < maxid',
         UNCHANGED <<inactive, cleanups, deleted, misuse>>
  PROVE  /\ Registered'
         /\ Len(inst') = Len(inst) + 1
         /\ inst'[Len(inst')].id = d /\ inst'[Len(inst')].obj \in Objects
         /\ \A p \in DOMAIN inst : p \in DOMAIN inst' /\ inst'[p] = inst[p]
         /\ Values(list') = Values(list) \cup {Len(inst')}
         /\ d \in DOMAIN list' /\ list'[d] = Len(inst')
         /\ Alive' = Alive \cup {Len(inst')}
<1> DEFINE new == Len(inst) + 1
           r == [id |-> d, obj |-> o]
<1>1. /\ inst \in Seq(Instance) /\ Len(inst) \in Nat /\ DOMAIN inst = 1 .. Len(inst)
      /\ MaxInst \in Nat
  BY KindsAssumption DEF Registered, Typed
<1>2. inst' = Append(inst, r) /\ Activate(<<new>>, inst')
  BY DEF Construct
<1>3. r \in Instance /\ r.id = d
  BY DEF Instance
<1>4. /\ inst' \in Seq(Instance) /\ Len(inst') = new /\ DOMAIN inst' = 1 .. new
      /\ inst'[new] = r
      /\ \A p \in DOMAIN inst : p \in DOMAIN inst' /\ inst'[p] = inst[p]
  BY <1>1, <1>2, <1>3
<1>5. new \notin DOMAIN inst /\ new \in Ptr /\ DOMAIN inst' = DOMAIN inst \cup {new}
  BY <1>1, <1>4 DEF Ptr
<1> HIDE DEF new, r
<1>6. <<new>> \in Seq(Ptr) /\ ToSet(<<new>>) = {new} /\ IsInjective(<<new>>)
  <2>1. DOMAIN <<new>> = {1}
    OBVIOUS
  <2> QED
    BY <1>5, <2>1 DEF ToSet, IsInjective
<1>7. /\ Alive = Values(list) \cup Values(inactive) /\ Alive \subseteq DOMAIN inst
      /\ \A p, q \in Alive : Id(p) = Id(q) => p = q
  BY AliveListed
<1>8. d \notin DOMAIN list
  BY <1>7, MapsById
<1>9. /\ Values(list') = Values(list) \cup {new}
      /\ d \in DOMAIN list' /\ list'[d] = new
      /\ \A e \in DOMAIN list' : inst'[list'[e]].id = e
      /\ RollsTyped' /\ RollsAgree'
  <2>1. \A p \in ToSet(<<new>>) : p = new /\ inst'[p].id = d
    BY <1>3, <1>4, <1>6
  <2>2. ToSet(<<new>>) \cap Values(list) = {}
    BY <1>5, <1>6, <1>7
  <2>3. /\ \A p \in ToSet(<<new>>) : inst'[p].id \notin DOMAIN list
        /\ \A p, q \in ToSet(<<new>>) : inst'[p].id = inst'[q].id => p = q
    BY <2>1, <1>8
  <2>4. /\ Values(list') = Values(list) \cup ToSet(<<new>>)
        /\ \A p \in ToSet(<<new>>) : inst'[p].id \in DOMAIN list' /\ list'[inst'[p].id] = p
        /\ \A e \in DOMAIN list' : inst'[list'[e]].id = e
        /\ RollsTyped' /\ RollsAgree'
    BY <1>2, <1>4, <1>6, <2>2, <2>3, ActivateRolls
  <2> QED
    BY <1>6, <2>1, <2>4
<1>10. Alive' = Alive \cup {new}
  <2>1. cleanups \subseteq DOMAIN inst /\ deleted \subseteq DOMAIN inst
    BY DEF Registered, Typed
  <2> QED
    BY <1>5, <2>1 DEF Alive
<1>11. \A p \in DOMAIN inst' : inst'[p].id < maxid'
  <2>1. \A p \in DOMAIN inst : Id(p) \in Nat /\ Id(p) < maxid
    BY InstanceShape DEF Registered
  <2>2. maxid \in Nat
    BY DEF Registered, Typed
  <2>3. \A p \in DOMAIN inst : inst'[p].id < maxid'
    <3>1. \A p \in DOMAIN inst : inst'[p].id = Id(p)
      BY <1>4 DEF Id
    <3> QED
      BY <2>1, <2>2, <3>1
  <2>4. inst'[new].id < maxid'
    BY <1>3, <1>4
  <2> QED
    BY <1>5, <2>3, <2>4
<1>12. Typed'
  <2>1. Len(inst') <= MaxInst
    BY <1>1, <1>4 DEF new
  <2> QED
    BY <1>4, <1>5, <1>9, <1>11, <2>1 DEF Registered, Typed, Values, Id
<1>13. Separate'
  <2>1. Separate /\ cleanups \subseteq DOMAIN inst /\ Values(inactive) \subseteq DOMAIN inst
    BY DEF Registered, Typed
  <2>2. Values(inactive') = Values(inactive)
    BY DEF Values
  <2> QED
    BY <1>5, <1>9, <2>1, <2>2 DEF Separate
<1>14. ById'
  <2>1. \A p \in DOMAIN inst : inst'[p].id = Id(p)
    BY <1>4 DEF Id
  <2>2. inst'[new].id = d
    BY <1>3, <1>4
  <2>3. \A p, q \in Alive' : inst'[p].id = inst'[q].id => p = q
    BY <1>7, <1>10, <2>1, <2>2
  <2>4. \A e \in DOMAIN inactive : inactive[e] \in DOMAIN inst /\ Id(inactive[e]) = e
    BY MapsById, <1>7
  <2>5. \A e \in DOMAIN inactive' : inst'[inactive'[e]].id = e
    BY <2>1, <2>4
  <2> QED
    BY <1>9, <2>3, <2>5 DEF ById, Id
<1>15. Registered'
  BY <1>9, <1>12, <1>13, <1>14 DEF Registered
<1>16. Len(inst') = Len(inst) + 1 /\ Len(inst') = new
  BY <1>4 DEF new
<1>17. inst'[Len(inst')].id = d /\ inst'[Len(inst')].obj \in Objects
  BY <1>3, <1>4 DEF Instance
<1> QED
  BY <1>4, <1>9, <1>10, <1>15, <1>16, <1>17

\* Instances move from the list to the deactivated list.
LEMMA DeactivateKeeps ==
  ASSUME Registered, NEW S \in SUBSET Values(list), Deactivate(S),
         inactive' = [d \in DOMAIN inactive \cup Ids(S) |->
                        IF d \in DOMAIN inactive THEN inactive[d]
                        ELSE CHOOSE p \in S : Id(p) = d],
         UNCHANGED <<inst, cleanups, deleted, maxid>>
  PROVE  Registered' /\ Values(list') = Values(list) \ S /\ Alive' = Alive
<1>1. /\ Values(list') = Values(list) \ S
      /\ \A d \in DOMAIN list' : d \in DOMAIN list /\ list'[d] = list[d]
      /\ RollsTyped' /\ RollsAgree' /\ misuse' = FALSE
  BY DeactivateRolls
<1>2. /\ Values(list) \cap Values(inactive) = {}
      /\ Values(list) \subseteq Alive /\ Values(inactive) \subseteq Alive
      /\ \A p, q \in Alive : Id(p) = Id(q) => p = q
  BY AliveListed
<1>3. /\ \A d \in DOMAIN list : Id(list[d]) = d
      /\ \A d \in DOMAIN inactive : inactive[d] \in Values(inactive) /\ Id(inactive[d]) = d
  BY MapsById
<1>4. \A p \in S : Id(p) \notin DOMAIN inactive
  BY <1>2, <1>3
<1>5. \A p \in S : Id(p) \in DOMAIN inactive' /\ inactive'[Id(p)] = p
  <2>1. \A p, q \in S : Id(p) = Id(q) => p = q
    BY <1>2
  <2>2. ASSUME NEW p \in S
        PROVE  Id(p) \in DOMAIN inactive' /\ inactive'[Id(p)] = p
    <3>1. Id(p) \in Ids(S) /\ Id(p) \notin DOMAIN inactive
      BY <1>4 DEF Ids
    <3>2. inactive'[Id(p)] = CHOOSE q \in S : Id(q) = Id(p)
      BY <3>1
    <3>3. (CHOOSE q \in S : Id(q) = Id(p)) = p
      BY <2>1
    <3> QED
      BY <3>1, <3>2, <3>3
  <2> QED
    BY <2>2
<1>6. \A d \in DOMAIN inactive : d \in DOMAIN inactive' /\ inactive'[d] = inactive[d]
  OBVIOUS
<1>7. \A d \in DOMAIN inactive' : d \in DOMAIN inactive \/ \E p \in S : Id(p) = d
  BY DEF Ids
<1>8. Values(inactive') = Values(inactive) \cup S
  BY <1>5, <1>6, <1>7 DEF Values
<1>9. \A d \in DOMAIN inactive' : Id(inactive'[d]) = d
  BY <1>3, <1>5, <1>6, <1>7
<1>10. Alive' = Alive
  BY DEF Alive
<1>11. \A p : inst'[p].id = Id(p)
  BY DEF Id
<1>12. Typed'
  <2>1. Typed
    BY DEF Registered
  <2>2. Values(list') \subseteq DOMAIN inst /\ Values(inactive') \subseteq DOMAIN inst
    BY <2>1, <1>1, <1>8 DEF Typed
  <2>3. \A p \in DOMAIN inst : inst'[p].id < maxid
    BY <2>1, <1>11 DEF Typed
  <2> QED
    BY <2>1, <2>2, <2>3, <1>1 DEF Typed, Id
<1>13. Separate'
  BY <1>1, <1>8 DEF Registered, Separate
<1>14. ById'
  <2>1. \A d \in DOMAIN list' : inst'[list'[d]].id = d
    BY <1>1, <1>3, <1>11
  <2>2. \A d \in DOMAIN inactive' : inst'[inactive'[d]].id = d
    BY <1>9, <1>11
  <2>3. \A p, q \in Alive' : inst'[p].id = inst'[q].id => p = q
    BY <1>2, <1>10, <1>11
  <2> QED
    BY <2>1, <2>2, <2>3 DEF ById, Id
<1> QED
  BY <1>1, <1>10, <1>12, <1>13, <1>14 DEF Registered

\* An instance that is alive moves from where it is to the garbage list.
LEMMA UnlinkKeeps ==
  ASSUME Registered, NEW p \in Alive, Unlink(p), UNCHANGED <<inst, deleted, maxid>>
  PROVE  /\ Registered' /\ Alive' = Alive \ {p}
         /\ Id(p) \in DOMAIN inactive => p \notin Values(list) /\ Values(list') = Values(list)
         /\ Id(p) \notin DOMAIN inactive => Values(list') = Values(list) \ {p}
<1>1. /\ Alive = Values(list) \cup Values(inactive)
      /\ Values(list) \cap Values(inactive) = {} /\ Alive \subseteq DOMAIN inst
      /\ \A q, r \in Alive : Id(q) = Id(r) => q = r
  BY AliveListed
<1>2. /\ \A d \in DOMAIN list : list[d] \in Values(list) /\ Id(list[d]) = d
      /\ \A d \in DOMAIN inactive : inactive[d] \in Values(inactive) /\ Id(inactive[d]) = d
      /\ \A q \in Values(inactive) : Id(q) \in DOMAIN inactive /\ inactive[Id(q)] = q
  BY MapsById
<1>3. /\ DOMAIN inactive' = DOMAIN inactive \ {Id(p)}
      /\ \A d \in DOMAIN inactive' : inactive'[d] = inactive[d]
      /\ cleanups' = cleanups \cup {p}
  BY DEF Unlink, Without
<1>4. Values(inactive') = Values(inactive) \ {p}
  <2>1. \A d \in DOMAIN inactive : d = Id(p) <=> inactive[d] = p
    BY <1>1, <1>2
  <2> QED
    BY <1>3, <2>1 DEF Values
<1>5. Id(p) \in DOMAIN inactive <=> p \in Values(inactive)
  BY <1>1, <1>2
<1>6. /\ Values(list') = Values(list) \ {p}
      /\ \A d \in DOMAIN list' : d \in DOMAIN list /\ list'[d] = list[d]
      /\ RollsTyped' /\ RollsAgree' /\ misuse' = FALSE
  <2>1. CASE Id(p) \in DOMAIN inactive
    <3>1. UNCHANGED <<list, roll, count, misuse>>
      BY <2>1 DEF Unlink
    <3>2. p \notin Values(list)
      BY <2>1, <1>1, <1>5
    <3>3. Values(list') = Values(list)
      BY <3>1 DEF Values
    <3>4. RollsTyped' /\ misuse' = FALSE
      BY <3>1 DEF Registered, RollsTyped, Typed
    <3>5. RollsAgree'
      BY <3>1, <3>3 DEF Registered, RollsAgree, Obj
    <3> QED
      BY <3>1, <3>2, <3>3, <3>4, <3>5
  <2>2. CASE Id(p) \notin DOMAIN inactive
    <3>1. Deactivate({p})
      BY <2>2 DEF Unlink
    <3>2. {p} \in SUBSET Values(list)
      BY <2>2, <1>1, <1>5
    <3> QED
      BY <3>1, <3>2, DeactivateRolls
  <2> QED
    BY <2>1, <2>2
<1>7. Alive' = Alive \ {p}
  BY <1>3 DEF Alive
<1>8. \A q : inst'[q].id = Id(q)
  BY DEF Id
<1>9. Typed'
  <2>1. Typed
    BY DEF Registered
  <2>2. /\ Values(list') \subseteq DOMAIN inst /\ Values(inactive') \subseteq DOMAIN inst
        /\ cleanups' \subseteq DOMAIN inst
    BY <2>1, <1>1, <1>3, <1>4, <1>6 DEF Typed
  <2>3. \A q \in DOMAIN inst : inst'[q].id < maxid
    BY <2>1, <1>8 DEF Typed
  <2> QED
    BY <2>1, <2>2, <2>3, <1>6 DEF Typed, Id
<1>10. Separate'
  <2>1. Separate
    BY DEF Registered
  <2>2. p \in Values(list) \/ p \in Values(inactive)
    BY <1>1
  <2> QED
    BY <2>1, <2>2, <1>3, <1>4, <1>6 DEF Separate
<1>11. ById'
  <2>1. \A d \in DOMAIN list' : inst'[list'[d]].id = d
    BY <1>2, <1>6, <1>8
  <2>2. \A d \in DOMAIN inactive' : inst'[inactive'[d]].id = d
    BY <1>2, <1>3, <1>8
  <2>3. \A q, r \in Alive' : inst'[q].id = inst'[r].id => q = r
    BY <1>1, <1>7, <1>8
  <2> QED
    BY <2>1, <2>2, <2>3 DEF ById, Id
<1>12. Id(p) \in DOMAIN inactive => p \notin Values(list)
  BY <1>1, <1>5
<1> QED
  BY <1>6, <1>7, <1>9, <1>10, <1>11, <1>12 DEF Registered

\* Instances move from the deactivated list back to the list.
LEMMA ActivateKeeps ==
  ASSUME Registered, NEW ids \in SUBSET DOMAIN inactive, NEW ps,
         ps = InOrder([d \in ids |-> inactive[d]]), Activate(ps, inst),
         inactive' = Without(inactive, ids),
         UNCHANGED <<inst, cleanups, deleted, maxid, misuse>>
  PROVE  /\ Registered' /\ Alive' = Alive
         /\ ps \in Seq(Ptr) /\ ToSet(ps) \subseteq DOMAIN inst
         /\ Values(list') = Values(list) \cup ToSet(ps)
<1> DEFINE map == [d \in ids |-> inactive[d]]
<1>1. /\ Alive = Values(list) \cup Values(inactive)
      /\ Values(list) \cap Values(inactive) = {} /\ Alive \subseteq DOMAIN inst
      /\ \A p, q \in Alive : Id(p) = Id(q) => p = q
  BY AliveListed
<1>2. /\ \A d \in DOMAIN list : list[d] \in Values(list) /\ Id(list[d]) = d
      /\ \A d \in DOMAIN inactive :
            inactive[d] \in Values(inactive) /\ Id(inactive[d]) = d
      /\ \A p \in Values(inactive) : Id(p) \in DOMAIN inactive /\ inactive[Id(p)] = p
  BY MapsById
<1>3. /\ DOMAIN inst \subseteq Ptr
      /\ \A p \in DOMAIN inst : Id(p) \in Nat /\ Id(p) < maxid
  BY InstanceShape DEF Registered
<1>4. maxid \in Nat
  BY DEF Registered, Typed
<1>5. ps \in Seq(Ptr) /\ ToSet(ps) = Values(map) /\ IsInjective(ps)
  <2>1. DOMAIN map \subseteq 0 .. maxid
    <3>1. \A d \in ids : d \in Nat /\ d < maxid
      BY <1>1, <1>2, <1>3
    <3> QED
      BY <3>1, <1>4
  <2>2. \A d \in DOMAIN map : map[d] \in Ptr
    BY <1>1, <1>2, <1>3
  <2>3. \A d, e \in DOMAIN map : map[d] = map[e] => d = e
    BY <1>2
  <2> HIDE DEF map
  <2> QED
    BY <1>4, <2>1, <2>2, <2>3, InOrderShape DEF map
<1>6. Values(map) = {inactive[d] : d \in ids}
  BY DEF Values
<1>7. /\ ToSet(ps) \subseteq Values(inactive)
      /\ \A p \in Values(inactive) : p \in ToSet(ps) <=> Id(p) \in ids
  BY <1>2, <1>5, <1>6
<1> HIDE DEF map
<1>8. \A p : inst'[p].id = Id(p)
  BY DEF Id
<1>9. /\ Values(list') = Values(list) \cup ToSet(ps)
      /\ \A d \in DOMAIN list' : inst'[list'[d]].id = d
      /\ RollsTyped' /\ RollsAgree'
  <2>1. ToSet(ps) \cap Values(list) = {}
    BY <1>1, <1>7
  <2>2. \A p \in ToSet(ps) : Id(p) \notin DOMAIN list
    BY <1>1, <1>2, <2>1, <1>7
  <2>3. \A p, q \in ToSet(ps) : Id(p) = Id(q) => p = q
    BY <1>1, <1>7
  <2>4. Activate(ps, inst')
    BY DEF Activate
  <2>5. /\ \A p \in ToSet(ps) : inst'[p].id \notin DOMAIN list
        /\ \A p, q \in ToSet(ps) : inst'[p].id = inst'[q].id => p = q
    BY <1>8, <2>2, <2>3
  <2>6. \A p \in DOMAIN inst : inst'[p] = inst[p]
    OBVIOUS
  <2> QED
    BY <1>5, <2>1, <2>4, <2>5, <2>6, ActivateRolls
<1>10. /\ \A d \in DOMAIN inactive' : d \in DOMAIN inactive /\ inactive'[d] = inactive[d]
       /\ DOMAIN inactive' = DOMAIN inactive \ ids
  BY DEF Without
<1>11. Values(inactive') = Values(inactive) \ ToSet(ps)
  <2>1. \A d \in DOMAIN inactive : d \in ids <=> inactive[d] \in ToSet(ps)
    BY <1>2, <1>7
  <2> QED
    BY <1>10, <2>1 DEF Values
<1>12. Alive' = Alive
  BY DEF Alive
<1>13. Typed'
  <2>1. Typed
    BY DEF Registered
  <2>2. Values(list') \subseteq DOMAIN inst /\ Values(inactive') \subseteq DOMAIN inst
    BY <2>1, <1>7, <1>9, <1>11 DEF Typed
  <2>3. \A p \in DOMAIN inst : inst'[p].id < maxid
    BY <2>1, <1>8 DEF Typed
  <2> QED
    BY <2>1, <2>2, <2>3 DEF Typed, Id
<1>14. Separate'
  BY <1>7, <1>9, <1>11 DEF Registered, Separate
<1>15. ById'
  <2>1. \A d \in DOMAIN inactive' : inst'[inactive'[d]].id = d
    BY <1>2, <1>8, <1>10
  <2>2. \A p, q \in Alive' : inst'[p].id = inst'[q].id => p = q
    BY <1>1, <1>8, <1>12
  <2> QED
    BY <1>9, <2>1, <2>2 DEF ById, Id
<1>16. ToSet(ps) \subseteq DOMAIN inst
  BY <1>1, <1>7
<1> QED
  BY <1>5, <1>9, <1>12, <1>13, <1>14, <1>15, <1>16 DEF Registered

\* The instances on the garbage list are deleted.
LEMMA DisposeKeeps ==
  ASSUME Registered, deleted' = deleted \cup cleanups, cleanups' = {},
         UNCHANGED <<inst, list, roll, count, inactive, maxid, misuse>>
  PROVE  Registered' /\ Alive' = Alive
<1>1. Alive' = Alive
  BY DEF Alive
<1>2. Values(list') = Values(list) /\ Values(inactive') = Values(inactive)
  BY DEF Values
<1>3. \A p : inst'[p].id = inst[p].id
  OBVIOUS
<1>4. Typed'
  BY <1>2, <1>3 DEF Registered, Typed, Id
<1>5. Separate'
  BY <1>2 DEF Registered, Separate, Typed
<1>6. ById'
  BY <1>1, <1>3 DEF Registered, ById, Id
<1>7. RollsTyped'
  BY DEF Registered, RollsTyped
<1>8. RollsAgree'
  BY <1>2 DEF Registered, RollsAgree, Obj
<1> QED
  BY <1>1, <1>4, <1>5, <1>6, <1>7, <1>8 DEF Registered

\* A step that leaves the registries alone.
LEMMA RegistryUnchanged ==
  ASSUME Registered, UNCHANGED registry
  PROVE  Registered' /\ Alive' = Alive /\ Values(list') = Values(list)
<1>1. UNCHANGED <<inst, list, roll, count, inactive, cleanups, deleted, maxid, misuse>>
  BY DEF registry
<1>2. Values(list') = Values(list) /\ Values(inactive') = Values(inactive) /\ Alive' = Alive
  BY <1>1 DEF Values, Alive
<1>3. \A p : inst'[p].id = inst[p].id
  BY <1>1
<1>4. Typed'
  BY <1>1, <1>2, <1>3 DEF Registered, Typed, Id
<1>5. Separate'
  BY <1>1, <1>2 DEF Registered, Separate
<1>6. ById'
  BY <1>1, <1>2, <1>3 DEF Registered, ById, Id
<1>7. RollsTyped'
  BY <1>1 DEF Registered, RollsTyped
<1>8. RollsAgree'
  BY <1>1, <1>2 DEF Registered, RollsAgree, Obj
<1> QED
  BY <1>2, <1>4, <1>5, <1>6, <1>7, <1>8 DEF Registered

\* The room's instances are linked, each with its own id.
LEMMA RegisteredAtFirst == Init => Registered
<1> SUFFICES ASSUME Init PROVE Registered
  OBVIOUS
<1>1. PICK n \in 0 .. MaxPlaced : \E os \in [1 .. n -> Objects] :
         /\ n <= MaxInst
         /\ inst = [p \in 1 .. n |-> [id |-> p, obj |-> os[p]]]
         /\ list = [d \in 1 .. n |-> d]
         /\ roll = [o \in Objects |-> Ascending({p \in 1 .. n : o \in Kinds[os[p]]})]
         /\ count = [o \in Objects |-> Cardinality({p \in 1 .. n : o \in Kinds[os[p]]})]
         /\ inactive = <<>> /\ cleanups = {} /\ deleted = {} /\ maxid = n + 1
         /\ stack = <<>> /\ misuse = FALSE
  BY DEF Init
<1>2. PICK os \in [1 .. n -> Objects] :
         /\ n <= MaxInst
         /\ inst = [p \in 1 .. n |-> [id |-> p, obj |-> os[p]]]
         /\ list = [d \in 1 .. n |-> d]
         /\ roll = [o \in Objects |-> Ascending({p \in 1 .. n : o \in Kinds[os[p]]})]
         /\ count = [o \in Objects |-> Cardinality({p \in 1 .. n : o \in Kinds[os[p]]})]
         /\ inactive = <<>> /\ cleanups = {} /\ deleted = {} /\ maxid = n + 1
         /\ stack = <<>> /\ misuse = FALSE
  BY <1>1
<1>3. n \in Nat /\ MaxInst \in Nat
  BY KindsAssumption
<1>4. DOMAIN inst = 1 .. n /\ \A p \in 1 .. n : Id(p) = p /\ Obj(p) = os[p]
  BY <1>2 DEF Id, Obj
<1>5. inst \in Seq(Instance) /\ Len(inst) = n
  <2>1. inst \in [1 .. n -> Instance]
    BY <1>2 DEF Instance
  <2> QED
    BY <2>1, <1>3
<1>6. Values(list) = 1 .. n /\ Values(inactive) = {} /\ DOMAIN inactive = {}
  BY <1>2 DEF Values
<1>7. Typed
  <2>1. \A p \in DOMAIN inst : Id(p) < maxid
    BY <1>2, <1>4
  <2>2. n <= MaxInst /\ cleanups = {} /\ deleted = {} /\ maxid \in Nat /\ misuse = FALSE
    BY <1>2, <1>3
  <2> QED
    BY <1>4, <1>5, <1>6, <2>1, <2>2 DEF Typed
<1>8. Separate
  BY <1>2, <1>4, <1>6 DEF Separate
<1>9. ById
  <2>1. Alive \subseteq 1 .. n
    BY <1>4 DEF Alive
  <2> QED
    BY <1>2, <1>4, <1>6, <2>1 DEF ById
<1>10. ASSUME NEW o \in Objects
       PROVE  /\ roll[o] \in Seq(Ptr) /\ IsInjective(roll[o])
              /\ ToSet(roll[o]) = {p \in Values(list) : o \in Kinds[Obj(p)]}
              /\ count[o] = Len(roll[o]) /\ count[o] \in Nat
  <2> DEFINE T == {p \in 1 .. n : o \in Kinds[os[p]]}
             c == Cardinality(T)
  <2>1. roll[o] = Ascending(T) /\ count[o] = c
    BY <1>2
  <2>2. T \in SUBSET (0 .. n) /\ T \subseteq Ptr
    BY <1>2, <1>3 DEF Ptr
  <2>3. T = {p \in Values(list) : o \in Kinds[Obj(p)]}
    BY <1>4, <1>6
  <2> HIDE DEF T
  <2>4. /\ c \in Nat /\ Ascending(T) \in [1 .. c -> T]
        /\ \A k, l \in 1 .. c : Ascending(T)[k] = Ascending(T)[l] => k = l
        /\ \A x \in T : \E k \in 1 .. c : Ascending(T)[k] = x
    BY <1>3, <2>2, AscendingShape
  <2> HIDE DEF c
  <2>5. roll[o] \in [1 .. c -> Ptr] /\ DOMAIN roll[o] = 1 .. c
    BY <2>1, <2>2, <2>4
  <2>6. roll[o] \in Seq(Ptr) /\ Len(roll[o]) = c
    BY <2>4, <2>5
  <2>7. IsInjective(roll[o])
    BY <2>1, <2>4, <2>5 DEF IsInjective
  <2>8. ToSet(roll[o]) = T
    BY <2>1, <2>4, <2>5 DEF ToSet
  <2> QED
    BY <2>1, <2>3, <2>4, <2>6, <2>7, <2>8
<1>11. DOMAIN roll = Objects /\ roll = [o \in Objects |-> roll[o]]
       /\ DOMAIN count = Objects /\ count = [o \in Objects |-> count[o]]
  BY <1>2
<1>12. RollsTyped
  BY <1>10, <1>11 DEF RollsTyped
<1>13. RollsAgree
  BY <1>10 DEF RollsAgree
<1> QED
  BY <1>7, <1>8, <1>9, <1>12, <1>13 DEF Registered

-----------------------------------------------------------------------------
(* The call stack. *)

\* What is on the stack: an event with its self, a loop over instances of which
\* the first is being destroyed, or an instance_change that has yet to construct.
Loop == [op : {"destroy"}, of : Objects \cup {noone}, at : Seq(Ptr) \ {<<>>}, on : BOOLEAN]
Frame ==
  [op : {"event"}, self : Ptr] \cup Loop
  \cup [op : {"change"}, id : Nat, obj : Objects, perf : BOOLEAN]

\* Frame f refers only to instances among In that are not in gone, and a loop
\* goes on only to active ones.
Fits(f, In, active, gone) ==
  /\ f.op = "event" => f.self \in In /\ f.self \notin gone
  /\ f.op = "destroy" => /\ f.at[1] \in In /\ f.at[1] \notin gone
                         /\ ToSet(Tail(f.at)) \subseteq active

\* Frame g is the loop over one instance with which an instance_change of id d
\* begins: no other instance that is alive has that id.
Awaits(d, g, in, alive) ==
  /\ g.op = "destroy" /\ g.of = noone /\ Len(g.at) = 1
  /\ in[g.at[1]].id = d
  /\ \A q \in alive : in[q].id = d => q = g.at[1]

\* The changes in progress.  A change that is to construct next finds no instance
\* with its id alive; until then its loop is on the stack above it.
Changes(stk) == {k \in DOMAIN stk : stk[k].op = "change"}
Pending(stk, k, in, alive, mx) ==
  /\ stk[k].id < mx
  /\ k = Len(stk) => \A q \in alive : in[q].id # stk[k].id
  /\ k < Len(stk) => Awaits(stk[k].id, stk[k + 1], in, alive)

\* The stack stk is in order, with instances in, of which those in active are on
\* the list, those in gone are deleted and those in alive neither destroyed nor
\* deleted, and all ids below mx.
Sane(stk, in, active, gone, alive, mx) ==
  /\ stk \in Seq(Frame)
  /\ \A k \in DOMAIN stk : Fits(stk[k], DOMAIN in, active, gone)
  /\ \A k \in Changes(stk) : Pending(stk, k, in, alive, mx)
  /\ \A k, l \in Changes(stk) : stk[k].id = stk[l].id => k = l

\* The fields of a frame.
LEMMA FrameShape ==
  ASSUME NEW f \in Frame
  PROVE  /\ f.op \in {"event", "destroy", "change"}
         /\ f.op = "event" => f.self \in Ptr
         /\ f.op = "destroy" => /\ f.of \in Objects \cup {noone} /\ f.on \in BOOLEAN
                                /\ f.at \in Seq(Ptr) /\ f.at # <<>>
                                /\ Len(f.at) \in Nat /\ Len(f.at) >= 1 /\ f.at[1] \in Ptr
         /\ f.op = "change" => f.id \in Nat /\ f.obj \in Objects /\ f.perf \in BOOLEAN
<1>1. CASE f \in [op : {"event"}, self : Ptr]
  BY <1>1
<1>2. CASE f \in Loop
  <2>1. f.op = "destroy" /\ f.of \in Objects \cup {noone} /\ f.on \in BOOLEAN
        /\ f.at \in Seq(Ptr) /\ f.at # <<>>
    BY <1>2 DEF Loop
  <2>2. Len(f.at) \in Nat /\ Len(f.at) >= 1 /\ f.at[1] \in Ptr
    BY <2>1
  <2> QED
    BY <2>1, <2>2
<1>3. CASE f \in [op : {"change"}, id : Nat, obj : Objects, perf : BOOLEAN]
  BY <1>3
<1> QED
  BY <1>1, <1>2, <1>3 DEF Frame

\* The frames that the engine functions put on the stack.
LEMMA NewFrames ==
  /\ \A p \in Ptr : Event(p) \in Frame /\ Event(p).op = "event" /\ Event(p).self = p
  /\ \A o \in Objects \cup {noone}, ps \in Seq(Ptr) \ {<<>>} :
       /\ Destroy(o, ps) \in Frame /\ Destroy(o, ps).op = "destroy"
       /\ Destroy(o, ps).of = o /\ Destroy(o, ps).at = ps
  /\ \A d \in Nat, o \in Objects, perf \in BOOLEAN :
       /\ Change(d, o, perf) \in Frame /\ Change(d, o, perf).op = "change"
       /\ Change(d, o, perf).id = d
BY DEF Frame, Loop, Event, Destroy, Change

LEMMA NewLoop ==
  ASSUME NEW o \in Objects \cup {noone}, NEW ps \in Seq(Ptr), ps # <<>>
  PROVE  Destroy(o, ps) \in Frame /\ Destroy(o, ps).op = "destroy"
         /\ Destroy(o, ps).of = o /\ Destroy(o, ps).at = ps
BY NewFrames

\* A loop's sequence with other instances to go on to.
LEMMA ConsShape ==
  ASSUME NEW P, NEW x \in P, NEW t \in Seq(P)
  PROVE  /\ <<x>> \o t \in Seq(P) /\ <<x>> \o t # <<>> /\ (<<x>> \o t)[1] = x
         /\ Len(<<x>> \o t) = Len(t) + 1 /\ Tail(<<x>> \o t) = t
<1>1. <<x>> \in Seq(P) /\ Len(<<x>>) = 1 /\ <<x>>[1] = x /\ Len(t) \in Nat
  OBVIOUS
<1> DEFINE u == <<x>> \o t
<1>2. /\ u \in Seq(P) /\ Len(u) = Len(t) + 1 /\ u[1] = x
      /\ \A i \in 2 .. Len(t) + 1 : u[i] = t[i - 1]
  BY <1>1
<1> HIDE DEF u
<1>3. u # <<>>
  BY <1>1, <1>2
<1>4. Tail(u) \in Seq(P) /\ Len(Tail(u)) = Len(t) /\ \A i \in 1 .. Len(t) : Tail(u)[i] = u[i + 1]
  BY <1>1, <1>2, <1>3
<1>5. \A i \in 1 .. Len(t) : Tail(u)[i] = t[i]
  <2>1. ASSUME NEW i \in 1 .. Len(t)
        PROVE  i + 1 \in 2 .. Len(t) + 1 /\ (i + 1) - 1 = i
    BY <1>1
  <2> QED
    BY <1>2, <1>4, <2>1
<1>6. Tail(u) = t
  BY <1>4, <1>5, SeqEqual
<1> QED
  BY <1>2, <1>3, <1>6 DEF u

\* A loop's sequence with more instances at its end.
LEMMA TailOfConcat ==
  ASSUME NEW P, NEW s \in Seq(P), s # <<>>, NEW t \in Seq(P)
  PROVE  /\ s \o t \in Seq(P) /\ s \o t # <<>> /\ (s \o t)[1] = s[1]
         /\ Len(s \o t) = Len(s) + Len(t)
         /\ ToSet(Tail(s \o t)) = ToSet(Tail(s)) \cup ToSet(t)
<1>1. /\ Len(s) \in Nat /\ Len(s) >= 1 /\ Len(t) \in Nat
      /\ Tail(s) \in Seq(P) /\ Len(Tail(s)) = Len(s) - 1
      /\ \A i \in 1 .. Len(s) - 1 : Tail(s)[i] = s[i + 1]
  OBVIOUS
<1> DEFINE u == s \o t
<1>2. /\ u \in Seq(P) /\ Len(u) = Len(s) + Len(t)
      /\ \A i \in 1 .. Len(s) : u[i] = s[i]
      /\ \A i \in Len(s) + 1 .. Len(s) + Len(t) : u[i] = t[i - Len(s)]
  BY <1>1
<1> HIDE DEF u
<1>3. u # <<>> /\ u[1] = s[1]
  BY <1>1, <1>2
<1>4. /\ Tail(u) \in Seq(P) /\ Len(Tail(u)) = (Len(s) - 1) + Len(t)
      /\ \A i \in 1 .. (Len(s) - 1) + Len(t) : Tail(u)[i] = u[i + 1]
  BY <1>1, <1>2, <1>3
<1> DEFINE v == Tail(s) \o t
<1>5. /\ v \in Seq(P) /\ Len(v) = (Len(s) - 1) + Len(t)
      /\ \A i \in 1 .. Len(s) - 1 : v[i] = s[i + 1]
      /\ \A i \in Len(s) .. (Len(s) - 1) + Len(t) : v[i] = t[i - (Len(s) - 1)]
  BY <1>1
<1> HIDE DEF v
<1>6. ASSUME NEW i \in 1 .. (Len(s) - 1) + Len(t)
      PROVE  Tail(u)[i] = v[i]
  <2>1. CASE i <= Len(s) - 1
    BY <2>1, <1>1, <1>2, <1>4, <1>5
  <2>2. CASE i > Len(s) - 1
    <3>1. i + 1 \in Len(s) + 1 .. Len(s) + Len(t) /\ (i + 1) - Len(s) = i - (Len(s) - 1)
      BY <2>2, <1>1
    <3>2. i \in Len(s) .. (Len(s) - 1) + Len(t)
      BY <2>2, <1>1
    <3> QED
      BY <3>1, <3>2, <1>2, <1>4, <1>5
  <2>3. i <= Len(s) - 1 \/ i > Len(s) - 1
    BY <1>1
  <2> QED
    BY <2>1, <2>2, <2>3
<1>7. Tail(u) = v
  BY <1>4, <1>5, <1>6, SeqEqual
<1>8. ToSet(v) = ToSet(Tail(s)) \cup ToSet(t)
  BY <1>1, ConcatShape DEF v
<1> QED
  BY <1>2, <1>3, <1>7, <1>8 DEF u

\* told is the stack stk after its loops have been told of an unlink or of new
\* nodes: where they stand is the same, and they go on to active instances.
Told(stk, told, active) ==
  /\ told \in Seq(Frame) /\ Len(told) = Len(stk)
  /\ \A k \in DOMAIN stk :
       /\ told[k].op = stk[k].op
       /\ stk[k].op # "destroy" => told[k] = stk[k]
       /\ stk[k].op = "destroy" =>
            /\ told[k].of = stk[k].of /\ told[k].at[1] = stk[k].at[1]
            /\ ToSet(Tail(told[k].at)) \subseteq active
            /\ stk[k].of = noone /\ Len(stk[k].at) = 1 => Len(told[k].at) = 1

\* A frame that destroys is a loop.
LEMMA LoopFrame ==
  ASSUME NEW f \in Frame, f.op = "destroy"
  PROVE  f \in Loop
BY DEF Frame, Loop

\* handle_unlink: no loop goes on to an instance that was unlinked.
LEMMA RepairedTold ==
  ASSUME NEW stk \in Seq(Frame), NEW S, NEW active,
         \A k \in DOMAIN stk : stk[k].op = "destroy" => ToSet(Tail(stk[k].at)) \subseteq active
  PROVE  Told(stk, Repaired(stk, S), active \ S)
<1> DEFINE told == Repaired(stk, S)
<1>1. Len(stk) \in Nat /\ DOMAIN stk = 1 .. Len(stk) /\ \A k \in DOMAIN stk : stk[k] \in Frame
  OBVIOUS
<1>2. DOMAIN told = DOMAIN stk /\ \A k \in DOMAIN stk : told[k] = WalkWithout(stk[k], S)
  BY DEF Repaired
<1>3. told = [k \in 1 .. Len(stk) |-> told[k]]
  BY <1>1 DEF Repaired
<1> HIDE DEF told
<1>4. ASSUME NEW k \in DOMAIN stk
      PROVE  /\ told[k] \in Frame
             /\ told[k].op = stk[k].op
             /\ stk[k].op # "destroy" => told[k] = stk[k]
             /\ stk[k].op = "destroy" =>
                  /\ told[k].of = stk[k].of /\ told[k].at[1] = stk[k].at[1]
                  /\ ToSet(Tail(told[k].at)) \subseteq active \ S
                  /\ stk[k].of = noone /\ Len(stk[k].at) = 1 => Len(told[k].at) = 1
  <2>1. CASE stk[k].op # "destroy"
    <3>1. told[k] = stk[k]
      BY <2>1, <1>2 DEF WalkWithout
    <3> QED
      BY <2>1, <3>1, <1>1
  <2>2. CASE stk[k].op = "destroy"
    <3> DEFINE f == stk[k]
               rest == Kept(Tail(f.at), ToSet(Tail(f.at)) \ S)
               b == f.on /\ Head(f.at) \notin S
    <3>1. f \in Frame /\ f.op = "destroy"
      BY <1>1, <2>2
    <3>2. /\ f.at \in Seq(Ptr) /\ f.at # <<>> /\ f.at[1] \in Ptr /\ f.on \in BOOLEAN
          /\ Len(f.at) \in Nat /\ ToSet(Tail(f.at)) \subseteq active
      BY <3>1, FrameShape
    <3> HIDE DEF f
    <3>3. Tail(f.at) \in Seq(Ptr) /\ Head(f.at) = f.at[1] /\ Len(Tail(f.at)) = Len(f.at) - 1
      BY <3>2
    <3>4. rest \in Seq(Ptr) /\ ToSet(rest) = ToSet(Tail(f.at)) \cap (ToSet(Tail(f.at)) \ S)
      BY <3>3, KeptShape
    <3>5. told[k] = [f EXCEPT !.at = <<Head(f.at)>> \o rest, !.on = b]
      BY <1>2, <3>1 DEF WalkWithout, f
    <3>6. b \in BOOLEAN
      BY <3>2
    <3>7. Len(f.at) = 1 => Len(rest) = 0
      <4>1. SUFFICES ASSUME Len(f.at) = 1 PROVE Len(rest) = 0
        OBVIOUS
      <4>2. Len(Tail(f.at)) = 0
        BY <4>1, <3>3
      <4>3. ToSet(Tail(f.at)) = {}
        BY <4>2, <3>3 DEF ToSet
      <4>4. ToSet(rest) = {}
        BY <4>3, <3>4
      <4>5. DOMAIN rest = 1 .. Len(rest) /\ Len(rest) \in Nat
        BY <3>4
      <4>6. DOMAIN rest = {}
        BY <4>4 DEF ToSet
      <4> QED
        BY <4>5, <4>6
    <3> HIDE DEF rest, b
    <3> DEFINE w == <<Head(f.at)>> \o rest
    <3>8. w \in Seq(Ptr) /\ w # <<>> /\ w[1] = f.at[1] /\ Len(w) = Len(rest) + 1 /\ Tail(w) = rest
      BY <3>2, <3>3, <3>4, ConsShape
    <3>9. told[k] = [f EXCEPT !.at = w, !.on = b] /\ w \in Seq(Ptr) \ {<<>>}
      BY <3>5, <3>8
    <3> HIDE DEF w
    <3> DEFINE g == [f EXCEPT !.at = w, !.on = b]
    <3>10. told[k] \in Frame /\ told[k].op = "destroy" /\ told[k].of = f.of /\ told[k].at = w
      <4>1. f \in Loop
        BY <3>1, LoopFrame
      <4>2. g \in Loop /\ g.op = "destroy" /\ g.of = f.of /\ g.at = w
        BY <4>1, <3>6, <3>9 DEF Loop
      <4>3. told[k] = g
        BY <3>9
      <4> HIDE DEF g
      <4> QED
        BY <4>2, <4>3 DEF Frame
    <3>11. ToSet(rest) \subseteq active \ S
      BY <3>2, <3>4
    <3>12. Len(f.at) = 1 => Len(w) = 1
      BY <3>7, <3>8
    <3>13. w[1] = f.at[1] /\ ToSet(Tail(w)) \subseteq active \ S
      BY <3>8, <3>11
    <3> QED
      BY <3>1, <3>10, <3>12, <3>13 DEF f
  <2> QED
    BY <2>1, <2>2
<1>5. told \in Seq(Frame) /\ Len(told) = Len(stk)
  BY <1>1, <1>3, <1>4
<1> QED
  BY <1>4, <1>5 DEF Told, told

\* link_obj_instance: what joins an object's list is now before the loops over it.
LEMMA ExtendedTold ==
  ASSUME NEW stk \in Seq(Frame), NEW active, NEW ps \in Seq(Ptr), NEW i,
         \A p \in ToSet(ps) : i[p].obj \in Objects,
         \A k \in DOMAIN stk : stk[k].op = "destroy" => ToSet(Tail(stk[k].at)) \subseteq active
  PROVE  Told(stk, Extended(stk, ps, i), active \cup ToSet(ps))
<1> DEFINE told == Extended(stk, ps, i)
<1>1. Len(stk) \in Nat /\ DOMAIN stk = 1 .. Len(stk) /\ \A k \in DOMAIN stk : stk[k] \in Frame
  OBVIOUS
<1>2. /\ DOMAIN told = DOMAIN stk
      /\ \A k \in DOMAIN stk :
           told[k] = IF stk[k].op # "destroy" THEN stk[k]
                     ELSE WalkWith(stk[k], stk[k].of, Joining(ps, i, stk[k].of))
  BY DEF Extended
<1>3. told = [k \in 1 .. Len(stk) |-> told[k]]
  BY <1>1 DEF Extended
<1> HIDE DEF told
<1>4. ASSUME NEW k \in DOMAIN stk
      PROVE  /\ told[k] \in Frame
             /\ told[k].op = stk[k].op
             /\ stk[k].op # "destroy" => told[k] = stk[k]
             /\ stk[k].op = "destroy" =>
                  /\ told[k].of = stk[k].of /\ told[k].at[1] = stk[k].at[1]
                  /\ ToSet(Tail(told[k].at)) \subseteq active \cup ToSet(ps)
                  /\ stk[k].of = noone /\ Len(stk[k].at) = 1 => Len(told[k].at) = 1
  <2>1. CASE stk[k].op # "destroy"
    <3>1. told[k] = stk[k]
      BY <2>1, <1>2
    <3> QED
      BY <2>1, <3>1, <1>1
  <2>2. CASE stk[k].op = "destroy"
    <3> DEFINE f == stk[k]
               J == Joining(ps, i, f.of)
               w == f.at \o J
               g == [f EXCEPT !.at = w]
    <3>1. f \in Frame /\ f.op = "destroy"
      BY <1>1, <2>2
    <3>2. /\ f.at \in Seq(Ptr) /\ f.at # <<>> /\ f.of \in Objects \cup {noone}
          /\ Len(f.at) \in Nat /\ ToSet(Tail(f.at)) \subseteq active
      BY <3>1, FrameShape
    <3>3. told[k] = f \/ told[k] = g
      BY <1>2, <3>1 DEF WalkWith
    <3> HIDE DEF f
    <3>4. J \in Seq(Ptr) /\ ToSet(J) \subseteq ToSet(ps)
      BY JoiningShape
    <3>5. f.of = noone => Len(J) = 0
      <4>1. SUFFICES ASSUME f.of = noone PROVE Len(J) = 0
        OBVIOUS
      <4>2. ASSUME NEW p \in ToSet(J)
            PROVE  FALSE
        <5>1. noone \in Kinds[i[p].obj]
          BY <4>1, JoiningShape
        <5>2. noone \notin Objects
          BY KindsAssumption DEF noone
        <5>3. Kinds[i[p].obj] \subseteq Objects
          BY <3>4, KindsAssumption
        <5> QED
          BY <5>1, <5>2, <5>3
      <4>3. DOMAIN J = 1 .. Len(J) /\ Len(J) \in Nat
        BY <3>4
      <4>4. DOMAIN J = {}
        BY <4>2 DEF ToSet
      <4> QED
        BY <4>3, <4>4
    <3> HIDE DEF J
    <3>6. /\ w \in Seq(Ptr) \ {<<>>} /\ w[1] = f.at[1] /\ Len(w) = Len(f.at) + Len(J)
          /\ ToSet(Tail(w)) = ToSet(Tail(f.at)) \cup ToSet(J)
      BY <3>2, <3>4, TailOfConcat
    <3>7. Len(J) \in Nat
      BY <3>4
    <3> HIDE DEF w
    <3>8. g \in Frame /\ g.op = "destroy" /\ g.of = f.of /\ g.at = w
      <4>1. f \in Loop
        BY <3>1, LoopFrame
      <4>2. g \in Loop /\ g.op = "destroy" /\ g.of = f.of /\ g.at = w
        BY <4>1, <3>6 DEF Loop
      <4> HIDE DEF g
      <4> QED
        BY <4>2 DEF Frame
    <3> HIDE DEF g
    <3>9. ToSet(Tail(w)) \subseteq active \cup ToSet(ps)
      BY <3>2, <3>4, <3>6
    <3>10. f.of = noone /\ Len(f.at) = 1 => Len(w) = 1
      BY <3>5, <3>6
    <3>11. CASE told[k] = f
      BY <3>1, <3>2, <3>11 DEF f
    <3>12. CASE told[k] = g
      <4>1. /\ told[k] \in Frame /\ told[k].op = f.op /\ told[k].of = f.of
            /\ told[k].at[1] = f.at[1]
            /\ ToSet(Tail(told[k].at)) \subseteq active \cup ToSet(ps)
            /\ f.of = noone /\ Len(f.at) = 1 => Len(told[k].at) = 1
        BY <3>1, <3>6, <3>8, <3>9, <3>10, <3>12
      <4> QED
        BY <4>1, <3>1 DEF f
    <3> QED
      BY <3>3, <3>11, <3>12
  <2> QED
    BY <2>1, <2>2
<1>5. told \in Seq(Frame) /\ Len(told) = Len(stk)
  BY <1>1, <1>3, <1>4
<1> QED
  BY <1>4, <1>5 DEF Told, told

-----------------------------------------------------------------------------
(* What the engine functions do to the stack. *)

\* The innermost frame is not a change that is to construct next.
Calm(stk) == stk # <<>> => stk[Len(stk)].op # "change"

\* A stack that was told has the changes it had.
LEMMA ToldShape ==
  ASSUME NEW stk \in Seq(Frame), NEW told, NEW active, Told(stk, told, active)
  PROVE  Changes(told) = Changes(stk) /\ (Calm(stk) => Calm(told))
<1>1. /\ DOMAIN stk = 1 .. Len(stk) /\ Len(stk) \in Nat
      /\ told \in Seq(Frame) /\ DOMAIN told = 1 .. Len(told) /\ Len(told) = Len(stk)
  BY DEF Told
<1>2. Changes(told) = Changes(stk)
  BY <1>1 DEF Changes, Told
<1>3. stk # <<>> => Len(stk) \in DOMAIN stk
  BY <1>1
<1>4. told # <<>> => stk # <<>>
  BY <1>1
<1> QED
  BY <1>1, <1>2, <1>3, <1>4 DEF Calm, Told

\* A stack that was told is in order if no instance that is alive has taken the
\* id of a change in progress.
LEMMA SaneTold ==
  ASSUME NEW stk, NEW in, NEW active, NEW gone, NEW alive, NEW mx \in Nat,
         Sane(stk, in, active, gone, alive, mx),
         NEW told, NEW active2, Told(stk, told, active2),
         NEW in2, \A p \in DOMAIN in : p \in DOMAIN in2 /\ in2[p] = in[p],
         NEW alive2, alive \subseteq DOMAIN in,
         \A k \in Changes(stk) : \A q \in alive2 : in2[q].id = stk[k].id => q \in alive,
         NEW mx2 \in Nat, mx <= mx2
  PROVE  Sane(told, in2, active2, gone, alive2, mx2)
<1>1. /\ stk \in Seq(Frame) /\ DOMAIN stk = 1 .. Len(stk) /\ Len(stk) \in Nat
      /\ told \in Seq(Frame) /\ DOMAIN told = 1 .. Len(told) /\ Len(told) = Len(stk)
      /\ \A k \in DOMAIN stk : stk[k] \in Frame
  BY DEF Sane, Told
<1>2. Changes(told) = Changes(stk) /\ \A k \in Changes(stk) : told[k] = stk[k]
  BY <1>1, ToldShape DEF Changes, Told
<1>3. \A k \in DOMAIN stk : Fits(stk[k], DOMAIN in, active, gone)
  BY DEF Sane
<1>4. ASSUME NEW k \in DOMAIN told
      PROVE  Fits(told[k], DOMAIN in2, active2, gone)
  <2>1. k \in DOMAIN stk
    BY <1>1
  <2>2. CASE stk[k].op = "destroy"
    BY <2>1, <2>2, <1>3 DEF Told, Fits
  <2>3. CASE stk[k].op # "destroy"
    BY <2>1, <2>3, <1>3 DEF Told, Fits
  <2> QED
    BY <2>2, <2>3
<1>5. ASSUME NEW k \in Changes(stk)
      PROVE  Pending(told, k, in2, alive2, mx2)
  <2>1. Pending(stk, k, in, alive, mx) /\ k \in DOMAIN stk /\ stk[k].op = "change"
    BY DEF Sane, Changes
  <2>2. stk[k].id \in Nat
    BY <2>1, <1>1, FrameShape
  <2>3. told[k].id = stk[k].id /\ told[k].id < mx2
    BY <1>2, <2>1, <2>2 DEF Pending
  <2>4. \A q \in alive2 : in2[q].id = stk[k].id => q \in alive /\ in[q].id = stk[k].id
    OBVIOUS
  <2>5. ASSUME k = Len(told), NEW q \in alive2
        PROVE  in2[q].id # told[k].id
    BY <2>1, <2>3, <2>4, <2>5, <1>1 DEF Pending
  <2>6. ASSUME k < Len(told)
        PROVE  Awaits(told[k].id, told[k + 1], in2, alive2)
    <3>1. Awaits(stk[k].id, stk[k + 1], in, alive)
      BY <2>1, <2>6, <1>1 DEF Pending
    <3>2. k + 1 \in DOMAIN stk
      BY <2>1, <2>6, <1>1
    <3>3. stk[k + 1].op = "destroy" /\ stk[k + 1].of = noone /\ Len(stk[k + 1].at) = 1
      BY <3>1 DEF Awaits
    <3>4. stk[k + 1].at[1] \in DOMAIN in
      BY <3>2, <3>3, <1>3 DEF Fits
    <3>5. /\ told[k + 1].op = "destroy" /\ told[k + 1].of = noone
          /\ Len(told[k + 1].at) = 1 /\ told[k + 1].at[1] = stk[k + 1].at[1]
      BY <3>2, <3>3 DEF Told
    <3> QED
      BY <3>1, <3>4, <3>5, <2>3, <2>4 DEF Awaits
  <2> QED
    BY <2>3, <2>5, <2>6 DEF Pending
<1>6. \A k, l \in Changes(told) : told[k].id = told[l].id => k = l
  BY <1>2 DEF Sane
<1> QED
  BY <1>1, <1>2, <1>4, <1>5, <1>6 DEF Sane

\* A stack and one frame more.
LEMMA AppendShape ==
  ASSUME NEW stk \in Seq(Frame), NEW f \in Frame
  PROVE  /\ Append(stk, f) \in Seq(Frame) /\ Append(stk, f) # <<>>
         /\ Len(Append(stk, f)) = Len(stk) + 1
         /\ DOMAIN Append(stk, f) = 1 .. Len(stk) + 1
         /\ \A k \in DOMAIN stk : Append(stk, f)[k] = stk[k]
         /\ Append(stk, f)[Len(stk) + 1] = f
         /\ Append(stk, f) = stk \o <<f>>
  OBVIOUS

\* An event or a loop begins.
LEMMA SanePush ==
  ASSUME NEW stk, NEW in, NEW active, NEW gone, NEW alive, NEW mx,
         Sane(stk, in, active, gone, alive, mx), Calm(stk),
         NEW f \in Frame, f.op # "change", Fits(f, DOMAIN in, active, gone)
  PROVE  /\ Sane(Append(stk, f), in, active, gone, alive, mx)
         /\ Calm(Append(stk, f)) /\ Changes(Append(stk, f)) = Changes(stk)
<1> DEFINE new == Append(stk, f)
<1>1. stk \in Seq(Frame) /\ DOMAIN stk = 1 .. Len(stk) /\ Len(stk) \in Nat
  BY DEF Sane
<1>2. /\ new \in Seq(Frame) /\ new # <<>>
      /\ Len(new) = Len(stk) + 1 /\ DOMAIN new = 1 .. Len(stk) + 1
      /\ \A k \in DOMAIN stk : new[k] = stk[k]
      /\ new[Len(stk) + 1] = f
  BY <1>1, AppendShape
<1> HIDE DEF new
<1>3. \A k \in DOMAIN new : k \in DOMAIN stk \/ k = Len(stk) + 1
  BY <1>1, <1>2
<1>4. Changes(new) = Changes(stk)
  <2>1. DOMAIN stk \subseteq DOMAIN new
    BY <1>1, <1>2
  <2> QED
    BY <1>2, <1>3, <2>1 DEF Changes
<1>5. \A k \in DOMAIN new : Fits(new[k], DOMAIN in, active, gone)
  BY <1>2, <1>3 DEF Sane
<1>6. ASSUME NEW k \in Changes(stk)
      PROVE  Pending(new, k, in, alive, mx)
  <2>1. Pending(stk, k, in, alive, mx) /\ k \in DOMAIN stk /\ stk[k].op = "change"
    BY DEF Sane, Changes
  <2>2. k # Len(stk)
    <3>1. stk # <<>>
      BY <1>1, <2>1
    <3> QED
      BY <2>1, <3>1 DEF Calm
  <2>3. k < Len(stk) /\ k + 1 \in DOMAIN stk /\ k # Len(new)
    BY <1>1, <1>2, <2>1, <2>2
  <2> QED
    BY <1>2, <2>1, <2>3 DEF Pending
<1>7. \A k, l \in Changes(new) : new[k].id = new[l].id => k = l
  BY <1>2, <1>4 DEF Sane, Changes
<1>8. Calm(new)
  BY <1>2 DEF Calm
<1> QED
  BY <1>2, <1>4, <1>5, <1>6, <1>7, <1>8 DEF Sane, new

\* An instance_change begins: its loop is put on the stack above it.
LEMMA SaneChange ==
  ASSUME NEW stk, NEW in, NEW active, NEW gone, NEW alive, NEW mx,
         Sane(stk, in, active, gone, alive, mx), Calm(stk),
         NEW f \in Frame, f.op = "change", f.id < mx,
         \A k \in Changes(stk) : stk[k].id # f.id,
         NEW g \in Frame, Awaits(f.id, g, in, alive), Fits(g, DOMAIN in, active, gone)
  PROVE  LET new == Append(Append(stk, f), g)
         IN  /\ Sane(new, in, active, gone, alive, mx) /\ Calm(new)
             /\ Changes(new) = Changes(stk) \cup {Len(stk) + 1}
<1> DEFINE one == Append(stk, f)
           new == Append(one, g)
<1>1. stk \in Seq(Frame) /\ DOMAIN stk = 1 .. Len(stk) /\ Len(stk) \in Nat
  BY DEF Sane
<1>2. /\ one \in Seq(Frame) /\ Len(one) = Len(stk) + 1 /\ DOMAIN one = 1 .. Len(stk) + 1
      /\ \A k \in DOMAIN stk : one[k] = stk[k]
      /\ one[Len(stk) + 1] = f
  BY <1>1, AppendShape
<1> HIDE DEF one
<1>3. /\ new \in Seq(Frame) /\ new # <<>>
      /\ Len(new) = Len(stk) + 2 /\ DOMAIN new = 1 .. Len(stk) + 2
      /\ \A k \in DOMAIN one : new[k] = one[k]
      /\ new[Len(stk) + 2] = g
  <2>1. /\ new \in Seq(Frame) /\ new # <<>> /\ Len(new) = Len(one) + 1
        /\ DOMAIN new = 1 .. Len(one) + 1
        /\ \A k \in DOMAIN one : new[k] = one[k]
        /\ new[Len(one) + 1] = g
    BY <1>2, AppendShape
  <2>2. Len(one) + 1 = Len(stk) + 2
    BY <1>1, <1>2
  <2> QED
    BY <2>1, <2>2
<1> HIDE DEF new
<1>4. /\ \A k \in DOMAIN stk : new[k] = stk[k]
      /\ new[Len(stk) + 1] = f
      /\ \A k \in DOMAIN new : k \in DOMAIN stk \/ k = Len(stk) + 1 \/ k = Len(stk) + 2
  <2>1. DOMAIN stk \subseteq DOMAIN one /\ Len(stk) + 1 \in DOMAIN one
    BY <1>1, <1>2
  <2> QED
    BY <1>1, <1>2, <1>3, <2>1
<1>5. g.op = "destroy"
  BY DEF Awaits
<1>6. Changes(new) = Changes(stk) \cup {Len(stk) + 1}
  <2>1. DOMAIN stk \subseteq DOMAIN new /\ Len(stk) + 1 \in DOMAIN new
    BY <1>1, <1>3
  <2> QED
    BY <1>3, <1>4, <1>5, <2>1 DEF Changes
<1>7. \A k \in DOMAIN new : Fits(new[k], DOMAIN in, active, gone)
  <2>1. Fits(f, DOMAIN in, active, gone)
    BY DEF Fits
  <2> QED
    BY <1>3, <1>4, <2>1 DEF Sane
<1>8. ASSUME NEW k \in Changes(stk)
      PROVE  Pending(new, k, in, alive, mx)
  <2>1. Pending(stk, k, in, alive, mx) /\ k \in DOMAIN stk /\ stk[k].op = "change"
    BY DEF Sane, Changes
  <2>2. k # Len(stk)
    <3>1. stk # <<>>
      BY <1>1, <2>1
    <3> QED
      BY <2>1, <3>1 DEF Calm
  <2>3. k < Len(stk) /\ k + 1 \in DOMAIN stk /\ k # Len(new)
    BY <1>1, <1>3, <2>1, <2>2
  <2> QED
    BY <1>4, <2>1, <2>3 DEF Pending
<1>9. Pending(new, Len(stk) + 1, in, alive, mx)
  <2>1. Len(stk) + 1 # Len(new) /\ (Len(stk) + 1) + 1 = Len(stk) + 2
    BY <1>1, <1>3
  <2> QED
    BY <1>3, <1>4, <2>1 DEF Pending
<1>10. \A k, l \in Changes(new) : new[k].id = new[l].id => k = l
  BY <1>4, <1>6 DEF Sane, Changes
<1>11. Calm(new)
  BY <1>3, <1>5 DEF Calm
<1> QED
  BY <1>3, <1>6, <1>7, <1>8, <1>9, <1>10, <1>11 DEF Sane, new, one

\* A stack without its last frame.
LEMMA FrontShape ==
  ASSUME NEW stk \in Seq(Frame), stk # <<>>
  PROVE  /\ Front(stk) \in Seq(Frame) /\ Len(Front(stk)) = Len(stk) - 1
         /\ DOMAIN Front(stk) = 1 .. Len(stk) - 1
         /\ \A k \in 1 .. Len(stk) - 1 : Front(stk)[k] = stk[k]
<1>1. Len(stk) \in Nat /\ Len(stk) >= 1 /\ \A k \in 1 .. Len(stk) - 1 : stk[k] \in Frame
  OBVIOUS
<1>2. Front(stk) = SubSeq(stk, 1, Len(stk) - 1)
  BY DEF Front
<1> DEFINE n == Len(stk) - 1
<1>3. /\ n \in Nat /\ 1 \in Int /\ n \in Int /\ n - 1 + 1 = n
      /\ \A k \in 1 .. n : stk[k] \in Frame /\ 1 + k - 1 = k
  BY <1>1
<1> HIDE DEF n
<1>4. /\ SubSeq(stk, 1, n) \in Seq(Frame)
      /\ Len(SubSeq(stk, 1, n)) = IF 1 <= n THEN n - 1 + 1 ELSE 0
      /\ \A k \in 1 .. n - 1 + 1 : SubSeq(stk, 1, n)[k] = stk[1 + k - 1]
  BY <1>3, SubSeqProperties
<1>5. Len(SubSeq(stk, 1, n)) = n /\ \A k \in 1 .. n : SubSeq(stk, 1, n)[k] = stk[k]
  BY <1>3, <1>4
<1>6. DOMAIN SubSeq(stk, 1, n) = 1 .. n
  BY <1>4, <1>5
<1> QED
  BY <1>2, <1>4, <1>5, <1>6 DEF n

\* The innermost frame ends.  If it is the loop over an instance to be changed,
\* that instance is no longer alive; a loop over more is not such a loop.
LEMMA SanePop ==
  ASSUME NEW stk, NEW in, NEW active, NEW gone, NEW alive, NEW mx,
         Sane(stk, in, active, gone, alive, mx), stk # <<>>,
         stk[Len(stk)].op = "destroy" /\ Len(stk[Len(stk)].at) = 1
           => stk[Len(stk)].at[1] \notin alive
  PROVE  /\ Sane(Front(stk), in, active, gone, alive, mx)
         /\ stk[Len(stk)].op # "destroy" \/ Len(stk[Len(stk)].at) # 1 => Calm(Front(stk))
         /\ Changes(Front(stk)) = Changes(stk) \ {Len(stk)}
<1> DEFINE new == Front(stk)
           n == Len(stk)
<1>1. /\ stk \in Seq(Frame) /\ DOMAIN stk = 1 .. n /\ n \in Nat /\ n >= 1
  BY DEF Sane
<1>2. /\ new \in Seq(Frame) /\ Len(new) = n - 1 /\ DOMAIN new = 1 .. n - 1
      /\ \A k \in DOMAIN new : k \in DOMAIN stk /\ new[k] = stk[k]
  <2>1. /\ Front(stk) \in Seq(Frame) /\ Len(Front(stk)) = n - 1
        /\ DOMAIN Front(stk) = 1 .. n - 1
        /\ \A k \in 1 .. n - 1 : Front(stk)[k] = stk[k]
    BY <1>1, FrontShape
  <2> QED
    BY <1>1, <2>1
<1> HIDE DEF new, n
<1>3. Changes(new) = Changes(stk) \ {n}
  BY <1>1, <1>2 DEF Changes
<1>4. \A k \in DOMAIN new : Fits(new[k], DOMAIN in, active, gone)
  BY <1>2 DEF Sane
<1>5. ASSUME NEW k \in Changes(new)
      PROVE  /\ Pending(new, k, in, alive, mx)
             /\ k = n - 1 => stk[n].op = "destroy" /\ Len(stk[n].at) = 1
  <2>1. k \in Changes(stk) /\ k \in DOMAIN new /\ new[k] = stk[k]
    BY <1>2, <1>3 DEF Changes
  <2>2. stk[k].id < mx /\ Awaits(stk[k].id, stk[k + 1], in, alive)
    <3>1. k < n
      BY <2>1, <1>1, <1>2
    <3> QED
      BY <2>1, <3>1 DEF Sane, Pending, n
  <2>3. CASE k = n - 1
    <3>1. k + 1 = n /\ k = Len(new) /\ ~(k < Len(new))
      BY <2>3, <1>1, <1>2
    <3>2. stk[n].op = "destroy" /\ Len(stk[n].at) = 1 /\ stk[n].at[1] \notin alive
      BY <2>2, <3>1 DEF Awaits, n
    <3>3. \A q \in alive : in[q].id # stk[k].id
      BY <2>2, <3>1, <3>2 DEF Awaits
    <3> QED
      BY <2>1, <2>2, <3>1, <3>2, <3>3 DEF Pending
  <2>4. CASE k # n - 1
    <3>1. k + 1 \in DOMAIN new /\ k # Len(new)
      BY <2>1, <2>4, <1>1, <1>2
    <3>2. new[k + 1] = stk[k + 1]
      BY <3>1, <1>2
    <3> QED
      BY <2>1, <2>2, <2>4, <3>1, <3>2 DEF Pending
  <2> QED
    BY <2>3, <2>4
<1>6. \A k, l \in Changes(new) : new[k].id = new[l].id => k = l
  BY <1>2, <1>3 DEF Sane, Changes
<1>7. stk[n].op # "destroy" \/ Len(stk[n].at) # 1 => Calm(new)
  <2>1. SUFFICES ASSUME stk[n].op # "destroy" \/ Len(stk[n].at) # 1, new # <<>>,
                        new[Len(new)].op = "change"
                 PROVE  FALSE
    BY DEF Calm
  <2>2. n - 1 \in DOMAIN new
    BY <2>1, <1>1, <1>2
  <2>3. n - 1 \in Changes(new)
    BY <2>1, <2>2, <1>2 DEF Changes
  <2> QED
    BY <2>1, <2>3, <1>5
<1>8. Sane(new, in, active, gone, alive, mx)
  BY <1>2, <1>4, <1>5, <1>6 DEF Sane
<1> QED
  BY <1>3, <1>7, <1>8 DEF new, n

\* Two frames more.
LEMMA AppendTwo ==
  ASSUME NEW stk \in Seq(Frame), NEW f \in Frame, NEW g \in Frame
  PROVE  Append(Append(stk, f), g) = stk \o <<f, g>>
<1>1. f \in Frame /\ g \in Frame
  OBVIOUS
<1>2. <<f>> \in Seq(Frame) /\ <<g>> \in Seq(Frame)
  BY <1>1
<1>3. Append(stk, f) \in Seq(Frame) /\ Append(stk, f) = stk \o <<f>>
  BY AppendShape
<1>4. Append(Append(stk, f), g) = (stk \o <<f>>) \o <<g>>
  BY <1>3, AppendShape
<1>5. (stk \o <<f>>) \o <<g>> = stk \o (<<f>> \o <<g>>)
  BY <1>2, ConcatAssociative
<1>6. <<f>> \o <<g>> = <<f, g>>
  <2>1. /\ <<f>> \o <<g>> \in Seq(Frame) /\ Len(<<f>> \o <<g>>) = 2
        /\ (<<f>> \o <<g>>)[1] = f /\ (<<f>> \o <<g>>)[2] = g
    BY <1>2
  <2>2. <<f, g>> \in Seq(Frame) /\ Len(<<f, g>>) = 2 /\ <<f, g>>[1] = f /\ <<f, g>>[2] = g
    BY <1>1
  <2>3. \A i \in 1 .. 2 : i = 1 \/ i = 2
    OBVIOUS
  <2> QED
    BY <2>1, <2>2, <2>3, SeqEqual
<1> QED
  BY <1>4, <1>5, <1>6

\* The loop of instance_destroy stands on its next instance.
LEMMA SaneVisit ==
  ASSUME NEW stk, NEW in, NEW active, NEW gone, NEW alive, NEW mx,
         Sane(stk, in, active, gone, alive, mx), Calm(stk),
         NEW f \in Frame, f.op = "destroy", Fits(f, DOMAIN in, active, gone)
  PROVE  /\ Sane(stk \o Visit(f), in, active, gone, alive, mx)
         /\ Changes(stk \o Visit(f)) = Changes(stk)
<1>1. stk \in Seq(Frame)
  BY DEF Sane
<1> DEFINE one == Append(stk, f)
<1>2. /\ Sane(one, in, active, gone, alive, mx) /\ Calm(one) /\ Changes(one) = Changes(stk)
      /\ one \in Seq(Frame) /\ one = stk \o <<f>>
  BY <1>1, SanePush, AppendShape
<1>3. CASE f.at[1] \in cleanups
  <2>1. stk \o Visit(f) = one
    BY <1>2, <1>3 DEF Visit
  <2> QED
    BY <2>1, <1>2
<1>4. CASE f.at[1] \notin cleanups
  <2> DEFINE g == Event(f.at[1])
             two == Append(one, g)
  <2>1. f.at[1] \in Ptr
    BY FrameShape
  <2>2. g \in Frame /\ g.op = "event" /\ g.self = f.at[1]
    BY <2>1, NewFrames
  <2> HIDE DEF g, one
  <2>3. Fits(g, DOMAIN in, active, gone)
    BY <2>2 DEF Fits
  <2>4. /\ Sane(two, in, active, gone, alive, mx) /\ Changes(two) = Changes(stk)
    BY <1>2, <2>2, <2>3, SanePush
  <2>5. two = stk \o <<f, g>>
    BY <1>1, <2>2, AppendTwo DEF one
  <2>6. stk \o Visit(f) = stk \o <<f, g>>
    BY <1>4 DEF Visit, g
  <2> QED
    BY <2>4, <2>5, <2>6
<1> QED
  BY <1>3, <1>4

\* A loop's sequence without its first instance.
LEMMA TailShape ==
  ASSUME NEW P, NEW s \in Seq(P), s # <<>>
  PROVE  /\ Tail(s) \in Seq(P) /\ Len(Tail(s)) = Len(s) - 1
         /\ ToSet(Tail(s)) \subseteq ToSet(s)
         /\ Len(s) # 1 => Tail(s) # <<>> /\ Tail(s)[1] \in ToSet(Tail(s))
<1>1. /\ Tail(s) \in Seq(P) /\ Len(Tail(s)) = Len(s) - 1 /\ Len(s) \in Nat /\ Len(s) >= 1
      /\ \A i \in 1 .. Len(s) - 1 : Tail(s)[i] = s[i + 1]
  OBVIOUS
<1>2. DOMAIN Tail(s) = 1 .. Len(s) - 1 /\ DOMAIN s = 1 .. Len(s)
  BY <1>1
<1>3. \A i \in DOMAIN Tail(s) : i + 1 \in DOMAIN s /\ Tail(s)[i] = s[i + 1]
  BY <1>1, <1>2
<1>4. Len(s) # 1 => 1 \in DOMAIN Tail(s) /\ Tail(s) # <<>>
  BY <1>1, <1>2
<1>5. ToSet(Tail(s)) \subseteq ToSet(s)
  BY <1>3 DEF ToSet
<1>6. 1 \in DOMAIN Tail(s) => Tail(s)[1] \in ToSet(Tail(s))
  BY DEF ToSet
<1> QED
  BY <1>1, <1>4, <1>5, <1>6

\* The loop of instance_destroy goes on, what it stood on being destroyed.
LEMMA SaneOnward ==
  ASSUME NEW stk, NEW in, NEW active, NEW gone, NEW alive, NEW mx,
         Sane(stk, in, active, gone, alive, mx), stk # <<>>,
         stk[Len(stk)].op = "destroy", stk[Len(stk)].at[1] \notin alive,
         active \subseteq DOMAIN in, active \cap gone = {}
  PROVE  /\ Sane(Onward(stk), in, active, gone, alive, mx)
         /\ Changes(Onward(stk)) = Changes(stk)
<1> DEFINE f == stk[Len(stk)]
           rest == Front(stk)
           g == [f EXCEPT !.at = Tail(f.at), !.on = TRUE]
<1>1. stk \in Seq(Frame) /\ Len(stk) \in DOMAIN stk /\ f \in Frame /\ Last(stk) = f
  BY DEF Sane, Last
<1>2. /\ Sane(rest, in, active, gone, alive, mx)
      /\ Len(f.at) # 1 => Calm(rest)
      /\ Changes(rest) = Changes(stk) \ {Len(stk)}
  BY SanePop
<1>3. Changes(rest) = Changes(stk)
  BY <1>2 DEF Changes
<1>4. /\ f.at \in Seq(Ptr) /\ f.at # <<>> /\ Len(f.at) \in Nat
      /\ ToSet(Tail(f.at)) \subseteq active
  BY <1>1, FrameShape DEF Sane, Fits
<1>5. rest \in Seq(Frame)
  BY <1>2 DEF Sane
<1>6. Onward(stk) = rest \o (IF Len(f.at) = 1 THEN <<>> ELSE Visit(g))
  BY <1>1 DEF Onward
<1>7. CASE Len(f.at) = 1
  <2>1. Onward(stk) = rest
    BY <1>5, <1>6, <1>7
  <2> QED
    BY <2>1, <1>2, <1>3
<1>8. CASE Len(f.at) # 1
  <2> DEFINE t == Tail(f.at)
  <2>1. t \in Seq(Ptr) /\ t # <<>> /\ t[1] \in ToSet(t)
    BY <1>4, <1>8, TailShape
  <2>2. ToSet(Tail(t)) \subseteq ToSet(t)
    BY <2>1, TailShape
  <2>3. f \in Loop
    BY <1>1, LoopFrame
  <2> HIDE DEF f, t
  <2>4. g \in Loop /\ g.op = "destroy" /\ g.at = t
    BY <2>1, <2>3 DEF Loop, t
  <2> HIDE DEF g
  <2>5. g \in Frame
    BY <2>4 DEF Frame
  <2>6. Fits(g, DOMAIN in, active, gone)
    BY <1>4, <2>1, <2>2, <2>4 DEF Fits, t
  <2>7. /\ Sane(rest \o Visit(g), in, active, gone, alive, mx)
        /\ Changes(rest \o Visit(g)) = Changes(rest)
    BY <1>2, <1>8, <2>4, <2>5, <2>6, SaneVisit
  <2> QED
    BY <1>3, <1>6, <1>8, <2>7
<1> QED
  BY <1>7, <1>8

\* There are finitely many changes in progress.
LEMMA ChangesFinite ==
  ASSUME NEW stk \in Seq(Frame)
  PROVE  IsFiniteSet(Changes(stk)) /\ Cardinality(Changes(stk)) \in Nat
<1>1. DOMAIN stk = 1 .. Len(stk) /\ Len(stk) \in Nat
  OBVIOUS
<1>2. IsFiniteSet(DOMAIN stk) /\ Changes(stk) \in SUBSET DOMAIN stk
  BY <1>1, FS_Interval DEF Changes
<1> QED
  BY <1>2, FS_Subset, FS_CardinalityType

-----------------------------------------------------------------------------
(* The inductive invariant. *)

\* The events and calls in progress fit the registries, and there is room for
\* what the changes in progress are to construct.
Nested   == Sane(stack, inst, Values(list), deleted, Alive, maxid)
RoomLeft == Len(inst) + Cardinality(Changes(stack)) <= MaxInst

IInv == Registered /\ Nested /\ RoomLeft

\* It holds of an empty stack.
LEMMA SaneEmpty ==
  ASSUME NEW in, NEW active, NEW gone, NEW alive, NEW mx
  PROVE  /\ Sane(<<>>, in, active, gone, alive, mx)
         /\ Calm(<<>>) /\ Changes(<<>>) = {}
<1>1. <<>> \in Seq(Frame) /\ DOMAIN <<>> = {}
  OBVIOUS
<1>2. Changes(<<>>) = {}
  BY <1>1 DEF Changes
<1> QED
  BY <1>1, <1>2 DEF Sane, Calm

LEMMA InitIInv == Init => IInv
<1> SUFFICES ASSUME Init PROVE IInv
  OBVIOUS
<1>1. Registered
  BY RegisteredAtFirst
<1>2. stack = <<>>
  BY DEF Init
<1>3. Nested /\ Changes(stack) = {}
  BY <1>2, SaneEmpty DEF Nested
<1>4. Len(inst) \in Nat /\ Len(inst) <= MaxInst
  BY <1>1 DEF Registered, Typed
<1>5. RoomLeft
  BY <1>3, <1>4, FS_EmptySet DEF RoomLeft
<1> QED
  BY <1>1, <1>3, <1>5 DEF IInv

\* What the engine functions know of the event that calls them.
LEMMA Caller ==
  ASSUME IInv, stack # <<>>, Top.op = "event"
  PROVE  self \in DOMAIN inst /\ self \notin deleted /\ Calm(stack)
<1>1. stack \in Seq(Frame) /\ Len(stack) \in DOMAIN stack
  BY DEF IInv, Nested, Sane
<1>2. Fits(stack[Len(stack)], DOMAIN inst, Values(list), deleted)
  BY <1>1 DEF IInv, Nested, Sane
<1> QED
  BY <1>2 DEF Fits, Top, self, Calm

\* Instances on the list are allocated and not deleted.
LEMMA ActiveNotDeleted ==
  ASSUME Registered
  PROVE  /\ Values(list) \subseteq DOMAIN inst /\ Values(list) \cap deleted = {}
         /\ Values(list) \subseteq Ptr /\ Values(list) \cap cleanups = {}
<1>1. Values(list) \subseteq DOMAIN inst /\ DOMAIN inst \subseteq Ptr
  BY InstanceShape DEF Registered, Typed
<1> QED
  BY <1>1 DEF Registered, Separate

\* A step that leaves the registries alone and puts the stack in order.
LEMMA StackStep ==
  ASSUME IInv, UNCHANGED registry,
         Sane(stack', inst, Values(list), deleted, Alive, maxid),
         Len(inst) + Cardinality(Changes(stack')) <= MaxInst
  PROVE  IInv'
<1>1. Registered' /\ Alive' = Alive /\ Values(list') = Values(list)
  BY RegistryUnchanged DEF IInv
<1>2. inst' = inst /\ deleted' = deleted /\ maxid' = maxid
  BY DEF registry
<1>3. Nested'
  BY <1>1, <1>2 DEF Nested
<1>4. RoomLeft'
  BY <1>2 DEF RoomLeft
<1> QED
  BY <1>1, <1>3, <1>4 DEF IInv

LEMMA StartEventInv ==
  ASSUME IInv, NEW p \in Values(list), StartEvent(p)
  PROVE  IInv'
<1> DEFINE f == Event(p)
<1>1. stack = <<>> /\ stack' = <<f>> /\ UNCHANGED registry
  BY DEF StartEvent
<1>2. p \in Ptr /\ p \in DOMAIN inst /\ p \notin deleted
  BY ActiveNotDeleted DEF IInv
<1>3. f \in Frame /\ f.op = "event" /\ f.self = p
  BY <1>2, NewFrames
<1> HIDE DEF f
<1>4. Fits(f, DOMAIN inst, Values(list), deleted)
  BY <1>2, <1>3 DEF Fits
<1>5. stack' = Append(stack, f)
  BY <1>1
<1>6. Sane(stack, inst, Values(list), deleted, Alive, maxid) /\ Calm(stack)
  BY <1>1, SaneEmpty
<1>7. /\ Sane(stack', inst, Values(list), deleted, Alive, maxid)
      /\ Changes(stack') = Changes(stack)
  BY <1>3, <1>4, <1>5, <1>6, SanePush
<1> QED
  BY <1>1, <1>7, StackStep DEF IInv, RoomLeft

LEMMA ReturnInv ==
  ASSUME IInv, Return
  PROVE  IInv'
<1>1. stack # <<>> /\ Top.op = "event" /\ stack' = Front(stack) /\ UNCHANGED registry
  BY DEF Return
<1>2. stack[Len(stack)].op = "event"
  BY <1>1 DEF Top
<1>3. /\ Sane(stack', inst, Values(list), deleted, Alive, maxid)
      /\ Changes(stack') = Changes(stack) \ {Len(stack)}
  BY <1>1, <1>2, SanePop DEF IInv, Nested
<1>4. Changes(stack') = Changes(stack)
  BY <1>2, <1>3 DEF Changes
<1> QED
  BY <1>1, <1>3, <1>4, StackStep DEF IInv, RoomLeft

LEMMA InstanceDestroyInv ==
  ASSUME IInv, NEW o \in Objects \cup {noone}, NEW ps, ps # <<>> => ps \in Seq(Ptr),
         ps # <<>> => /\ ps[1] \in DOMAIN inst /\ ps[1] \notin deleted
                      /\ ToSet(Tail(ps)) \subseteq Values(list),
         InstanceDestroy(o, ps)
  PROVE  IInv'
<1> DEFINE f == Destroy(o, ps)
<1>1. /\ ps # <<>> /\ stack' = stack \o Visit(f) /\ UNCHANGED registry
      /\ stack # <<>> /\ Top.op = "event"
  BY DEF InstanceDestroy, Calling
<1>2. f \in Frame /\ f.op = "destroy" /\ f.at = ps
  BY <1>1, NewFrames
<1> HIDE DEF f
<1>3. Fits(f, DOMAIN inst, Values(list), deleted)
  BY <1>1, <1>2 DEF Fits
<1>4. Calm(stack)
  BY <1>1, Caller
<1>5. /\ Sane(stack', inst, Values(list), deleted, Alive, maxid)
      /\ Changes(stack') = Changes(stack)
  BY <1>1, <1>2, <1>3, <1>4, SaneVisit DEF IInv, Nested
<1> QED
  BY <1>1, <1>5, StackStep DEF IInv, RoomLeft

\* The stack stk after a constructor has told its loops.
Extending(stk) == Extended(stk, <<Len(inst')>>, inst')

\* A constructor runs above the stack stk, which holds no change of its id, and
\* its loops are told; then the Create event of an active instance may begin.
LEMMA ConstructNests ==
  ASSUME Registered, NEW d \in Nat, NEW o \in Objects, Construct(d, o),
         Len(inst) < MaxInst, \A p \in Alive : Id(p) # d,
         maxid' \in Nat, maxid <= maxid', d < maxid',
         UNCHANGED <<inactive, cleanups, deleted, misuse>>,
         NEW stk, Sane(stk, inst, Values(list), deleted, Alive, maxid), Calm(stk),
         \A k \in Changes(stk) : stk[k].id # d
  PROVE  /\ Registered' /\ Len(inst') = Len(inst) + 1
         /\ d \in DOMAIN list' /\ list'[d] = Len(inst')
         /\ Len(inst') \in Values(list') /\ Len(inst') \in Ptr
         /\ Extending(stk) \in Seq(Frame)
         /\ Sane(Extending(stk), inst', Values(list'), deleted', Alive', maxid')
         /\ Changes(Extending(stk)) = Changes(stk)
         /\ \A p \in Values(list') :
              LET new == Append(Extending(stk), Event(p))
              IN  /\ Sane(new, inst', Values(list'), deleted', Alive', maxid')
                  /\ Changes(new) = Changes(stk)
<1> DEFINE n == Len(inst')
<1>1. /\ Registered' /\ n = Len(inst) + 1
      /\ inst'[n].id = d /\ inst'[n].obj \in Objects
      /\ \A p \in DOMAIN inst : p \in DOMAIN inst' /\ inst'[p] = inst[p]
      /\ Values(list') = Values(list) \cup {n}
      /\ d \in DOMAIN list' /\ list'[d] = n
      /\ Alive' = Alive \cup {n}
  BY ConstructKeeps
<1>2. /\ DOMAIN inst' = 1 .. n /\ n \in Nat /\ n <= MaxInst /\ maxid \in Nat
      /\ Values(list') \subseteq DOMAIN inst' /\ Values(list') \cap deleted' = {}
  <2>1. Typed' /\ Separate' /\ Typed
    BY <1>1 DEF Registered
  <2>2. inst' \in Seq(Instance) /\ n <= MaxInst /\ maxid \in Nat
    BY <2>1 DEF Typed
  <2>3. Values(list') \subseteq DOMAIN inst' /\ Values(list') \cap deleted' = {}
    BY <2>1 DEF Typed, Separate
  <2> QED
    BY <2>2, <2>3
<1>3. DOMAIN inst' \subseteq Ptr
  BY <1>2, KindsAssumption DEF Ptr
<1> HIDE DEF n
<1>4. <<n>> \in Seq(Ptr) /\ ToSet(<<n>>) = {n}
  <2>1. n \in Ptr
    BY <1>2, <1>3, <1>1 DEF Registered, Typed
  <2>2. DOMAIN <<n>> = {1} /\ <<n>>[1] = n
    OBVIOUS
  <2> QED
    BY <2>1, <2>2 DEF ToSet
<1> DEFINE told == Extending(stk)
<1>5. Told(stk, told, Values(list')) /\ stk \in Seq(Frame)
  <2>1. \A k \in DOMAIN stk : stk[k].op = "destroy" => ToSet(Tail(stk[k].at)) \subseteq Values(list)
    BY DEF Sane, Fits
  <2>2. stk \in Seq(Frame)
    BY DEF Sane
  <2>3. \A p \in ToSet(<<n>>) : inst'[p].obj \in Objects
    BY <1>1, <1>4
  <2>4. Told(stk, Extended(stk, <<n>>, inst'), Values(list) \cup ToSet(<<n>>))
    BY <1>4, <2>1, <2>2, <2>3, ExtendedTold
  <2> QED
    BY <1>1, <1>4, <2>2, <2>4 DEF n, Extending
<1> HIDE DEF told
<1>6. \A k \in Changes(stk) : \A q \in Alive' : inst'[q].id = stk[k].id => q \in Alive
  BY <1>1
<1>7. Sane(told, inst', Values(list'), deleted, Alive', maxid')
  <2>1. Alive \subseteq DOMAIN inst
    BY DEF Alive
  <2>2. \A p \in DOMAIN inst : p \in DOMAIN inst' /\ inst'[p] = inst[p]
    BY <1>1
  <2> QED
    BY <1>2, <1>5, <1>6, <2>1, <2>2, SaneTold
<1>8. Changes(told) = Changes(stk) /\ Calm(told) /\ told \in Seq(Frame)
  BY <1>5, ToldShape DEF Told
<1>9. ASSUME NEW p \in Values(list')
      PROVE  LET new == Append(told, Event(p))
             IN  /\ Sane(new, inst', Values(list'), deleted, Alive', maxid')
                 /\ Changes(new) = Changes(stk)
  <2> DEFINE f == Event(p)
  <2>1. p \in DOMAIN inst' /\ p \in Ptr /\ p \notin deleted
    BY <1>2, <1>3
  <2>2. f \in Frame /\ f.op = "event" /\ f.self = p
    BY <2>1, NewFrames
  <2> HIDE DEF f
  <2>3. Fits(f, DOMAIN inst', Values(list'), deleted)
    BY <2>1, <2>2 DEF Fits
  <2>4. /\ Sane(Append(told, f), inst', Values(list'), deleted, Alive', maxid')
        /\ Changes(Append(told, f)) = Changes(told)
    BY <1>7, <1>8, <2>2, <2>3, SanePush
  <2> QED
    BY <1>8, <2>4 DEF f
<1>10. n \in Values(list') /\ n \in Ptr
  BY <1>1, <1>2, <1>3
<1> QED
  BY <1>1, <1>7, <1>8, <1>9, <1>10 DEF n, told

\* What instance_create and instance_copy find: room, and no instance with the
\* id they take.
LEMMA RoomToConstruct ==
  ASSUME IInv, Room
  PROVE  /\ maxid \in Nat /\ Len(inst) < MaxInst /\ \A p \in Alive : Id(p) # maxid
         /\ \A k \in Changes(stack) : stack[k].id # maxid
         /\ Len(inst) + 1 + Cardinality(Changes(stack)) <= MaxInst
<1>1. Typed /\ Nested /\ Alive \subseteq DOMAIN inst
  BY DEF IInv, Registered, Alive
<1>2. Len(inst) \in Nat /\ MaxInst \in Nat /\ maxid \in Nat
  BY <1>1, KindsAssumption DEF Typed
<1>3. stack \in Seq(Frame) /\ Cardinality(Changes(stack)) \in Nat
  BY <1>1, ChangesFinite DEF Nested, Sane
<1>4. Len(inst) + Cardinality(Changes(stack)) < MaxInst
  BY DEF Room, Changes
<1>5. \A p \in Alive : Id(p) # maxid
  BY <1>1, <1>2, InstanceShape
<1>6. ASSUME NEW k \in Changes(stack)
      PROVE  stack[k].id # maxid
  <2>1. k \in DOMAIN stack /\ stack[k].op = "change" /\ stack[k].id < maxid
    BY <1>1 DEF Changes, Nested, Sane, Pending
  <2>2. stack[k].id \in Nat
    BY <1>3, <2>1, FrameShape
  <2> QED
    BY <2>1, <2>2, <1>2
<1> QED
  BY <1>2, <1>3, <1>4, <1>5, <1>6

LEMMA InstanceCreateInv ==
  ASSUME IInv, NEW o \in Objects, InstanceCreate(o)
  PROVE  IInv'
<1>1. /\ stack # <<>> /\ Top.op = "event" /\ Room /\ Construct(maxid, o)
      /\ maxid' = maxid + 1 /\ stack' = Append(Extending(stack), Event(Len(inst')))
      /\ UNCHANGED <<inactive, cleanups, deleted, misuse>>
  BY DEF InstanceCreate, Calling, Extending
<1>2. /\ maxid \in Nat /\ Len(inst) < MaxInst /\ \A p \in Alive : Id(p) # maxid
      /\ \A k \in Changes(stack) : stack[k].id # maxid
      /\ Len(inst) + 1 + Cardinality(Changes(stack)) <= MaxInst
  BY <1>1, RoomToConstruct
<1>3. /\ Registered /\ Sane(stack, inst, Values(list), deleted, Alive, maxid)
      /\ Calm(stack)
  BY <1>1, Caller DEF IInv, Nested
<1>4. maxid' \in Nat /\ maxid <= maxid' /\ maxid < maxid'
  BY <1>1, <1>2
<1>5. /\ Registered' /\ Len(inst') = Len(inst) + 1
      /\ Len(inst') \in Values(list')
      /\ \A p \in Values(list') :
           LET new == Append(Extending(stack), Event(p))
           IN  /\ Sane(new, inst', Values(list'), deleted', Alive', maxid')
               /\ Changes(new) = Changes(stack)
  BY <1>1, <1>2, <1>3, <1>4, ConstructNests
<1>6. Nested' /\ Changes(stack') = Changes(stack)
  BY <1>1, <1>5 DEF Nested
<1>7. RoomLeft'
  BY <1>2, <1>5, <1>6 DEF RoomLeft
<1> QED
  BY <1>5, <1>6, <1>7 DEF IInv

LEMMA InstanceCopyInv ==
  ASSUME IInv, NEW perf \in BOOLEAN, InstanceCopy(perf)
  PROVE  IInv'
<1> DEFINE told == Extending(stack)
           p == list'[maxid]
<1>1. /\ stack # <<>> /\ Top.op = "event" /\ Room /\ Construct(maxid, Obj(self))
      /\ maxid' = maxid + 1
      /\ stack' = told \o (IF perf THEN <<Event(p)>> ELSE <<>>)
      /\ UNCHANGED <<inactive, cleanups, deleted, misuse>>
  BY DEF InstanceCopy, Calling, Extending
<1>2. /\ maxid \in Nat /\ Len(inst) < MaxInst /\ \A q \in Alive : Id(q) # maxid
      /\ \A k \in Changes(stack) : stack[k].id # maxid
      /\ Len(inst) + 1 + Cardinality(Changes(stack)) <= MaxInst
  BY <1>1, RoomToConstruct
<1>3. /\ Registered /\ Sane(stack, inst, Values(list), deleted, Alive, maxid)
      /\ Calm(stack) /\ Obj(self) \in Objects
  BY <1>1, Caller, InstanceShape DEF IInv, Nested, Registered
<1>4. maxid' \in Nat /\ maxid <= maxid' /\ maxid < maxid'
  BY <1>1, <1>2
<1>5. /\ Registered' /\ Len(inst') = Len(inst) + 1
      /\ p = Len(inst') /\ p \in Values(list') /\ p \in Ptr
      /\ told \in Seq(Frame)
      /\ Sane(told, inst', Values(list'), deleted', Alive', maxid')
      /\ Changes(told) = Changes(stack)
      /\ LET new == Append(told, Event(p))
         IN  /\ Sane(new, inst', Values(list'), deleted', Alive', maxid')
             /\ Changes(new) = Changes(stack)
  BY <1>1, <1>2, <1>3, <1>4, ConstructNests
<1> HIDE DEF told, p
<1>6. stack' = told \/ stack' = Append(told, Event(p))
  <2>1. told \o <<>> = told
    BY <1>5
  <2>2. Event(p) \in Frame
    BY <1>5, NewFrames
  <2>3. Append(told, Event(p)) = told \o <<Event(p)>>
    BY <1>5, <2>2, AppendShape
  <2> QED
    BY <1>1, <2>1, <2>3
<1>7. Nested' /\ Changes(stack') = Changes(stack)
  BY <1>5, <1>6 DEF Nested
<1>8. RoomLeft'
  BY <1>2, <1>5, <1>7 DEF RoomLeft
<1> QED
  BY <1>5, <1>7, <1>8 DEF IInv

\* The change whose loop has ended finds its id free, and its new instance is the
\* one that is found under the id.
LEMMA AfterChangeInv ==
  ASSUME IInv, AfterChange
  PROVE  IInv' /\ Top.id \in DOMAIN list' /\ list'[Top.id] = Len(inst')
<1> DEFINE stk == Front(stack)
           told == Extending(stk)
           d == Top.id
           p == list'[d]
           c == Cardinality(Changes(stack))
<1>1. /\ stack # <<>> /\ Top.op = "change" /\ Construct(d, Top.obj)
      /\ stack' = told \o (IF Top.perf THEN <<Event(p)>> ELSE <<>>)
      /\ UNCHANGED <<inactive, cleanups, deleted, maxid, misuse>>
  BY DEF AfterChange, Extending
<1>2. stack \in Seq(Frame) /\ Len(stack) \in DOMAIN stack /\ Top \in Frame
  BY <1>1 DEF IInv, Nested, Sane, Top
<1>3. d \in Nat /\ Top.obj \in Objects
  BY <1>1, <1>2, FrameShape
<1>4. Len(stack) \in Changes(stack) /\ stack[Len(stack)] = Top
  BY <1>1, <1>2 DEF Changes, Top
<1>5. d < maxid /\ \A q \in Alive : Id(q) # d
  BY <1>4 DEF IInv, Nested, Sane, Pending, Id
<1>6. /\ Sane(stk, inst, Values(list), deleted, Alive, maxid) /\ Calm(stk)
      /\ Changes(stk) = Changes(stack) \ {Len(stack)}
  BY <1>1, <1>4, SanePop DEF IInv, Nested
<1>7. \A k \in Changes(stk) : stk[k].id # d
  <2>1. ASSUME NEW k \in Changes(stk)
        PROVE  stk[k] = stack[k]
    <3>1. k \in DOMAIN stk
      BY DEF Changes
    <3> QED
      BY <1>1, <1>2, <3>1, FrontShape
  <2> QED
    BY <1>4, <1>6, <2>1 DEF IInv, Nested, Sane
<1>8. /\ c \in Nat /\ c >= 1 /\ Cardinality(Changes(stk)) = c - 1
      /\ Len(inst) \in Nat /\ MaxInst \in Nat /\ maxid \in Nat /\ Len(inst) + c <= MaxInst
  <2>1. IsFiniteSet(Changes(stack)) /\ c \in Nat
    BY <1>2, ChangesFinite
  <2>2. Cardinality(Changes(stk)) = c - 1
    BY <1>4, <1>6, <2>1, FS_RemoveElement
  <2>3. Cardinality(Changes(stk)) \in Nat
    BY <1>6, ChangesFinite DEF Sane
  <2>4. Len(inst) \in Nat /\ MaxInst \in Nat /\ maxid \in Nat
    BY KindsAssumption DEF IInv, Registered, Typed
  <2>5. Len(inst) + c <= MaxInst
    BY DEF IInv, RoomLeft
  <2> HIDE DEF c, stk
  <2> QED
    BY <2>1, <2>2, <2>3, <2>4, <2>5
<1> HIDE DEF c, stk
<1>9. Len(inst) < MaxInst /\ maxid' \in Nat /\ maxid <= maxid' /\ d < maxid'
  BY <1>1, <1>5, <1>8
<1>10. Registered
  BY DEF IInv
<1> HIDE DEF d
<1>11. /\ Registered' /\ Len(inst') = Len(inst) + 1
       /\ d \in DOMAIN list' /\ p = Len(inst') /\ p \in Values(list') /\ p \in Ptr
       /\ told \in Seq(Frame)
       /\ Sane(told, inst', Values(list'), deleted', Alive', maxid')
       /\ Changes(told) = Changes(stk)
       /\ LET new == Append(told, Event(p))
          IN  /\ Sane(new, inst', Values(list'), deleted', Alive', maxid')
              /\ Changes(new) = Changes(stk)
  BY <1>1, <1>3, <1>5, <1>6, <1>7, <1>9, <1>10, ConstructNests
<1> HIDE DEF told, p
<1>12. stack' = told \/ stack' = Append(told, Event(p))
  <2>1. told \o <<>> = told
    BY <1>11
  <2>2. Event(p) \in Frame
    BY <1>11, NewFrames
  <2>3. Append(told, Event(p)) = told \o <<Event(p)>>
    BY <1>11, <2>2, AppendShape
  <2> QED
    BY <1>1, <2>1, <2>3
<1>13. Nested' /\ Changes(stack') = Changes(stk)
  BY <1>11, <1>12 DEF Nested
<1>14. RoomLeft'
  BY <1>8, <1>11, <1>13 DEF RoomLeft
<1> QED
  BY <1>11, <1>13, <1>14 DEF IInv, d, p

\* The Destroy event has run: unless it has destroyed its instance already, that
\* is unlinked, and in either case it is not alive when the loop goes on.
LEMMA AfterDestroyEventInv ==
  ASSUME IInv, AfterDestroyEvent
  PROVE  IInv'
<1> DEFINE p == Top.at[1]
<1>1. /\ stack # <<>> /\ Top.op = "destroy" /\ UNCHANGED <<inst, deleted, maxid>>
      /\ \/ /\ p \in cleanups /\ stack' = Onward(stack)
            /\ UNCHANGED <<list, roll, count, inactive, cleanups, misuse>>
         \/ p \notin cleanups /\ Unlink(p) /\ stack' = Onward(AfterUnlink(stack, p))
  BY DEF AfterDestroyEvent
<1>2. /\ stack \in Seq(Frame) /\ Len(stack) \in DOMAIN stack /\ stack[Len(stack)] = Top
      /\ DOMAIN stack = 1 .. Len(stack) /\ Len(stack) \in Nat
  BY <1>1 DEF IInv, Nested, Sane, Top
<1>3. p \in DOMAIN inst /\ p \notin deleted
  BY <1>1, <1>2 DEF IInv, Nested, Sane, Fits
<1>4. Registered /\ Sane(stack, inst, Values(list), deleted, Alive, maxid)
  BY DEF IInv, Nested
<1> HIDE DEF p
<1>5. CASE p \in cleanups
  <2>1. stack' = Onward(stack) /\ UNCHANGED registry
    BY <1>1, <1>5 DEF registry
  <2>2. p \notin Alive
    BY <1>5 DEF Alive
  <2>3. Values(list) \subseteq DOMAIN inst /\ Values(list) \cap deleted = {}
    BY <1>4, ActiveNotDeleted
  <2>4. /\ Sane(stack', inst, Values(list), deleted, Alive, maxid)
        /\ Changes(stack') = Changes(stack)
    BY <1>1, <1>2, <1>4, <2>1, <2>2, <2>3, SaneOnward DEF p
  <2> QED
    BY <2>1, <2>4, StackStep DEF IInv, RoomLeft
<1>6. CASE p \notin cleanups
  <2> DEFINE told == AfterUnlink(stack, p)
  <2>1. Unlink(p) /\ stack' = Onward(told) /\ p \in Alive
    BY <1>1, <1>3, <1>6 DEF Alive
  <2>2. /\ Registered' /\ Alive' = Alive \ {p}
        /\ Id(p) \in DOMAIN inactive => p \notin Values(list) /\ Values(list') = Values(list)
        /\ Id(p) \notin DOMAIN inactive => Values(list') = Values(list) \ {p}
    BY <1>1, <1>4, <2>1, UnlinkKeeps
  <2>3. \A k \in DOMAIN stack :
           stack[k].op = "destroy" => ToSet(Tail(stack[k].at)) \subseteq Values(list)
    BY <1>4 DEF Sane, Fits
  <2>4. Told(stack, told, Values(list'))
    <3>1. CASE Id(p) \in DOMAIN inactive
      <4>1. told = stack /\ Values(list') = Values(list)
        BY <3>1, <2>2 DEF AfterUnlink
      <4> QED
        BY <4>1, <1>2, <2>3 DEF Told
    <3>2. CASE Id(p) \notin DOMAIN inactive
      <4>1. told = Repaired(stack, {p}) /\ Values(list') = Values(list) \ {p}
        BY <3>2, <2>2 DEF AfterUnlink
      <4> QED
        BY <4>1, <1>2, <2>3, RepairedTold
    <3> QED
      BY <3>1, <3>2
  <2> HIDE DEF told
  <2>5. Sane(told, inst', Values(list'), deleted, Alive', maxid)
    <3>1. Alive \subseteq DOMAIN inst /\ maxid \in Nat /\ maxid <= maxid
      BY <1>4 DEF Alive, Registered, Typed
    <3>2. \A q \in DOMAIN inst : q \in DOMAIN inst' /\ inst'[q] = inst[q]
      BY <1>1
    <3>3. \A k \in Changes(stack) : \A q \in Alive' : inst'[q].id = stack[k].id => q \in Alive
      BY <2>2
    <3> QED
      BY <1>4, <2>4, <3>1, <3>2, <3>3, SaneTold
  <2>6. /\ Changes(told) = Changes(stack) /\ told # <<>>
        /\ told[Len(told)].op = "destroy" /\ told[Len(told)].at[1] = p
    <3>1. Changes(told) = Changes(stack)
      BY <1>2, <2>4, ToldShape
    <3>2. Len(told) = Len(stack) /\ told \in Seq(Frame)
      BY <2>4 DEF Told
    <3>3. told[Len(stack)].op = "destroy" /\ told[Len(stack)].at[1] = p
      BY <1>1, <1>2, <2>4 DEF Told, p
    <3> QED
      BY <1>2, <3>1, <3>2, <3>3
  <2>7. p \notin Alive' /\ Values(list') \subseteq DOMAIN inst' /\ Values(list') \cap deleted = {}
    <3>1. Typed' /\ Separate' /\ deleted' = deleted
      BY <1>1, <2>2 DEF Registered
    <3> QED
      BY <2>2, <3>1 DEF Typed, Separate
  <2>8. /\ Sane(stack', inst', Values(list'), deleted, Alive', maxid)
        /\ Changes(stack') = Changes(stack)
    BY <2>1, <2>5, <2>6, <2>7, SaneOnward
  <2>9. Nested'
    BY <1>1, <2>8 DEF Nested
  <2>10. RoomLeft'
    BY <1>1, <2>8 DEF IInv, RoomLeft
  <2> QED
    BY <2>2, <2>9, <2>10 DEF IInv
<1> QED
  BY <1>5, <1>6

\* The loops are told of a step after which no other instance is alive.
LEMMA ToldStep ==
  ASSUME IInv, Registered', Alive' = Alive, UNCHANGED <<inst, deleted, maxid>>,
         Told(stack, stack', Values(list'))
  PROVE  IInv'
<1>1. Registered /\ Sane(stack, inst, Values(list), deleted, Alive, maxid)
  BY DEF IInv, Nested
<1>2. Changes(stack') = Changes(stack)
  BY <1>1, ToldShape DEF Sane
<1>3. Sane(stack', inst', Values(list'), deleted, Alive', maxid)
  <2>1. Alive \subseteq DOMAIN inst /\ maxid \in Nat /\ maxid <= maxid
    BY <1>1 DEF Alive, Registered, Typed
  <2>2. \A q \in DOMAIN inst : q \in DOMAIN inst' /\ inst'[q] = inst[q]
    OBVIOUS
  <2>3. \A k \in Changes(stack) : \A q \in Alive' : inst'[q].id = stack[k].id => q \in Alive
    OBVIOUS
  <2> QED
    BY <1>1, <2>1, <2>2, <2>3, SaneTold
<1>4. Nested'
  BY <1>3 DEF Nested
<1>5. RoomLeft'
  BY <1>2 DEF IInv, RoomLeft
<1> QED
  BY <1>4, <1>5 DEF IInv

LEMMA InstanceDeactivateInv ==
  ASSUME IInv, NEW S \in SUBSET Values(list), InstanceDeactivate(S)
  PROVE  IInv'
<1>1. /\ Deactivate(S) /\ stack' = Repaired(stack, S)
      /\ inactive' = [d \in DOMAIN inactive \cup Ids(S) |->
                        IF d \in DOMAIN inactive THEN inactive[d]
                        ELSE CHOOSE p \in S : Id(p) = d]
      /\ UNCHANGED <<inst, cleanups, deleted, maxid>>
  BY DEF InstanceDeactivate
<1>2. Registered /\ Sane(stack, inst, Values(list), deleted, Alive, maxid)
  BY DEF IInv, Nested
<1>3. Registered' /\ Values(list') = Values(list) \ S /\ Alive' = Alive
  BY <1>1, <1>2, DeactivateKeeps
<1>4. Told(stack, stack', Values(list'))
  <2>1. \A k \in DOMAIN stack :
           stack[k].op = "destroy" => ToSet(Tail(stack[k].at)) \subseteq Values(list)
    BY <1>2 DEF Sane, Fits
  <2>2. stack \in Seq(Frame)
    BY <1>2 DEF Sane
  <2> QED
    BY <1>1, <1>3, <2>1, <2>2, RepairedTold
<1> QED
  BY <1>1, <1>3, <1>4, ToldStep

LEMMA InstanceActivateInv ==
  ASSUME IInv, NEW ids \in SUBSET DOMAIN inactive, InstanceActivate(ids)
  PROVE  IInv'
<1> DEFINE ps == InOrder([d \in ids |-> inactive[d]])
<1>1. /\ Activate(ps, inst) /\ stack' = Extended(stack, ps, inst)
      /\ inactive' = Without(inactive, ids)
      /\ UNCHANGED <<inst, cleanups, deleted, maxid, misuse>>
  BY DEF InstanceActivate
<1>2. Registered /\ Sane(stack, inst, Values(list), deleted, Alive, maxid)
  BY DEF IInv, Nested
<1>3. /\ Registered' /\ Alive' = Alive
      /\ ps \in Seq(Ptr) /\ ToSet(ps) \subseteq DOMAIN inst
      /\ Values(list') = Values(list) \cup ToSet(ps)
  BY <1>1, <1>2, ActivateKeeps
<1> HIDE DEF ps
<1>4. Told(stack, stack', Values(list'))
  <2>1. \A k \in DOMAIN stack :
           stack[k].op = "destroy" => ToSet(Tail(stack[k].at)) \subseteq Values(list)
    BY <1>2 DEF Sane, Fits
  <2>2. stack \in Seq(Frame)
    BY <1>2 DEF Sane
  <2>3. \A p \in ToSet(ps) : inst[p].obj \in Objects
    BY <1>2, <1>3, InstanceShape DEF Registered, Obj
  <2> QED
    BY <1>1, <1>3, <2>1, <2>2, <2>3, ExtendedTold
<1> QED
  BY <1>1, <1>3, <1>4, ToldStep

\* The instance to be changed is active and not being destroyed, so no change of
\* its id is in progress yet, and nothing else that is alive has that id.
LEMMA InstanceChangeInv ==
  ASSUME Careful, IInv, NEW o \in Objects, NEW perf \in BOOLEAN, InstanceChange(o, perf)
  PROVE  IInv'
<1> DEFINE d == Id(self)
           f == Change(d, o, perf)
           g == Destroy(noone, <<self>>)
           e == Event(self)
           two == Append(Append(stack, f), g)
           c == Cardinality(Changes(stack))
<1>1. /\ stack # <<>> /\ Top.op = "event" /\ Room /\ UNCHANGED registry
      /\ self \in Values(list) /\ ~BeingDestroyed(self)
  BY DEF InstanceChange, Calling, Sound
<1>2. Registered /\ Sane(stack, inst, Values(list), deleted, Alive, maxid) /\ Typed
  BY DEF IInv, Nested, Registered
<1>3. Calm(stack) /\ self \in DOMAIN inst /\ self \notin deleted
  BY <1>1, Caller
<1>4. self \in Ptr /\ self \notin cleanups /\ self \in Alive
  BY <1>1, <1>2, ActiveNotDeleted, AliveListed
<1>5. d \in Nat /\ d < maxid /\ d \in DOMAIN list /\ list[d] = self
  BY <1>1, <1>2, <1>3, InstanceShape, MapsById
<1>6. stack' = Append(stack, f) \o (IF perf THEN Visit(g) ELSE <<g>>)
  BY <1>5 DEF InstanceChange
<1>7. <<self>> \in Seq(Ptr) \ {<<>>} /\ <<self>>[1] = self /\ Len(<<self>>) = 1
      /\ ToSet(Tail(<<self>>)) = {}
  <2>1. <<self>> \in Seq(Ptr) /\ <<self>> # <<>> /\ <<self>>[1] = self /\ Len(<<self>>) = 1
    BY <1>4
  <2>2. Tail(<<self>>) \in Seq(Ptr) /\ Len(Tail(<<self>>)) = 0
    BY <2>1
  <2>3. DOMAIN Tail(<<self>>) = {}
    BY <2>2
  <2> QED
    BY <2>1, <2>3 DEF ToSet
<1>8. /\ f \in Frame /\ f.op = "change" /\ f.id = d
      /\ g \in Frame /\ g.op = "destroy" /\ g.of = noone /\ g.at = <<self>>
      /\ e \in Frame /\ e.op = "event" /\ e.self = self
  <2>1. f \in Frame /\ f.op = "change" /\ f.id = d
    BY <1>5, NewFrames
  <2>2. noone \in Objects \cup {noone}
    OBVIOUS
  <2>3. g \in Frame /\ g.op = "destroy" /\ g.of = noone /\ g.at = <<self>>
    <3> DEFINE one == <<self>>
    <3>1. one \in Seq(Ptr) /\ one # <<>>
      BY <1>7
    <3> HIDE DEF one
    <3>2. /\ Destroy(noone, one) \in Frame /\ Destroy(noone, one).op = "destroy"
          /\ Destroy(noone, one).of = noone /\ Destroy(noone, one).at = one
      BY <3>1, <2>2, NewLoop
    <3> QED
      BY <3>2 DEF one
  <2>4. e \in Frame /\ e.op = "event" /\ e.self = self
    BY <1>4, NewFrames
  <2> QED
    BY <2>1, <2>3, <2>4
<1>9. Visit(g) = <<g, e>>
  BY <1>4, <1>7, <1>8 DEF Visit
<1>10. stack \in Seq(Frame)
  BY <1>2 DEF Sane
<1> HIDE DEF f, g, e
<1>11. stack' = two \/ stack' = Append(two, e)
  <2> DEFINE one == Append(stack, f)
  <2>1. one \in Seq(Frame)
    BY <1>8, <1>10, AppendShape
  <2> HIDE DEF one
  <2>2. one \o <<g>> = Append(one, g) /\ one \o <<g, e>> = Append(Append(one, g), e)
    BY <1>8, <2>1, AppendShape, AppendTwo
  <2> QED
    BY <1>6, <1>9, <2>2 DEF one
<1>12. \A q \in Alive : inst[q].id = d => q = self
  BY <1>2, <1>4, AliveListed DEF Id
<1>13. ASSUME NEW k \in Changes(stack)
       PROVE  stack[k].id # d
  <2>1. SUFFICES ASSUME stack[k].id = d PROVE FALSE
    OBVIOUS
  <2>2. k \in DOMAIN stack /\ DOMAIN stack = 1 .. Len(stack) /\ stack[k].op = "change"
    BY <1>10 DEF Changes
  <2>3. k < Len(stack) /\ k + 1 \in DOMAIN stack
    BY <1>1, <1>3, <2>2 DEF Calm
  <2>4. Awaits(d, stack[k + 1], inst, Alive)
    BY <1>2, <2>1, <2>3 DEF Sane, Pending
  <2>5. stack[k + 1].op = "destroy" /\ stack[k + 1].at[1] = self
    BY <1>4, <2>4 DEF Awaits, Id
  <2> QED
    BY <1>1, <2>3, <2>5 DEF BeingDestroyed
<1>14. Awaits(d, g, inst, Alive) /\ Fits(g, DOMAIN inst, Values(list), deleted)
  BY <1>3, <1>7, <1>8, <1>12 DEF Awaits, Fits, Id
<1> HIDE DEF d
<1>15. /\ Sane(two, inst, Values(list), deleted, Alive, maxid) /\ Calm(two)
       /\ Changes(two) = Changes(stack) \cup {Len(stack) + 1}
  BY <1>2, <1>3, <1>5, <1>8, <1>13, <1>14, SaneChange
<1> HIDE DEF two
<1>16. /\ Sane(stack', inst, Values(list), deleted, Alive, maxid)
       /\ Changes(stack') = Changes(two)
  <2>1. Fits(e, DOMAIN inst, Values(list), deleted)
    BY <1>3, <1>8 DEF Fits
  <2>2. /\ Sane(Append(two, e), inst, Values(list), deleted, Alive, maxid)
        /\ Changes(Append(two, e)) = Changes(two)
    BY <1>8, <1>15, <2>1, SanePush
  <2> QED
    BY <1>11, <1>15, <2>2
<1>17. Len(inst) + Cardinality(Changes(stack')) <= MaxInst
  <2>1. IsFiniteSet(Changes(stack)) /\ c \in Nat
    BY <1>10, ChangesFinite
  <2>2. Len(stack) + 1 \notin Changes(stack)
    BY <1>10 DEF Changes
  <2>3. Cardinality(Changes(stack')) = c + 1
    <3>1. Cardinality(Changes(stack) \cup {Len(stack) + 1}) = c + 1
      BY <2>1, <2>2, FS_AddElement
    <3> QED
      BY <1>15, <1>16, <3>1
  <2>4. Len(inst) + c < MaxInst /\ Len(inst) \in Nat /\ MaxInst \in Nat
    BY <1>1, <1>2, KindsAssumption DEF Room, Changes, Typed
  <2> HIDE DEF c
  <2> QED
    BY <2>1, <2>3, <2>4
<1> QED
  BY <1>1, <1>16, <1>17, StackStep

LEMMA DisposeInv ==
  ASSUME IInv, Dispose
  PROVE  IInv'
<1>1. /\ stack = <<>> /\ stack' = <<>>
      /\ deleted' = deleted \cup cleanups /\ cleanups' = {}
      /\ UNCHANGED <<inst, list, roll, count, inactive, maxid, misuse>>
  BY DEF Dispose
<1>2. Registered'
  BY <1>1, DisposeKeeps DEF IInv
<1>3. Nested'
  BY <1>1, SaneEmpty DEF Nested
<1>4. RoomLeft'
  BY <1>1 DEF IInv, RoomLeft
<1> QED
  BY <1>2, <1>3, <1>4 DEF IInv

\* The calls of a careful game, one case for each engine function.
LEMMA CallInv ==
  ASSUME Careful, IInv, stack # <<>>, Top.op = "event", Call
  PROVE  IInv'
<1>1. /\ self \in DOMAIN inst /\ self \notin deleted /\ self \in Ptr
      /\ Registered
  <2>1. self \in DOMAIN inst /\ self \notin deleted
    BY Caller
  <2>2. Registered
    BY DEF IInv
  <2>3. DOMAIN inst \subseteq Ptr
    BY <2>2, InstanceShape DEF Registered
  <2> QED
    BY <2>1, <2>2, <2>3
<1>2. \A p \in Values(list) : p \in DOMAIN inst /\ p \notin deleted /\ p \in Ptr
  BY <1>1, ActiveNotDeleted
<1>3. \A o \in Objects : roll[o] \in Seq(Ptr) /\ ToSet(roll[o]) \subseteq Values(list)
  BY <1>1 DEF Registered, RollsTyped, RollsAgree
<1>4. ASSUME NEW o \in Objects, InstanceCreate(o)
      PROVE  IInv'
  BY <1>4, InstanceCreateInv
<1>5. ASSUME NEW perf \in BOOLEAN, InstanceCopy(perf)
      PROVE  IInv'
  BY <1>5, InstanceCopyInv
<1>6. ASSUME NEW p \in Values(list) \cup ({self} \ cleanups), InstanceDestroy(noone, <<p>>)
      PROVE  IInv'
  <2> DEFINE ps == <<p>>
  <2>1. p \in Ptr /\ p \in DOMAIN inst /\ p \notin deleted
    BY <1>1, <1>2
  <2>2. ps \in Seq(Ptr) /\ ps # <<>> /\ ps[1] = p
    BY <2>1
  <2>3. ToSet(Tail(ps)) = {}
    <3>1. Tail(ps) \in Seq(Ptr) /\ Len(Tail(ps)) = 0
      BY <2>2
    <3>2. DOMAIN Tail(ps) = {}
      BY <3>1
    <3> QED
      BY <3>2 DEF ToSet
  <2>4. InstanceDestroy(noone, ps)
    BY <1>6
  <2> HIDE DEF ps
  <2> QED
    BY <2>1, <2>2, <2>3, <2>4, InstanceDestroyInv
<1>7. ASSUME NEW o \in Objects, InstanceDestroy(o, roll[o])
      PROVE  IInv'
  <2> DEFINE ps == roll[o]
  <2>1. ps \in Seq(Ptr) /\ ToSet(ps) \subseteq Values(list)
    BY <1>3
  <2>2. InstanceDestroy(o, ps) /\ ps # <<>>
    BY <1>7 DEF InstanceDestroy
  <2> HIDE DEF ps
  <2>3. ps[1] \in ToSet(ps) /\ ToSet(Tail(ps)) \subseteq ToSet(ps)
    BY <2>1, <2>2, TailShape DEF ToSet
  <2>4. ps[1] \in DOMAIN inst /\ ps[1] \notin deleted
    BY <1>2, <2>1, <2>3
  <2> QED
    BY <2>1, <2>2, <2>3, <2>4, InstanceDestroyInv
<1>8. ASSUME NEW p \in Values(list) \cup {self}, p = self => Sound, InstanceDeactivate({p})
      PROVE  IInv'
  <2>1. p \in Values(list)
    BY <1>8 DEF Sound
  <2> QED
    BY <1>8, <2>1, InstanceDeactivateInv
<1>9. ASSUME NEW S \in SUBSET Values(list), InstanceDeactivate(S)
      PROVE  IInv'
  BY <1>9, InstanceDeactivateInv
<1>10. ASSUME NEW ids \in SUBSET DOMAIN inactive, InstanceActivate(ids)
       PROVE  IInv'
  BY <1>10, InstanceActivateInv
<1>11. ASSUME NEW o \in Objects, NEW perf \in BOOLEAN, InstanceChange(o, perf)
       PROVE  IInv'
  BY <1>11, InstanceChangeInv
<1>12. ASSUME NEW o \in Objects, InstanceDeactivate(ToSet(roll[o]))
       PROVE  IInv'
  BY <1>3, <1>9, <1>12
<1>13. ASSUME NEW notme \in BOOLEAN,
              InstanceDeactivate({p \in Values(list) : ~(notme /\ Id(p) = Id(self))})
       PROVE  IInv'
  BY <1>9, <1>13
<1>14. ASSUME NEW d \in DOMAIN inactive, InstanceActivate({d})
       PROVE  IInv'
  BY <1>10, <1>14
<1>15. ASSUME NEW o \in Objects,
              InstanceActivate({d \in DOMAIN inactive : o \in Kinds[Obj(inactive[d])]})
       PROVE  IInv'
  BY <1>10, <1>15
<1>16. ASSUME InstanceActivate(DOMAIN inactive)
       PROVE  IInv'
  BY <1>10, <1>16
<1> QED
  BY <1>4, <1>5, <1>6, <1>7, <1>8, <1>11, <1>12, <1>13, <1>14, <1>15, <1>16 DEF Call

\* Every step keeps the invariant.
LEMMA NextInv ==
  ASSUME Careful, IInv, [Next]_vars
  PROVE  IInv'
<1>1. CASE UNCHANGED vars
  <2>1. UNCHANGED registry /\ stack' = stack
    BY <1>1 DEF vars, registry
  <2> QED
    BY <2>1, StackStep DEF IInv, Nested, RoomLeft
<1>2. ASSUME NEW p \in Values(list), StartEvent(p)
      PROVE  IInv'
  BY <1>2, StartEventInv
<1>3. CASE stack # <<>> /\ Top.op = "event" /\ Call
  BY <1>3, CallInv
<1>4. CASE Return
  BY <1>4, ReturnInv
<1>5. CASE AfterDestroyEvent
  BY <1>5, AfterDestroyEventInv
<1>6. CASE AfterChange
  BY <1>6, AfterChangeInv
<1>7. CASE Dispose
  BY <1>7, DisposeInv
<1> QED
  BY <1>1, <1>2, <1>3, <1>4, <1>5, <1>6, <1>7 DEF Next

\* What the invariant says of the parts that the runs check.
LEMMA IInvImplies ==
  ASSUME IInv
  PROVE  TypeOK /\ OnePlace /\ RollsAgree /\ UniqueIds /\ NoDoubleUnlink /\ StackValid
<1>1. Registered /\ Typed /\ RollsAgree
      /\ Sane(stack, inst, Values(list), deleted, Alive, maxid)
  BY DEF IInv, Nested, Registered
<1>2. OnePlace /\ UniqueIds
  BY <1>1, Placed
<1>3. NoDoubleUnlink
  BY <1>1 DEF NoDoubleUnlink, Typed
<1>4. StackValid
  BY <1>1 DEF StackValid, Sane, Fits
<1>5. TypeOK
  <2>1. \A o \in Objects : ToSet(roll[o]) \subseteq DOMAIN inst
    BY <1>1 DEF RollsAgree, Typed
  <2>2. \A k \in DOMAIN stack : stack[k].op \in {"event", "destroy", "change"}
    <3>1. \A k \in DOMAIN stack : stack[k] \in Frame
      BY <1>1 DEF Sane
    <3> QED
      BY <3>1, FrameShape
  <2>3. inst \in Seq([id : Nat, obj : Objects]) /\ Len(inst) <= MaxInst
    BY <1>1 DEF Typed, Instance
  <2>4. count \in [Objects -> Nat]
    BY <1>1 DEF Registered, RollsTyped
  <2>5. misuse \in BOOLEAN
    BY <1>1 DEF Typed
  <2> QED
    BY <1>1, <2>1, <2>2, <2>3, <2>4, <2>5 DEF TypeOK, Typed
<1> QED
  BY <1>1, <1>2, <1>3, <1>4, <1>5

\* A step that constructs an instance while an instance_change is innermost is the
\* one with which that change goes on.
LEMMA ChangeStep ==
  ASSUME IInv, [Next]_vars, Len(inst') > Len(inst), stack # <<>>, Top.op = "change"
  PROVE  AfterChange
<1>1. Len(inst) \in Nat /\ inst' # inst
  BY DEF IInv, Registered, Typed
<1>2. ~UNCHANGED vars
  BY <1>1 DEF vars
<1>3. \A p : ~StartEvent(p)
  BY DEF StartEvent
<1>4. ~Return
  BY DEF Return
<1>5. ~AfterDestroyEvent
  BY <1>1 DEF AfterDestroyEvent
<1>6. ~Dispose
  BY DEF Dispose
<1> QED
  BY <1>2, <1>3, <1>4, <1>5, <1>6 DEF Next

-----------------------------------------------------------------------------
(* The theorems, for every set of objects, every ancestry and every size. *)

\* In a careful game the inductive invariant holds throughout: of the registries,
\* of every frame of the call stack, and of the changes in progress.
THEOREM Invariance ==
  ASSUME Careful
  PROVE  Spec => []IInv
<1>1. IInv /\ [Next]_vars => IInv'
  BY NextInv
<1> QED
  BY <1>1, InitIInv, PTL DEF Spec

\* The variables keep their types.
THEOREM TypeCorrect ==
  ASSUME Careful
  PROVE  Spec => []TypeOK
<1>1. IInv => TypeOK
  BY IInvImplies
<1> QED
  BY <1>1, Invariance, PTL

\* Every instance is in exactly one of the instance list, the deactivated list, the
\* garbage list and the deleted ones, however events and engine calls nest.
THEOREM InOnePlace ==
  ASSUME Careful
  PROVE  Spec => []OnePlace
<1>1. IInv => OnePlace
  BY IInvImplies
<1> QED
  BY <1>1, Invariance, PTL

\* Every object's list and count agree with the instances that are active
\* (link_obj_instance, unlink_object_id_iter).
THEOREM RollsCorrect ==
  ASSUME Careful
  PROVE  Spec => []RollsAgree
<1>1. IInv => RollsAgree
  BY IInvImplies
<1> QED
  BY <1>1, Invariance, PTL

\* No two instances share an id while neither is destroyed, although an
\* instance_change gives the id of one to another.
THEOREM IdsUnique ==
  ASSUME Careful
  PROVE  Spec => []UniqueIds
<1>1. IInv => UniqueIds
  BY IInvImplies
<1> QED
  BY <1>1, Invariance, PTL

\* Nothing is unlinked twice: the two looks of instance_destroy at the garbage list
\* suffice.
THEOREM UnlinkedOnce ==
  ASSUME Careful
  PROVE  Spec => []NoDoubleUnlink
<1>1. IInv => NoDoubleUnlink
  BY IInvImplies
<1> QED
  BY <1>1, Invariance, PTL

\* No event or call in progress refers to a deleted instance, and a loop has only
\* active instances before it.
THEOREM FramesValid ==
  ASSUME Careful
  PROVE  Spec => []StackValid
<1>1. IInv => StackValid
  BY IInvImplies
<1> QED
  BY <1>1, Invariance, PTL

\* instance_change hands its Create event to the instance that it has just made.
THEOREM ChangeIsOwn ==
  ASSUME Careful
  PROVE  Spec => ChangeReachesNew
<1>1. IInv /\ [Next]_vars =>
        [Len(inst') > Len(inst) /\ stack # <<>> /\ Top.op = "change"
           => Top.id \in DOMAIN list' /\ list'[Top.id] = Len(inst')]_vars
  BY ChangeStep, AfterChangeInv
<1> QED
  BY <1>1, Invariance, PTL DEF Spec, ChangeReachesNew
=============================================================================
