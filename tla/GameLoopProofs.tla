---------------------------- MODULE GameLoopProofs ----------------------------
(***************************************************************************)
(* Proofs about GameLoop, for any rooms, any instances placed in them and  *)
(* any number of event lists.                                              *)
(***************************************************************************)
EXTENDS GameLoop, FiniteSetTheorems, TLAPS

-----------------------------------------------------------------------------
(* Sequences and instances. *)

\* Removing one place of a sequence leaves the others in their order.
LEMMA RemoveAtShape ==
  ASSUME NEW S, NEW s \in Seq(S), NEW k \in DOMAIN s
  PROVE  /\ RemoveAt(s, k) \in Seq(S) /\ Len(RemoveAt(s, k)) = Len(s) - 1
         /\ \A l \in 1 .. Len(s) - 1 : RemoveAt(s, k)[l] = IF l < k THEN s[l] ELSE s[l + 1]
<1> DEFINE p == SubSeq(s, 1, k - 1)
           q == SubSeq(s, k + 1, Len(s))
<1>1. /\ p \in Seq(S) /\ Len(p) = k - 1
      /\ \A l \in 1 .. k - 1 : p[l] = s[l]
  OBVIOUS
<1>2. /\ q \in Seq(S) /\ Len(q) = Len(s) - k
      /\ \A l \in 1 .. Len(s) - k : q[l] = s[k + l]
  OBVIOUS
<1>3. RemoveAt(s, k) = p \o q
  BY DEF RemoveAt
<1> HIDE DEF p, q
<1>4. k \in 1 .. Len(s) /\ Len(s) \in Nat
  OBVIOUS
<1>5. p \o q \in Seq(S) /\ Len(p \o q) = Len(s) - 1
  BY <1>1, <1>2, <1>4
<1>6. ASSUME NEW l \in 1 .. Len(s) - 1
      PROVE  (p \o q)[l] = IF l < k THEN s[l] ELSE s[l + 1]
  <2>1. CASE l < k
    BY <1>1, <1>2, <1>4, <2>1
  <2>2. CASE ~(l < k)
    <3>0. l \in Len(p) + 1 .. Len(p) + Len(q) /\ Len(p) = k - 1
      BY <1>1, <1>2, <1>4, <2>2
    <3>1. (p \o q)[l] = q[l - (k - 1)]
      BY <1>1, <1>2, <3>0
    <3>2. l - (k - 1) \in 1 .. Len(s) - k /\ k + (l - (k - 1)) = l + 1
      BY <1>4, <2>2
    <3> QED
      BY <1>2, <2>2, <3>1, <3>2
  <2> QED
    BY <2>1, <2>2
<1> QED
  BY <1>3, <1>5, <1>6

\* What a sequence lists is finite.
LEMMA ListedFinite ==
  ASSUME NEW S, NEW s \in Seq(S)
  PROVE  IsFiniteSet(ToSet(s))
<1>1. Len(s) \in Nat /\ DOMAIN s = 1 .. Len(s)
  OBVIOUS
<1>2. s \in [1 .. Len(s) -> ToSet(s)] /\ \A x \in ToSet(s) : \E k \in 1 .. Len(s) : s[k] = x
  BY <1>1 DEF ToSet
<1>3. s \in Surjection(1 .. Len(s), ToSet(s))
  BY <1>2 DEF Surjection
<1>4. ExistsSurjection(1 .. Len(s), ToSet(s))
  BY <1>3 DEF ExistsSurjection
<1> QED
  BY <1>1, <1>4, FS_NatSurjection

\* An arrangement after a sequence without repetitions has each member at one place.
LEMMA ArrangedShape ==
  ASSUME NEW S, IsFiniteSet(S), NEW T, NEW s \in Seq(T), NEW t \in Arranged(S, s),
         \A k, l \in DOMAIN s : s[k] = s[l] => k = l
  PROVE  /\ t \in Seq(S) /\ DOMAIN t = 1 .. Len(t) /\ Len(t) \in Nat
         /\ ToSet(t) = S
         /\ \A k, l \in DOMAIN t : t[k] = t[l] => k = l
<1>1. Cardinality(S) \in Nat
  BY FS_CardinalityType
<1>2. /\ t \in [1 .. Cardinality(S) -> S] /\ ToSet(t) = S
      /\ \A k, l \in DOMAIN t :
           k < l => \E m, n \in DOMAIN s : m < n /\ s[m] = t[k] /\ s[n] = t[l]
  BY DEF Arranged
<1>3. t \in Seq(S) /\ DOMAIN t = 1 .. Len(t) /\ Len(t) \in Nat
  BY <1>1, <1>2
<1>4. ASSUME NEW k \in DOMAIN t, NEW l \in DOMAIN t, k < l
      PROVE  t[k] # t[l]
  <2>1. PICK m, n \in DOMAIN s : m < n /\ s[m] = t[k] /\ s[n] = t[l]
    BY <1>2, <1>4
  <2>2. m # n
    BY <2>1
  <2> QED
    BY <2>1, <2>2
<1>5. ASSUME NEW k \in DOMAIN t, NEW l \in DOMAIN t, t[k] = t[l]
      PROVE  k = l
  <2>1. k \in Nat /\ l \in Nat /\ ~(k < l) /\ ~(l < k)
    BY <1>3, <1>4, <1>5
  <2> QED
    BY <2>1
<1> QED
  BY <1>2, <1>3, <1>5

\* An instance has a number for its id, so that Nobody is none.
LEMMA InstanceShape ==
  /\ \A i \in Instance : Id(i) \in Nat /\ i = <<Id(i), i[2]>>
  /\ Nobody \notin Instance
  /\ None \notin Rooms
  /\ FirstRoom \in Rooms
<1> USE RoomsAssumption
<1>1. \A i \in Instance : Id(i) \in Nat /\ i = <<Id(i), i[2]>>
  <2>1. \A d \in Ids : d \in Nat
    <3> TAKE d \in Ids
    <3>1. CASE d \in UserIds
      BY <3>1
    <3>2. CASE d \in UNION {ToSet(Placed[r]) : r \in Rooms}
      <4>1. PICK r \in Rooms : d \in ToSet(Placed[r])
        BY <3>2
      <4>2. Placed[r] \in Seq(Nat)
        OBVIOUS
      <4> QED
        BY <4>1, <4>2 DEF ToSet
    <3> QED
      BY <3>1, <3>2 DEF Ids
  <2> QED
    BY <2>1 DEF Id, Instance
<1>2. Nobody \notin Instance
  BY <1>1 DEF Nobody, None, Id
<1>3. None \notin Rooms
  BY DEF None
<1>4. FirstRoom \in Rooms
  BY DEF FirstRoom
<1> QED
  BY <1>1, <1>2, <1>3, <1>4

\* A fresh instance is one that is not there.
LEMMA FreshShape ==
  ASSUME NEW d \in Ids, MayMake(d)
  PROVE  Fresh(d) \in Instance \ Allocated /\ Id(Fresh(d)) = d
  BY DEF MayMake, Fresh, Instance, Id

-----------------------------------------------------------------------------
(* The inductive invariant. *)

\* What TypeOK leaves open.
Shape ==
  /\ order \in Seq(Instance) /\ ahead \in Seq(Instance) /\ created \in Seq(Instance)
  /\ \A k, l \in DOMAIN order : order[k] = order[l] => k = l
  /\ entering \in [room : Rooms \cup {None}, restart : BOOLEAN]
  /\ pc \in {"roomend", "enter", "precreate", "create", "gamestart", "createcode"} =>
       entering.room \in Rooms

\* The sequences that the loops hold are empty when their loops are over.
LoopsOver ==
  /\ ahead # <<>> => pc \in {"loop", "after"}
  /\ created # <<>> => pc \in {"precreate", "create", "gamestart"}

\* A loop over the instance list holds nothing when it is over; in the one at the
\* end of the game it has still to come to whoever is owed a Room End event.
WalksOver ==
  /\ at # None \/ todo # {} => pc \in {"roomend", "roomstart", "lastend", "gameend"}
  /\ owed # {} => pc \in {"lastend", "gameend"}
  /\ \A i \in owed : Id(i) \in todo

\* An instance is on one of the three lists at most.
OnePlace == active \cap inactive = {} /\ active \cap garbage = {} /\ inactive \cap garbage = {}

\* A Destroy event runs in the game's code, and none once all is over.
DyingInGame ==
  /\ dying # {} => InGame
  /\ pc = "over" => self = Nobody

\* Where instances have had their Create events: everywhere but among those that
\* gotome has still to come to.
Begun ==
  /\ self # Nobody => self \in born
  /\ ToSet(ahead) \subseteq born
  /\ pc \notin {"precreate", "create"} => active \cup inactive \cup dying \subseteq born
  /\ pc \in {"precreate", "create"} =>
       /\ \A k \in 1 .. nth : k \in DOMAIN created => created[k] \in born
       /\ \A i \in active \cup inactive :
            i \in born \/ \E k \in DOMAIN created : k > nth /\ created[k] = i
  /\ pc = "gamestart" => ToSet(created) \subseteq born

\* The one event after a room was asked for is the last before the room is left.
OneLate ==
  /\ late \in {0, 1}
  /\ late = 1 => switching # None /\ (pc = "after" \/ (pc = "loop" /\ self # Nobody))

IInv == /\ TypeOK /\ Shape /\ LoopsOver /\ WalksOver /\ OnePlace /\ UniqueIds
        /\ NothingDeletedInUse /\ DyingInGame /\ Begun /\ OneLate

-----------------------------------------------------------------------------
(* What the game does in an event. *)

\* An instance is linked: a new one, in the place of those of gone, which are
\* destroyed, or one that was deactivated.
Joined(i, gone) ==
  /\ i \in Instance /\ i \notin active \cup garbage
  /\ gone \subseteq active /\ \A j \in gone : Id(j) = Id(i)
  /\ \A j \in (active \ gone) \cup (inactive \ {i}) : Id(j) # Id(i)
  /\ active' = (active \ gone) \cup {i} /\ inactive' = inactive \ {i}
  /\ garbage' = garbage \cup gone
  /\ born' = born \cup {i} \/ (born' = born /\ i \in inactive)
  /\ \E s : /\ \/ s = order /\ gone = {}
               \/ \E k \in DOMAIN order : s = RemoveAt(order, k) /\ gone = {order[k]}
            /\ order' = Append(s, i)
  /\ ahead' = IF pc = "loop" THEN Append(ahead, i) ELSE ahead
  /\ todo' = IF Joins(Id(i)) THEN todo \cup {Id(i)} ELSE todo \ {Id(i)}
  /\ due' = due \ gone /\ owed' = owed \ gone /\ at' \in {at, None}
  /\ UNCHANGED <<switching, restarting, ending>>

\* An instance leaves the instance list.
Gone(i) ==
  /\ i \in active
  /\ active' = active \ {i}
  /\ \/ garbage' = garbage \cup {i} /\ inactive' = inactive
     \/ inactive' = inactive \cup {i} /\ garbage' = garbage
  /\ \E k \in DOMAIN order : order[k] = i /\ order' = RemoveAt(order, k)
  /\ due' = due \ {i} /\ todo' = todo \ {Id(i)} /\ owed' = owed \ {i}
  /\ at' \in {at, None}
  /\ UNCHANGED <<born, ahead, switching, restarting, ending>>

\* A deactivated instance is destroyed.
Dropped(i) ==
  /\ i \in inactive
  /\ inactive' = inactive \ {i} /\ garbage' = garbage \cup {i}
  /\ UNCHANGED <<active, order, born, ahead, due, at, todo, owed, switching, restarting, ending>>

\* A room or the end is asked for.
Asked ==
  /\ switching' \in Rooms \cup {switching}
  /\ restarting' \in BOOLEAN /\ ending' \in BOOLEAN
  /\ UNCHANGED <<active, inactive, garbage, order, born, ahead, due, at, todo, owed>>

\* The variables that the game's code does not touch; no Destroy event begins.
Still == UNCHANGED <<pc, self, nth, created, room, entering, late>> /\ dying' \subseteq dying

\* A Destroy event begins.
Begins ==
  /\ UNCHANGED <<pc, self, nth, created, room, entering, late, switching, restarting, ending>>
  /\ UNCHANGED <<active, inactive, garbage, order, born, ahead, due, at, todo, owed>>
  /\ InGame
  /\ \E i \in active \cup inactive : dying' = dying \cup {i}

\* What destroying an instance comes to.
LEMMA DestroyEffect ==
  ASSUME TypeOK, OnePlace, NEW i \in active \cup inactive, Destroy(i)
  PROVE  UNCHANGED <<nth, created, room, entering>> /\ (Gone(i) \/ Dropped(i))
<1>1. garbage' = garbage \cup {i} /\ inactive' = inactive \ {i}
  BY DEF Destroy
<1>2. CASE i \in active
  <2>1. inactive' = inactive
    BY <1>1, <1>2 DEF OnePlace
  <2> QED
    BY <1>1, <1>2, <2>1 DEF Destroy, Unlinked, Gone, control
<1>3. CASE i \notin active
  BY <1>1, <1>3 DEF Destroy, Dropped, walks, control
<1> QED
  BY <1>2, <1>3

\* A new instance, of an id above all others or of the id of the one in whose
\* place it comes.
LEMMA MadeEffect ==
  ASSUME TypeOK, OnePlace, UniqueIds,
         Create \/ (\E i \in active : Change(i))
  PROVE  /\ UNCHANGED <<nth, created, room, entering>>
         /\ \E i, gone : Joined(i, gone)
<1>1. CASE Create
  <2>1. PICK d \in UserIds :
          /\ \A x \in ActiveIds \cup {Id(i) : i \in inactive} : x < d
          /\ MayMake(d)
          /\ active' = active \cup {Fresh(d)}
          /\ born' = born \cup {Fresh(d)}
          /\ Activated(Fresh(d), order)
          /\ UNCHANGED <<inactive, garbage, nth, due, at, created, control, owed>>
    BY <1>1 DEF Create
  <2>2. Fresh(d) \in Instance \ Allocated /\ Id(Fresh(d)) = d
    BY <2>1, FreshShape DEF Ids
  <2>3. \A j \in active \cup inactive : Id(j) \in Nat /\ Id(j) < d
    BY <2>1, InstanceShape DEF TypeOK, ActiveIds
  <2>4. \A j \in active \cup inactive : Id(j) # d
    BY <2>3
  <2>5. Joined(Fresh(d), {})
    BY <2>1, <2>2, <2>4 DEF Joined, Activated, control, Allocated
  <2> QED
    BY <2>1, <2>5 DEF control
<1>2. ASSUME NEW i \in active, Change(i)
      PROVE  UNCHANGED <<nth, created, room, entering>> /\ Joined(Fresh(Id(i)), {i})
  <2>1. i \in Instance /\ Id(i) \in Ids
    BY <1>2 DEF TypeOK, Instance, Id
  <2>2. /\ MayMake(Id(i))
        /\ active' = (active \ {i}) \cup {Fresh(Id(i))}
        /\ garbage' = garbage \cup {i}
        /\ born' = born \cup {Fresh(Id(i))}
        /\ \E k \in DOMAIN order : order[k] = i /\ Activated(Fresh(Id(i)), RemoveAt(order, k))
        /\ due' = due \ {i}
        /\ at' = IF at = Id(i) THEN None ELSE at
        /\ owed' = owed \ {i}
        /\ UNCHANGED <<inactive, nth, created, control>>
    BY <1>2 DEF Change
  <2>3. Fresh(Id(i)) \in Instance \ Allocated /\ Id(Fresh(Id(i))) = Id(i)
    BY <2>1, <2>2, FreshShape
  <2>4. \A j \in (active \ {i}) \cup inactive : Id(j) # Id(i)
    BY <1>2 DEF UniqueIds, OnePlace
  <2> DEFINE new == Fresh(Id(i))
  <2>5. new \in Instance \ Allocated /\ Id(new) = Id(i)
    BY <2>3
  <2>6. PICK k \in DOMAIN order : order[k] = i /\ Activated(new, RemoveAt(order, k))
    BY <2>2
  <2>7. /\ order' = Append(RemoveAt(order, k), new)
        /\ ahead' = IF pc = "loop" THEN Append(ahead, new) ELSE ahead
        /\ todo' = IF Joins(Id(new)) THEN todo \cup {Id(new)} ELSE todo \ {Id(new)}
    BY <2>6 DEF Activated
  <2>8. active' = (active \ {i}) \cup {new} /\ born' = born \cup {new}
    BY <2>2
  <2> HIDE DEF new
  <2>9. Joined(new, {i})
    BY <1>2, <2>2, <2>4, <2>5, <2>6, <2>7, <2>8 DEF Joined, control, Allocated
  <2> QED
    BY <2>2, <2>9 DEF control, new
<1> QED
  BY <1>1, <1>2

\* Whatever the game does is one of these.
LEMMA GameEffect ==
  ASSUME TypeOK, OnePlace, UniqueIds, Game
  PROVE  \/ Still /\ ((\E i, gone : Joined(i, gone)) \/ (\E i : Gone(i) \/ Dropped(i)) \/ Asked)
         \/ Begins
<1>1. UNCHANGED <<pc, self, late>> /\ InGame
  BY DEF Game
<1>2. CASE (Create \/ \E i \in active : Change(i)) /\ dying' = dying
  BY <1>1, <1>2, MadeEffect DEF Still
<1>3. ASSUME NEW i \in Destroyable, Destroy(i), dying' = dying
      PROVE  Still /\ (Gone(i) \/ Dropped(i))
  BY <1>1, <1>3, DestroyEffect DEF Still, Destroyable
<1>4. ASSUME NEW i \in active, Deactivate(i), dying' = dying
      PROVE  Still /\ Gone(i)
  BY <1>1, <1>4 DEF Deactivate, Unlinked, Gone, Still, control
<1>5. ASSUME NEW i \in inactive, Activate(i), dying' = dying
      PROVE  Still /\ Joined(i, {})
  <2>1. /\ i \in Instance /\ i \notin active \cup garbage
        /\ \A j \in active \cup (inactive \ {i}) : Id(j) # Id(i)
    BY <1>5 DEF TypeOK, OnePlace, UniqueIds
  <2> QED
    BY <1>1, <1>5, <2>1 DEF Activate, Activated, Joined, Still, control
<1>6. ASSUME NEW r \in Rooms, NEW restart \in BOOLEAN, RoomGoto(r, restart), dying' = dying
      PROVE  Still /\ Asked
  BY <1>1, <1>6 DEF RoomGoto, Asked, objects, walks, TypeOK, Still
<1>7. CASE GameEnd /\ dying' = dying
  BY <1>1, <1>7 DEF GameEnd, Asked, objects, walks, TypeOK, Still
<1>8. ASSUME NEW i \in Destroyable, DestroyBegins(i)
      PROVE  Begins
  BY <1>1, <1>8 DEF DestroyBegins, Begins, Destroyable, objects, walks, control
<1> QED
  BY <1>2, <1>3, <1>4, <1>5, <1>6, <1>7, <1>8, InstanceShape DEF Game

\* What is unlinked leaves its events' lists, the others stay there.
LEMMA GoneOrder ==
  ASSUME TypeOK, Shape, NEW k \in DOMAIN order, NEW s, s = RemoveAt(order, k)
  PROVE  /\ s \in Seq(Instance) /\ ToSet(s) = active \ {order[k]}
         /\ \A l, m \in DOMAIN s : s[l] = s[m] => l = m
<1>2. /\ order \in Seq(Instance) /\ \A l, m \in DOMAIN order : order[l] = order[m] => l = m
      /\ ToSet(order) = active
  BY DEF TypeOK, Shape
<1>3. /\ s \in Seq(Instance) /\ Len(s) = Len(order) - 1
      /\ \A l \in 1 .. Len(order) - 1 : s[l] = IF l < k THEN order[l] ELSE order[l + 1]
  BY <1>2, RemoveAtShape
<1>4. /\ DOMAIN order = 1 .. Len(order) /\ DOMAIN s = 1 .. Len(order) - 1
      /\ Len(order) \in Nat /\ k \in 1 .. Len(order)
  BY <1>2, <1>3
<1> DEFINE from(l) == IF l < k THEN l ELSE l + 1
<1>5. \A l \in DOMAIN s : from(l) \in DOMAIN order /\ from(l) # k /\ s[l] = order[from(l)]
  BY <1>3, <1>4
<1>6. \A l \in DOMAIN order : l # k => \E m \in DOMAIN s : from(m) = l
  <2> SUFFICES ASSUME NEW l \in DOMAIN order, l # k
               PROVE  \E m \in DOMAIN s : from(m) = l
    OBVIOUS
  <2>1. CASE l < k
    BY <1>4, <2>1
  <2>2. CASE ~(l < k)
    <3>1. l - 1 \in DOMAIN s /\ from(l - 1) = l
      BY <1>4, <2>2
    <3> QED
      BY <3>1
  <2> QED
    BY <2>1, <2>2
<1>7. \A l, m \in DOMAIN s : from(l) = from(m) => l = m
  BY <1>4
<1> HIDE DEF from
<1>8. \A l, m \in DOMAIN s : s[l] = s[m] => l = m
  BY <1>2, <1>5, <1>7
<1>9. ToSet(s) = active \ {order[k]}
  BY <1>2, <1>5, <1>6 DEF ToSet
<1> QED
  BY <1>3, <1>8, <1>9

\* A room's instances are new, and each has an id of its own.
LEMMA PopulateEffect ==
  ASSUME TypeOK, Shape, NEW r \in Rooms, Populate(r)
  PROVE  /\ \E kept \in SUBSET active :
              /\ garbage' = garbage \cup (active \ kept)
              /\ active' = kept \cup ToSet(created')
              /\ \A i \in ToSet(created'), j \in kept : Id(i) # Id(j)
         /\ created' \in Seq(Instance) /\ ToSet(created') \subseteq Instance \ Allocated
         /\ \A i, j \in ToSet(created') : Id(i) = Id(j) => i = j
         /\ order' \in Seq(Instance) /\ ToSet(order') = active'
         /\ \A k, l \in DOMAIN order' : order'[k] = order'[l] => k = l
         /\ room' = r
<1> DEFINE kept == {i \in active : Id(i) \in Persistent}
           free == ToSet(Placed[r]) \ {Id(i) : i \in kept}
<1>1. /\ \A d \in free : MayMake(d)
      /\ garbage' = garbage \cup (active \ kept)
      /\ active' = kept \cup ToSet(created')
      /\ room' = r
  BY DEF Populate
<1>2. PICK old \in Arranged(kept, order), ids \in Arranged(free, Placed[r]) :
        /\ created' = [k \in DOMAIN ids |-> Fresh(ids[k])]
        /\ order' = old \o created'
  BY DEF Populate
<1>3. IsFiniteSet(kept) /\ kept \in SUBSET active /\ kept \subseteq Instance
  <2>1. kept \in SUBSET Instance
    BY DEF TypeOK
  <2> QED
    BY <2>1, FS_Subset, RoomsAssumption
<1>4. /\ Placed[r] \in Seq(Nat) /\ \A k, l \in DOMAIN Placed[r] : Placed[r][k] = Placed[r][l] => k = l
      /\ IsFiniteSet(free) /\ free \subseteq Ids
  <2>1. Placed[r] \in Seq(Nat) /\ IsInjective(Placed[r])
    BY RoomsAssumption
  <2>2. IsFiniteSet(ToSet(Placed[r])) /\ free \in SUBSET ToSet(Placed[r])
    BY <2>1, ListedFinite
  <2> QED
    BY <2>1, <2>2, FS_Subset DEF Ids, IsInjective
<1> HIDE DEF kept, free
<1>5. order \in Seq(Instance) /\ \A k, l \in DOMAIN order : order[k] = order[l] => k = l
  BY DEF Shape
<1>6. /\ old \in Seq(kept) /\ DOMAIN old = 1 .. Len(old) /\ Len(old) \in Nat /\ ToSet(old) = kept
      /\ \A k, l \in DOMAIN old : old[k] = old[l] => k = l
  BY <1>3, <1>5, ArrangedShape
<1>7. /\ ids \in Seq(free) /\ DOMAIN ids = 1 .. Len(ids) /\ Len(ids) \in Nat
      /\ \A k, l \in DOMAIN ids : ids[k] = ids[l] => k = l
  BY <1>4, ArrangedShape
<1>8. \A k \in DOMAIN ids :
         /\ ids[k] \in free /\ Fresh(ids[k]) \in Instance \ Allocated
         /\ Id(Fresh(ids[k])) = ids[k]
  BY <1>1, <1>4, <1>7, FreshShape
<1>9. /\ created' \in Seq(Instance) /\ Len(created') = Len(ids) /\ DOMAIN created' = DOMAIN ids
       /\ \A k \in DOMAIN ids : created'[k] = Fresh(ids[k])
  BY <1>2, <1>7, <1>8
<1>10. ToSet(created') \subseteq Instance \ Allocated
  BY <1>8, <1>9 DEF ToSet
<1>11. \A i, j \in ToSet(created') : Id(i) = Id(j) => i = j
  BY <1>7, <1>8, <1>9 DEF ToSet
<1>12. \A i \in ToSet(created'), j \in kept : Id(i) # Id(j)
  BY <1>8, <1>9 DEF ToSet, free
<1>13. old \in Seq(Instance)
  BY <1>3, <1>6
<1>14. /\ order' \in Seq(Instance) /\ DOMAIN order' = 1 .. Len(old) + Len(ids)
       /\ \A k \in 1 .. Len(old) : order'[k] = old[k]
       /\ \A k \in 1 .. Len(ids) : order'[Len(old) + k] = created'[k]
       /\ \A k \in DOMAIN order' : k \in 1 .. Len(old) \/ \E l \in 1 .. Len(ids) : k = Len(old) + l
  <2>1. order' \in Seq(Instance) /\ DOMAIN order' = 1 .. Len(old) + Len(ids)
    BY <1>2, <1>6, <1>7, <1>9, <1>13
  <2>2. \A k \in 1 .. Len(old) : order'[k] = old[k]
    BY <1>2, <1>6, <1>7, <1>9, <1>13
  <2>3. \A k \in 1 .. Len(ids) : order'[Len(old) + k] = created'[k]
    <3> TAKE k \in 1 .. Len(ids)
    <3>1. Len(old) + k \in Len(old) + 1 .. Len(old) + Len(created')
      BY <1>6, <1>7, <1>9
    <3> QED
      BY <1>2, <1>6, <1>7, <1>9, <1>13, <3>1
  <2>4. \A k \in DOMAIN order' : k \in 1 .. Len(old) \/ k - Len(old) \in 1 .. Len(ids)
    BY <1>6, <1>7, <2>1
  <2> QED
    BY <1>6, <1>7, <2>1, <2>2, <2>3, <2>4
<1>15. ToSet(order') = active'
  <2>1. ToSet(order') = ToSet(old) \cup ToSet(created')
    <3>1. ASSUME NEW k \in DOMAIN order'
          PROVE  order'[k] \in ToSet(old) \cup ToSet(created')
      <4>1. CASE k \in 1 .. Len(old)
        BY <1>6, <1>14, <4>1 DEF ToSet
      <4>2. ASSUME NEW l \in 1 .. Len(ids), k = Len(old) + l
            PROVE  order'[k] \in ToSet(created')
        BY <1>7, <1>9, <1>14, <4>2 DEF ToSet
      <4> QED
        BY <1>14, <4>1, <4>2
    <3>2. ASSUME NEW k \in DOMAIN old
          PROVE  old[k] \in ToSet(order')
      BY <1>6, <1>7, <1>14 DEF ToSet
    <3>3. ASSUME NEW k \in DOMAIN created'
          PROVE  created'[k] \in ToSet(order')
      <4>1. Len(old) + k \in DOMAIN order' /\ order'[Len(old) + k] = created'[k]
        BY <1>6, <1>7, <1>9, <1>14
      <4> QED
        BY <4>1 DEF ToSet
    <3> QED
      BY <3>1, <3>2, <3>3 DEF ToSet
  <2> QED
    BY <1>1, <1>6, <2>1
<1>16. ASSUME NEW k \in DOMAIN order', NEW l \in DOMAIN order', order'[k] = order'[l]
       PROVE  k = l
  <2>1. \A m \in 1 .. Len(old), n \in 1 .. Len(ids) : old[m] # created'[n]
    BY <1>2, <1>3, <1>6, <1>7, <1>8, <1>9 DEF Allocated
  <2>2. \A m, n \in 1 .. Len(ids) : created'[m] = created'[n] => m = n
    BY <1>7, <1>8, <1>9
  <2>3. CASE k \in 1 .. Len(old) /\ l \in 1 .. Len(old)
    BY <1>6, <1>14, <1>16, <2>3
  <2>4. CASE k \in 1 .. Len(old) /\ l \notin 1 .. Len(old)
    BY <1>14, <1>16, <2>1, <2>4
  <2>5. CASE k \notin 1 .. Len(old) /\ l \in 1 .. Len(old)
    BY <1>14, <1>16, <2>1, <2>5
  <2>6. CASE k \notin 1 .. Len(old) /\ l \notin 1 .. Len(old)
    BY <1>14, <1>16, <2>2, <2>6
  <2> QED
    BY <2>3, <2>4, <2>5, <2>6
<1> QED
  BY <1>1, <1>3, <1>9, <1>10, <1>11, <1>12, <1>14, <1>15, <1>16

-----------------------------------------------------------------------------
(* The game keeps the invariant. *)

\* Appending to a sequence.
LEMMA AppendShape ==
  ASSUME NEW S, NEW s \in Seq(S), NEW x \in S
  PROVE  /\ Append(s, x) \in Seq(S) /\ ToSet(Append(s, x)) = ToSet(s) \cup {x}
         /\ DOMAIN Append(s, x) = DOMAIN s \cup {Len(s) + 1} /\ Append(s, x)[Len(s) + 1] = x
         /\ \A k \in DOMAIN s : k # Len(s) + 1 /\ Append(s, x)[k] = s[k]
<1>1. /\ Append(s, x) \in Seq(S) /\ Append(s, x)[Len(s) + 1] = x
      /\ DOMAIN Append(s, x) = DOMAIN s \cup {Len(s) + 1}
      /\ \A k \in DOMAIN s : k # Len(s) + 1 /\ Append(s, x)[k] = s[k]
  OBVIOUS
<1> QED
  BY <1>1 DEF ToSet

\* A linked instance is in no other place, has an id of its own, and has begun or
\* is still to come to in gotome's vector.
LEMMA JoinedNext ==
  ASSUME IInv, Still, NEW i, NEW gone, Joined(i, gone)
  PROVE  IInv'
<1>0. /\ TypeOK /\ Shape /\ LoopsOver /\ WalksOver /\ OnePlace /\ UniqueIds
      /\ NothingDeletedInUse /\ DyingInGame /\ Begun /\ OneLate
  BY DEF IInv
<1>1. /\ i \in Instance /\ i \notin active \cup garbage
      /\ gone \subseteq active /\ \A j \in gone : Id(j) = Id(i)
      /\ \A j \in (active \ gone) \cup (inactive \ {i}) : Id(j) # Id(i)
      /\ active' = (active \ gone) \cup {i} /\ inactive' = inactive \ {i}
      /\ garbage' = garbage \cup gone
      /\ born' = born \cup {i} \/ (born' = born /\ i \in inactive)
      /\ pc' = pc /\ self' = self /\ nth' = nth /\ created' = created /\ dying' \subseteq dying
  BY DEF Joined, Still
<1>2. order \in Seq(Instance) /\ ahead \in Seq(Instance) /\ ToSet(order) = active
  BY <1>0 DEF TypeOK, Shape
<1>3. /\ order' \in Seq(Instance) /\ ToSet(order') = active'
      /\ \A k, l \in DOMAIN order' : order'[k] = order'[l] => k = l
  <2>1. PICK s : /\ \/ s = order /\ gone = {}
                    \/ \E k \in DOMAIN order : s = RemoveAt(order, k) /\ gone = {order[k]}
                 /\ order' = Append(s, i)
    BY DEF Joined
  <2>2. /\ s \in Seq(Instance) /\ ToSet(s) = active \ gone
        /\ \A k, l \in DOMAIN s : s[k] = s[l] => k = l
    <3>1. CASE s = order /\ gone = {}
      BY <1>0, <1>2, <3>1 DEF Shape
    <3>2. ASSUME NEW k \in DOMAIN order, s = RemoveAt(order, k), gone = {order[k]}
          PROVE  /\ s \in Seq(Instance) /\ ToSet(s) = active \ gone
                 /\ \A m, l \in DOMAIN s : s[m] = s[l] => m = l
      BY <1>0, <3>2, GoneOrder
    <3> QED
      BY <2>1, <3>1, <3>2
  <2>3. \A k \in DOMAIN s : s[k] # i
    BY <1>1, <2>2 DEF ToSet
  <2>4. \A k, l \in DOMAIN order' : order'[k] = order'[l] => k = l
    BY <1>1, <2>1, <2>2, <2>3, AppendShape
  <2> QED
    BY <1>1, <2>1, <2>2, <2>4, AppendShape
<1>4. /\ ahead' \in Seq(Instance)
      /\ ToSet(ahead) \subseteq ToSet(ahead') /\ ToSet(ahead') \subseteq ToSet(ahead) \cup {i}
      /\ ahead' = ahead \/ pc = "loop"
  <2>1. CASE ahead' = ahead
    BY <1>2, <2>1
  <2>2. CASE pc = "loop" /\ ahead' = Append(ahead, i)
    BY <1>1, <1>2, <2>2, AppendShape
  <2> QED
    BY <2>1, <2>2 DEF Joined
<1>5. /\ todo \subseteq todo' \cup {Id(i)} /\ todo' \subseteq todo \cup {Id(i)}
      /\ todo' # {} => todo # {} \/ at # None
  <2>1. None \notin ActiveIds
    BY <1>0, InstanceShape DEF TypeOK, ActiveIds, None
  <2> QED
    BY <2>1 DEF Joined, Joins
<1>6. TypeOK'
  <2>1. ActiveIds' = ActiveIds \cup {Id(i)}
    BY <1>1 DEF ActiveIds
  <2>2. todo' \subseteq ActiveIds'
    BY <1>0, <1>5, <2>1 DEF TypeOK
  <2>3. owed' \subseteq active' /\ due' \subseteq ToSet(ahead')
    BY <1>0, <1>1, <1>4 DEF TypeOK, Joined
  <2>4. /\ self' \in Instance \cup {Nobody} /\ dying' \subseteq Instance /\ pc' = pc
        /\ active' \subseteq Instance /\ inactive' \subseteq Instance /\ garbage' \subseteq Instance
        /\ born' \subseteq Instance /\ ToSet(ahead') \subseteq Instance
    BY <1>0, <1>1, <1>4 DEF TypeOK
  <2>5. UNCHANGED <<nth, created, room, switching, restarting, ending, late>>
    BY DEF Joined, Still
  <2> QED
    BY <1>0, <1>3, <2>2, <2>3, <2>4, <2>5 DEF TypeOK
<1>7. Shape'
  BY <1>0, <1>1, <1>3, <1>4 DEF Shape, Still
<1>8. LoopsOver'
  BY <1>0, <1>1, <1>4 DEF LoopsOver
<1>9. WalksOver'
  <2>1. owed' = owed \ gone /\ at' \in {at, None}
    BY DEF Joined
  <2>2. ASSUME NEW j \in owed'
        PROVE  Id(j) \in todo'
    <3>1. j \in active \ gone /\ Id(j) \in todo
      BY <1>0, <2>1 DEF WalksOver, TypeOK
    <3> QED
      BY <1>1, <1>5, <3>1
  <2> QED
    BY <1>0, <1>1, <1>5, <2>1, <2>2 DEF WalksOver
<1>10. OnePlace' /\ UniqueIds'
  BY <1>0, <1>1 DEF OnePlace, UniqueIds
<1>11. NothingDeletedInUse' /\ DyingInGame'
  BY <1>0, <1>1, <1>4 DEF NothingDeletedInUse, DyingInGame, InGame, Allocated
<1>12. Begun'
  <2>1. born \subseteq born' /\ (pc \notin {"precreate", "create"} => i \in born')
    BY <1>0, <1>1 DEF Begun
  <2>2. self' # Nobody => self' \in born'
    BY <1>0, <1>1, <2>1 DEF Begun
  <2>3. ToSet(ahead') \subseteq born'
    BY <1>0, <1>4, <2>1 DEF Begun
  <2>4. pc \notin {"precreate", "create"} => active' \cup inactive' \cup dying' \subseteq born'
    BY <1>0, <1>1, <2>1 DEF Begun
  <2>5. ASSUME pc \in {"precreate", "create"}
        PROVE  /\ \A k \in 1 .. nth' : k \in DOMAIN created' => created'[k] \in born'
               /\ \A j \in active' \cup inactive' :
                    j \in born' \/ \E k \in DOMAIN created' : k > nth' /\ created'[k] = j
    <3>1. \A k \in 1 .. nth' : k \in DOMAIN created' => created'[k] \in born'
      BY <1>0, <1>1, <2>1, <2>5 DEF Begun
    <3>2. ASSUME NEW j \in active' \cup inactive'
          PROVE  j \in born' \/ \E k \in DOMAIN created' : k > nth' /\ created'[k] = j
      <4>1. j \in active \cup inactive \/ j \in born'
        BY <1>1
      <4> QED
        BY <1>0, <1>1, <2>1, <2>5, <4>1 DEF Begun
    <3> QED
      BY <3>1, <3>2
  <2>6. pc = "gamestart" => ToSet(created') \subseteq born'
    BY <1>0, <1>1, <2>1 DEF Begun
  <2> QED
    BY <1>1, <2>2, <2>3, <2>4, <2>5, <2>6 DEF Begun
<1>13. OneLate'
  BY <1>0 DEF OneLate, Joined, Still
<1> QED
  BY <1>6, <1>7, <1>8, <1>9, <1>10, <1>11, <1>12, <1>13 DEF IInv

\* What is destroyed or deactivated stays allocated.
LEMMA GoneNext ==
  ASSUME IInv, Still, NEW i, Gone(i)
  PROVE  IInv'
<1>0. /\ TypeOK /\ Shape /\ LoopsOver /\ WalksOver /\ OnePlace /\ UniqueIds
      /\ NothingDeletedInUse /\ DyingInGame /\ Begun /\ OneLate
  BY DEF IInv
<1>1. /\ i \in active /\ active' = active \ {i}
      /\ \/ garbage' = garbage \cup {i} /\ inactive' = inactive
         \/ inactive' = inactive \cup {i} /\ garbage' = garbage
      /\ born' = born /\ ahead' = ahead
      /\ pc' = pc /\ self' = self /\ nth' = nth /\ created' = created /\ dying' \subseteq dying
  BY DEF Gone, Still
<1>2. /\ order' \in Seq(Instance) /\ ToSet(order') = active'
      /\ \A k, l \in DOMAIN order' : order'[k] = order'[l] => k = l
  <2>1. PICK k \in DOMAIN order : order[k] = i /\ order' = RemoveAt(order, k)
    BY DEF Gone
  <2> QED
    BY <1>0, <1>1, <2>1, GoneOrder
<1>3. TypeOK'
  <2>1. /\ ActiveIds \ {Id(i)} \subseteq ActiveIds'
    BY <1>1 DEF ActiveIds
  <2>2. i \notin ToSet(ahead) \/ i \in Instance
    BY <1>0, <1>1 DEF TypeOK
  <2> QED
    BY <1>0, <1>1, <1>2, <2>1, <2>2 DEF TypeOK, Gone, Still
<1>4. Shape'
  BY <1>0, <1>1, <1>2 DEF Shape, Still
<1>5. LoopsOver'
  BY <1>0, <1>1 DEF LoopsOver
<1>6. WalksOver'
  <2>1. \A j \in owed : j # i => Id(j) # Id(i)
    BY <1>0, <1>1 DEF TypeOK, UniqueIds
  <2> QED
    BY <1>0, <2>1 DEF WalksOver, Gone, Still
<1>7. OnePlace' /\ UniqueIds'
  BY <1>0, <1>1 DEF OnePlace, UniqueIds
<1>8. NothingDeletedInUse' /\ DyingInGame'
  BY <1>0, <1>1 DEF NothingDeletedInUse, DyingInGame, InGame, Allocated
<1>9. Begun'
  BY <1>0, <1>1 DEF Begun
<1>10. OneLate'
  BY <1>0 DEF OneLate, Gone, Still
<1> QED
  BY <1>3, <1>4, <1>5, <1>6, <1>7, <1>8, <1>9, <1>10 DEF IInv

\* So does a deactivated instance that is destroyed.
LEMMA DroppedNext ==
  ASSUME IInv, Still, NEW i, Dropped(i)
  PROVE  IInv'
<1>0. /\ TypeOK /\ Shape /\ LoopsOver /\ WalksOver /\ OnePlace /\ UniqueIds
      /\ NothingDeletedInUse /\ DyingInGame /\ Begun /\ OneLate
  BY DEF IInv
<1>1. /\ i \in inactive /\ inactive' = inactive \ {i} /\ garbage' = garbage \cup {i}
      /\ active' = active /\ born' = born /\ ahead' = ahead /\ order' = order
      /\ pc' = pc /\ self' = self /\ nth' = nth /\ created' = created /\ dying' \subseteq dying
  BY DEF Dropped, Still
<1>2. TypeOK'
  BY <1>0, <1>1 DEF TypeOK, ActiveIds, Dropped, Still
<1>3. Shape' /\ LoopsOver' /\ WalksOver' /\ OnePlace' /\ UniqueIds'
  BY <1>0, <1>1 DEF Shape, LoopsOver, WalksOver, OnePlace, UniqueIds, Dropped, Still
<1>4. NothingDeletedInUse' /\ DyingInGame'
  BY <1>0, <1>1 DEF NothingDeletedInUse, DyingInGame, InGame, Allocated
<1>5. Begun'
  BY <1>0, <1>1 DEF Begun
<1>6. OneLate'
  BY <1>0 DEF OneLate, Dropped, Still
<1> QED
  BY <1>2, <1>3, <1>4, <1>5, <1>6 DEF IInv

\* A request changes no list.
LEMMA AskedNext ==
  ASSUME IInv, Still, Asked
  PROVE  IInv'
<1>0. /\ TypeOK /\ Shape /\ LoopsOver /\ WalksOver /\ OnePlace /\ UniqueIds
      /\ NothingDeletedInUse /\ DyingInGame /\ Begun /\ OneLate
  BY DEF IInv
<1>1. TypeOK'
  BY <1>0 DEF TypeOK, ActiveIds, Asked, Still
<1>2. Shape' /\ LoopsOver' /\ WalksOver' /\ OnePlace' /\ UniqueIds'
  BY <1>0 DEF Shape, LoopsOver, WalksOver, OnePlace, UniqueIds, Asked, Still
<1>3. NothingDeletedInUse' /\ DyingInGame' /\ Begun'
  BY <1>0 DEF NothingDeletedInUse, DyingInGame, InGame, Begun, Allocated, Asked, Still
<1>4. OneLate'
  BY <1>0, InstanceShape DEF OneLate, Asked, Still
<1> QED
  BY <1>1, <1>2, <1>3, <1>4 DEF IInv

\* A Destroy event comes to an instance that is there, and that has begun but
\* while gotome makes its own.
LEMMA BeginsNext ==
  ASSUME IInv, Begins
  PROVE  IInv'
<1>0. /\ TypeOK /\ Shape /\ LoopsOver /\ WalksOver /\ OnePlace /\ UniqueIds
      /\ NothingDeletedInUse /\ DyingInGame /\ Begun /\ OneLate
  BY DEF IInv
<1>1. PICK i \in active \cup inactive : dying' = dying \cup {i}
  BY DEF Begins
<1>2. TypeOK'
  BY <1>0, <1>1 DEF TypeOK, ActiveIds, Begins
<1>3. Shape' /\ LoopsOver' /\ WalksOver' /\ OnePlace' /\ UniqueIds'
  BY <1>0 DEF Shape, LoopsOver, WalksOver, OnePlace, UniqueIds, Begins
<1>4. NothingDeletedInUse' /\ DyingInGame'
  BY <1>0, <1>1 DEF NothingDeletedInUse, DyingInGame, InGame, Allocated, Begins
<1>5. Begun' /\ OneLate'
  BY <1>0, <1>1 DEF Begun, OneLate, Begins
<1> QED
  BY <1>2, <1>3, <1>4, <1>5 DEF IInv

\* No event of the game breaks the invariant.
LEMMA GameNext ==
  ASSUME IInv, Game
  PROVE  IInv'
<1>1. \/ Still /\ ((\E i, gone : Joined(i, gone)) \/ (\E i : Gone(i) \/ Dropped(i)) \/ Asked)
      \/ Begins
  BY GameEffect DEF IInv
<1> QED
  BY <1>1, JoinedNext, GoneNext, DroppedNext, AskedNext, BeginsNext

-----------------------------------------------------------------------------
(* The engine keeps the invariant. *)

\* The program starts in no room and without instances.
LEMMA InitHolds ==
  ASSUME Init
  PROVE  IInv
<1>1. /\ self = Nobody /\ dying = {} /\ pc = "enter"
      /\ active = {} /\ inactive = {} /\ garbage = {} /\ order = <<>> /\ born = {}
      /\ ahead = <<>> /\ due = {} /\ todo = {} /\ created = <<>> /\ owed = {} /\ nth = 0
      /\ at = None /\ late = 0
  BY DEF Init
<1>2. ToSet(<<>>) = {} /\ <<>> \in Seq(Instance) /\ DOMAIN <<>> = {} /\ Len(<<>>) = 0
  BY DEF ToSet
<1>3. TypeOK
  <2>1. nth \in 0 .. Events
    BY <1>1, RoomsAssumption
  <2>2. room = None /\ switching = None /\ restarting \in BOOLEAN /\ ending \in BOOLEAN
    BY DEF Init
  <2> QED
    BY <1>1, <1>2, <2>1, <2>2 DEF TypeOK
<1>4. Shape
  BY <1>1, <1>2, InstanceShape DEF Shape, Init
<1>5. LoopsOver /\ WalksOver /\ OnePlace /\ UniqueIds
  BY <1>1 DEF LoopsOver, WalksOver, OnePlace, UniqueIds
<1>6. NothingDeletedInUse /\ DyingInGame /\ Begun /\ OneLate
  BY <1>1, <1>2 DEF NothingDeletedInUse, DyingInGame, InGame, Begun, OneLate
<1> QED
  BY <1>3, <1>4, <1>5, <1>6 DEF IInv

\* The main loop begins a step or the end of the game.
LEMMA MainLoopNext ==
  ASSUME IInv, MainLoop
  PROVE  IInv'
<1>0. /\ TypeOK /\ Shape /\ LoopsOver /\ WalksOver /\ OnePlace /\ UniqueIds
      /\ NothingDeletedInUse /\ DyingInGame /\ Begun /\ OneLate
  BY DEF IInv
<1>1. /\ pc = "main" /\ self = Nobody /\ pc' \in {"loop", "lastend"}
      /\ self' = self /\ dying' = dying /\ active' = active /\ inactive' = inactive
      /\ garbage' = garbage
      /\ order' = order /\ born' = born /\ ahead' = ahead /\ due' = due /\ created' = created
      /\ nth' \in {0, nth} /\ UNCHANGED <<room, switching, restarting, entering, ending, late>>
      /\ \/ pc' = "lastend" /\ owed' = active /\ todo' = ActiveIds
         \/ pc' = "loop" /\ owed' = owed /\ todo' = todo /\ at' = at
  BY DEF MainLoop, At, WalkFromFirst, objects, control
<1>2. TypeOK'
  BY <1>0, <1>1, RoomsAssumption DEF TypeOK, ActiveIds
<1>3. Shape' /\ LoopsOver' /\ OnePlace' /\ UniqueIds'
  BY <1>0, <1>1 DEF Shape, LoopsOver, OnePlace, UniqueIds
<1>4. WalksOver'
  BY <1>0, <1>1 DEF WalksOver, ActiveIds
<1>5. NothingDeletedInUse' /\ DyingInGame' /\ Begun' /\ OneLate'
  BY <1>0, <1>1 DEF NothingDeletedInUse, DyingInGame, InGame, Begun, OneLate, Allocated
<1> QED
  BY <1>2, <1>3, <1>4, <1>5 DEF IInv

\* The event loop begins with a list, or has had them all.
LEMMA NextListNext ==
  ASSUME IInv, NextList
  PROVE  IInv'
<1>0. /\ TypeOK /\ Shape /\ LoopsOver /\ WalksOver /\ OnePlace /\ UniqueIds
      /\ NothingDeletedInUse /\ DyingInGame /\ Begun /\ OneLate
  BY DEF IInv
<1>1. /\ pc = "loop" /\ self = Nobody /\ pc' \in {"loop", "after"}
      /\ self' = self /\ dying' = dying /\ active' = active /\ inactive' = inactive
      /\ garbage' = garbage
      /\ order' = order /\ born' = born /\ at' = at /\ todo' = todo /\ created' = created
      /\ UNCHANGED <<room, switching, restarting, entering, ending, owed, late>>
      /\ \/ nth < Events /\ nth' = nth + 1 /\ ahead' = order /\ due' = ToSet(order)
         \/ nth' = 0 /\ ahead' = <<>> /\ due' = {}
  BY DEF NextList, At, objects, control
<1>2. created = <<>> /\ Len(created) = 0
  BY <1>0, <1>1 DEF LoopsOver
<1>3. /\ nth' \in 0 .. Events
      /\ ahead' \in Seq(Instance) /\ ToSet(ahead') \subseteq active /\ due' \subseteq ToSet(ahead')
  <2>1. order \in Seq(Instance) /\ ToSet(order) = active
    BY <1>0 DEF TypeOK, Shape
  <2>2. nth \in 0 .. Events \/ nth \in 0 .. 0
    BY <1>0, <1>2 DEF TypeOK
  <2>3. Events \in Nat
    BY RoomsAssumption
  <2>4. nth' \in 0 .. Events
    BY <1>1, <2>2, <2>3
  <2>5. CASE ahead' = order /\ due' = ToSet(order)
    BY <2>1, <2>4, <2>5 DEF ToSet
  <2>6. CASE ahead' = <<>> /\ due' = {}
    BY <2>4, <2>6 DEF ToSet
  <2> QED
    BY <1>1, <2>5, <2>6
<1>4. TypeOK'
  BY <1>0, <1>1, <1>3 DEF TypeOK, ActiveIds
<1>5. Shape' /\ LoopsOver' /\ WalksOver' /\ OnePlace' /\ UniqueIds'
  BY <1>0, <1>1, <1>3 DEF Shape, LoopsOver, WalksOver, OnePlace, UniqueIds
<1>6. NothingDeletedInUse' /\ DyingInGame' /\ Begun' /\ OneLate'
  BY <1>0, <1>1, <1>3 DEF NothingDeletedInUse, DyingInGame, InGame, Begun, OneLate, Allocated
<1> QED
  BY <1>4, <1>5, <1>6 DEF IInv

\* The event loop comes to an instance, which is still there and has begun; if a
\* room has been asked for, no event was late before.
LEMMA PerformEventNext ==
  ASSUME IInv, NEW k \in DOMAIN ahead, PerformEvent(k)
  PROVE  IInv'
<1>0. /\ TypeOK /\ Shape /\ LoopsOver /\ WalksOver /\ OnePlace /\ UniqueIds
      /\ NothingDeletedInUse /\ DyingInGame /\ Begun /\ OneLate
  BY DEF IInv
<1>1. /\ pc = "loop" /\ self = Nobody /\ pc' = "loop"
      /\ \A j \in 1 .. k - 1 : ahead[j] \notin due
      /\ self' = ahead[k] /\ ahead' = SubSeq(ahead, k + 1, Len(ahead)) /\ due' = due \ {ahead[k]}
      /\ late' = IF switching = None THEN late ELSE late + 1
      /\ dying' = dying /\ active' = active /\ inactive' = inactive /\ garbage' = garbage
      /\ order' = order /\ born' = born /\ nth' = nth /\ at' = at /\ todo' = todo
      /\ created' = created /\ owed' = owed
      /\ UNCHANGED <<room, switching, restarting, entering, ending>>
  BY DEF PerformEvent, At, objects, control
<1>2. /\ ahead \in Seq(Instance) /\ due \subseteq ToSet(ahead) /\ ToSet(ahead) \subseteq Instance
  BY <1>0 DEF TypeOK, Shape
<1>3. /\ ahead' \in Seq(Instance) /\ Len(ahead') = Len(ahead) - k
      /\ \A l \in 1 .. Len(ahead) - k : ahead'[l] = ahead[k + l]
      /\ DOMAIN ahead = 1 .. Len(ahead) /\ Len(ahead) \in Nat
      /\ DOMAIN ahead' = 1 .. Len(ahead) - k
  BY <1>1, <1>2
<1>4. ahead[k] \in ToSet(ahead) /\ ToSet(ahead') \subseteq ToSet(ahead)
  BY <1>3 DEF ToSet
<1>5. due' \subseteq ToSet(ahead')
  <2> SUFFICES ASSUME NEW i \in due, i # ahead[k]
               PROVE  i \in ToSet(ahead')
    BY <1>1
  <2>1. PICK l \in DOMAIN ahead : ahead[l] = i
    BY <1>2 DEF ToSet
  <2>2. l - k \in DOMAIN ahead' /\ k + (l - k) = l
    BY <1>1, <1>3, <2>1
  <2>3. ahead'[l - k] = i
    BY <1>3, <2>1, <2>2
  <2> QED
    BY <2>2, <2>3 DEF ToSet
<1>6. ahead[k] \in Instance /\ ahead[k] # Nobody
  BY <1>2, <1>4, InstanceShape
<1>7. late = 0 /\ late' \in {0, 1} /\ (late' = 1 => switching # None)
  BY <1>0, <1>1 DEF OneLate
<1>8. TypeOK'
  BY <1>0, <1>1, <1>2, <1>4, <1>5, <1>6, <1>7 DEF TypeOK, ActiveIds
<1>9. Shape' /\ LoopsOver' /\ WalksOver' /\ OnePlace' /\ UniqueIds'
  BY <1>0, <1>1, <1>3 DEF Shape, LoopsOver, WalksOver, OnePlace, UniqueIds
<1>10. NothingDeletedInUse' /\ DyingInGame' /\ Begun' /\ OneLate'
  BY <1>0, <1>1, <1>4, <1>6, <1>7 DEF NothingDeletedInUse, DyingInGame, InGame, Begun, OneLate, Allocated
<1> QED
  BY <1>8, <1>9, <1>10 DEF IInv

\* What was destroyed is deleted when no loop holds any of it.
LEMMA AfterEventsNext ==
  ASSUME IInv, AfterEvents
  PROVE  IInv'
<1>0. /\ TypeOK /\ Shape /\ LoopsOver /\ WalksOver /\ OnePlace /\ UniqueIds
      /\ NothingDeletedInUse /\ DyingInGame /\ Begun /\ OneLate
  BY DEF IInv
<1>1. /\ pc = "after" /\ self = Nobody /\ self' = Nobody
      /\ nth' = 0 /\ ahead' = <<>> /\ due' = {} /\ garbage' = {} /\ born' = born \ garbage
      /\ dying' = dying
      /\ active' = active /\ inactive' = inactive /\ order' = order /\ created' = created
      /\ room' = room /\ ending' = ending /\ owed' = owed
      /\ \/ /\ switching = None /\ pc' = "main" /\ late' = late
            /\ UNCHANGED <<at, todo, switching, restarting, entering>>
         \/ /\ switching # None /\ pc' = "roomend" /\ late' = 0
            /\ entering' = [room |-> switching, restart |-> restarting]
            /\ switching' = None /\ restarting' = FALSE /\ todo' = ActiveIds
  BY DEF AfterEvents, At, WalkFromFirst
<1>2. created = <<>> /\ ToSet(<<>>) = {} /\ <<>> \in Seq(Instance) /\ owed = {}
  BY <1>0, <1>1 DEF LoopsOver, WalksOver, ToSet
<1>3. late' = 0
  BY <1>0, <1>1 DEF OneLate
<1>4. TypeOK'
  <2>1. nth' \in 0 .. Events
    BY <1>1, RoomsAssumption
  <2>2. restarting' \in BOOLEAN /\ ending' \in BOOLEAN
    BY <1>0, <1>1 DEF TypeOK
  <2>3. {room', switching'} \subseteq Rooms \cup {None}
    BY <1>0, <1>1 DEF TypeOK
  <2> QED
    BY <1>0, <1>1, <1>2, <1>3, <2>1, <2>2, <2>3 DEF TypeOK, ActiveIds
<1>5. Shape'
  BY <1>0, <1>1, <1>2 DEF Shape, TypeOK
<1>6. LoopsOver' /\ WalksOver' /\ OnePlace' /\ UniqueIds'
  BY <1>0, <1>1, <1>2 DEF LoopsOver, WalksOver, OnePlace, UniqueIds
<1>7. NothingDeletedInUse' /\ DyingInGame' /\ Begun' /\ OneLate'
  BY <1>0, <1>1, <1>2, <1>3 DEF NothingDeletedInUse, DyingInGame, InGame, Begun, OneLate, OnePlace
<1> QED
  BY <1>4, <1>5, <1>6, <1>7 DEF IInv

\* A loop over the instance list comes to an instance, or is over.
LEMMA PerformForAllNext ==
  ASSUME IInv, PerformForAll
  PROVE  IInv'
<1>0. /\ TypeOK /\ Shape /\ LoopsOver /\ WalksOver /\ OnePlace /\ UniqueIds
      /\ NothingDeletedInUse /\ DyingInGame /\ Begun /\ OneLate
  BY DEF IInv
<1>1. /\ pc \in {"roomend", "roomstart", "lastend"} /\ self = Nobody
      /\ dying' = dying /\ active' = active /\ inactive' = inactive /\ garbage' = garbage
      /\ order' = order /\ born' = born /\ nth' = nth /\ ahead' = ahead /\ due' = due
      /\ created' = created
      /\ UNCHANGED <<room, switching, restarting, entering, ending, late>>
  BY DEF PerformForAll, objects, control
<1>2. CASE todo # {}
  <2>1. PICK d \in todo : todo' = todo \ {d} /\ self' \in {i \in active : Id(i) = d}
    BY <1>2 DEF PerformForAll, WalkNext
  <2>2. /\ self' \in active /\ Id(self') = d /\ self' \in Instance
        /\ pc' = pc /\ owed' = owed \ {self'}
    BY <1>0, <1>2, <2>1 DEF PerformForAll, TypeOK
  <2>3. TypeOK'
    BY <1>0, <1>1, <2>1, <2>2 DEF TypeOK, ActiveIds
  <2>4. Shape' /\ LoopsOver' /\ OnePlace' /\ UniqueIds'
    BY <1>0, <1>1, <2>2 DEF Shape, LoopsOver, OnePlace, UniqueIds
  <2>5. WalksOver'
    <3>1. \A i \in owed' : Id(i) # d
      BY <1>0, <2>2 DEF TypeOK, UniqueIds
    <3> QED
      BY <1>0, <1>1, <2>1, <2>2, <3>1 DEF WalksOver
  <2>6. NothingDeletedInUse' /\ DyingInGame' /\ Begun' /\ OneLate'
    BY <1>0, <1>1, <2>2 DEF NothingDeletedInUse, DyingInGame, InGame, Begun, OneLate, Allocated
  <2> QED
    BY <2>3, <2>4, <2>5, <2>6 DEF IInv
<1>3. CASE todo = {}
  <2>1. /\ self' = Nobody /\ todo' = {} /\ at' = None /\ owed' = owed
        /\ pc' \in {"enter", "main", "free"} /\ (pc' = "enter" => pc = "roomend")
    BY <1>1, <1>3 DEF PerformForAll
  <2>2. owed = {}
    BY <1>0, <1>3 DEF WalksOver
  <2>3. TypeOK'
    BY <1>0, <1>1, <2>1, <2>2 DEF TypeOK
  <2>4. Shape' /\ LoopsOver' /\ WalksOver' /\ OnePlace' /\ UniqueIds'
    BY <1>0, <1>1, <2>1, <2>2 DEF Shape, LoopsOver, WalksOver, OnePlace, UniqueIds
  <2>5. NothingDeletedInUse' /\ DyingInGame' /\ Begun' /\ OneLate'
    BY <1>0, <1>1, <2>1 DEF NothingDeletedInUse, DyingInGame, InGame, Begun, OneLate, Allocated
  <2> QED
    BY <2>3, <2>4, <2>5 DEF IInv
<1> QED
  BY <1>2, <1>3

\* A room is entered with instances whose ids are not taken; who is kept has
\* begun, and those made are all to come.
LEMMA EnterRoomNext ==
  ASSUME IInv, EnterRoom
  PROVE  IInv'
<1>0. /\ TypeOK /\ Shape /\ LoopsOver /\ WalksOver /\ OnePlace /\ UniqueIds
      /\ NothingDeletedInUse /\ DyingInGame /\ Begun /\ OneLate
  BY DEF IInv
<1>1. /\ pc = "enter" /\ self = Nobody /\ self' = Nobody
      /\ inactive' = {} /\ born' = born \ inactive /\ pc' = "precreate" /\ nth' = 0
      /\ dying' = dying
      /\ ahead' = ahead /\ due' = due /\ at' = at /\ todo' = todo /\ owed' = owed
      /\ UNCHANGED <<switching, restarting, entering, ending, late>>
  BY DEF EnterRoom, At
<1>2. /\ ahead = <<>> /\ todo = {} /\ owed = {} /\ at = None /\ entering.room \in Rooms
      /\ ToSet(<<>>) = {}
  BY <1>0, <1>1 DEF LoopsOver, WalksOver, Shape, ToSet
<1>3. Populate(entering.room)
  BY DEF EnterRoom
<1>4. /\ created' \in Seq(Instance) /\ ToSet(created') \subseteq Instance \ Allocated
      /\ \A i, j \in ToSet(created') : Id(i) = Id(j) => i = j
      /\ order' \in Seq(Instance) /\ ToSet(order') = active'
      /\ \A k, l \in DOMAIN order' : order'[k] = order'[l] => k = l
      /\ room' = entering.room
  BY <1>0, <1>2, <1>3, PopulateEffect
<1>5. PICK kept \in SUBSET active :
         /\ garbage' = garbage \cup (active \ kept)
         /\ active' = kept \cup ToSet(created')
         /\ \A i \in ToSet(created'), j \in kept : Id(i) # Id(j)
  BY <1>0, <1>2, <1>3, PopulateEffect
<1>6. TypeOK'
  <2>1. nth' \in 0 .. Events
    BY <1>1, RoomsAssumption
  <2> QED
    BY <1>0, <1>1, <1>2, <1>4, <1>5, <2>1 DEF TypeOK
<1>7. Shape'
  BY <1>0, <1>1, <1>2, <1>4 DEF Shape
<1>8. LoopsOver' /\ WalksOver'
  BY <1>1, <1>2 DEF LoopsOver, WalksOver
<1>9. OnePlace' /\ UniqueIds'
  BY <1>0, <1>1, <1>4, <1>5 DEF OnePlace, UniqueIds, Allocated
<1>10. NothingDeletedInUse' /\ DyingInGame'
  BY <1>0, <1>1, <1>2, <1>5 DEF NothingDeletedInUse, DyingInGame, InGame, Allocated
<1>11. Begun'
  <2>1. \A i \in ToSet(created') : \E k \in DOMAIN created' : k > 0 /\ created'[k] = i
    BY <1>4 DEF ToSet
  <2>2. \A i \in kept : i \in born'
    BY <1>0, <1>1, <1>5 DEF Begun, OnePlace
  <2>3. \A k \in 1 .. nth' : FALSE
    BY <1>1
  <2> QED
    BY <1>1, <1>2, <1>5, <2>1, <2>2, <2>3 DEF Begun
<1>12. OneLate'
  BY <1>0, <1>1 DEF OneLate
<1> QED
  BY <1>6, <1>7, <1>8, <1>9, <1>10, <1>11, <1>12 DEF IInv

\* The Create events of the instances made, then their Game Start events; when
\* the first are over, every instance on the list has begun.
LEMMA PerformForCreatedNext ==
  ASSUME IInv, PerformForCreated
  PROVE  IInv'
<1>0. /\ TypeOK /\ Shape /\ LoopsOver /\ WalksOver /\ OnePlace /\ UniqueIds
      /\ NothingDeletedInUse /\ DyingInGame /\ Begun /\ OneLate
  BY DEF IInv
<1>1. /\ pc \in {"create", "gamestart"} /\ self = Nobody
      /\ dying' = dying /\ active' = active /\ inactive' = inactive /\ garbage' = garbage
      /\ order' = order /\ ahead' = ahead /\ due' = due /\ at' = at /\ todo' = todo
      /\ owed' = owed
      /\ UNCHANGED <<room, switching, restarting, entering, ending, late>>
  BY DEF PerformForCreated, control
<1>2. /\ created \in Seq(Instance) /\ DOMAIN created = 1 .. Len(created) /\ Len(created) \in Nat
      /\ ahead = <<>> /\ nth \in Nat /\ Events \in Nat
  BY <1>0, <1>1, RoomsAssumption DEF Shape, LoopsOver, TypeOK
<1>3. CASE nth < Len(created)
  <2>1. /\ self' = created[nth + 1] /\ nth' = nth + 1 /\ born' = born \cup {self'}
        /\ pc' = pc /\ created' = created
    BY <1>3 DEF PerformForCreated
  <2>2. nth + 1 \in DOMAIN created /\ nth' \in 0 .. Len(created)
    BY <1>2, <1>3, <2>1
  <2>3. self' \in Instance /\ self' \in ToSet(created)
    BY <1>2, <2>1, <2>2 DEF ToSet
  <2>4. TypeOK'
    BY <1>0, <1>1, <2>1, <2>2, <2>3 DEF TypeOK, ActiveIds
  <2>5. Shape' /\ LoopsOver' /\ WalksOver' /\ OnePlace' /\ UniqueIds'
    BY <1>0, <1>1, <2>1 DEF Shape, LoopsOver, WalksOver, OnePlace, UniqueIds
  <2>6. NothingDeletedInUse' /\ DyingInGame'
    BY <1>0, <1>1, <2>1, <2>3 DEF NothingDeletedInUse, DyingInGame, InGame, Allocated
  <2>7. ASSUME pc = "create"
        PROVE  /\ \A k \in 1 .. nth' : k \in DOMAIN created => created[k] \in born'
               /\ \A i \in active \cup inactive :
                    i \in born' \/ \E k \in DOMAIN created : k > nth' /\ created[k] = i
    <3>1. ASSUME NEW k \in 1 .. nth', k \in DOMAIN created
          PROVE  created[k] \in born'
      <4>1. CASE k \in 1 .. nth
        BY <1>0, <2>1, <2>7, <3>1, <4>1 DEF Begun
      <4>2. CASE k = nth + 1
        BY <2>1, <4>2
      <4> QED
        BY <1>2, <2>1, <3>1, <4>1, <4>2
    <3>2. ASSUME NEW i \in active \cup inactive, i \notin born'
          PROVE  \E k \in DOMAIN created : k > nth' /\ created[k] = i
      <4>1. PICK k \in DOMAIN created : k > nth /\ created[k] = i
        BY <1>0, <2>1, <2>7, <3>2 DEF Begun
      <4>2. k # nth + 1
        BY <2>1, <3>2, <4>1
      <4>3. k > nth'
        BY <1>2, <2>1, <4>1, <4>2
      <4> QED
        BY <4>1, <4>3
    <3> QED
      BY <3>1, <3>2
  <2>8. Begun'
    <3>1. ToSet(ahead') \subseteq born' /\ self' \in born' /\ born \subseteq born'
      BY <1>0, <1>1, <2>1 DEF Begun
    <3>2. CASE pc = "create"
      BY <1>1, <2>1, <2>7, <3>1, <3>2 DEF Begun
    <3>3. CASE pc = "gamestart"
      BY <1>0, <1>1, <2>1, <3>1, <3>3 DEF Begun
    <3> QED
      BY <1>1, <3>2, <3>3
  <2>9. OneLate'
    BY <1>0, <1>1 DEF OneLate
  <2> QED
    BY <2>4, <2>5, <2>6, <2>8, <2>9 DEF IInv
<1>4. CASE ~(nth < Len(created))
  <2>1. /\ pc' \in {"gamestart", "createcode"} /\ (pc' = "gamestart" => pc = "create")
        /\ nth' = 0 /\ self' = Nobody /\ born' = born
        /\ \/ pc' = "gamestart" /\ created' = created
           \/ pc' = "createcode" /\ created' = <<>>
    BY <1>1, <1>4 DEF PerformForCreated
  <2>2. <<>> \in Seq(Instance) /\ ToSet(<<>>) = {}
    BY DEF ToSet
  <2>3. created' \in Seq(Instance) /\ nth' \in 0 .. Events
    <3>1. nth' \in 0 .. Events
      BY <1>2, <2>1
    <3>2. CASE created' = created
      BY <1>2, <3>1, <3>2
    <3>3. CASE created' = <<>>
      BY <2>2, <3>1, <3>3
    <3> QED
      BY <2>1, <3>2, <3>3
  <2>4. TypeOK'
    BY <1>0, <1>1, <2>1, <2>3 DEF TypeOK, ActiveIds
  <2>5. Shape' /\ LoopsOver' /\ WalksOver' /\ OnePlace' /\ UniqueIds'
    BY <1>0, <1>1, <2>1, <2>3 DEF Shape, LoopsOver, WalksOver, OnePlace, UniqueIds
  <2>6. NothingDeletedInUse' /\ DyingInGame'
    <3>1. CASE created' = created
      BY <1>0, <1>1, <2>1, <3>1 DEF NothingDeletedInUse, DyingInGame, InGame, Allocated
    <3>2. CASE created' = <<>>
      BY <1>0, <1>1, <2>1, <2>2, <3>2 DEF NothingDeletedInUse, DyingInGame, InGame, Allocated
    <3> QED
      BY <2>1, <3>1, <3>2
  <2>7. ASSUME pc = "create"
        PROVE  ToSet(created) \subseteq born /\ active \cup inactive \subseteq born
    <3>1. \A k \in DOMAIN created : k \in 1 .. nth /\ ~(k > nth)
      BY <1>2, <1>4
    <3> QED
      BY <1>0, <2>7, <3>1 DEF Begun, ToSet
  <2>8. Begun'
    <3>0. dying = {} /\ ToSet(ahead) \subseteq born
      BY <1>0, <1>1 DEF DyingInGame, InGame, Begun
    <3>1. CASE pc = "create"
      BY <1>1, <2>1, <2>7, <3>0, <3>1 DEF Begun
    <3>2. CASE pc = "gamestart"
      BY <1>0, <1>1, <2>1, <3>0, <3>2 DEF Begun
    <3> QED
      BY <1>1, <3>1, <3>2
  <2>9. OneLate'
    BY <1>0, <1>1 DEF OneLate
  <2> QED
    BY <2>4, <2>5, <2>6, <2>8, <2>9 DEF IInv
<1> QED
  BY <1>3, <1>4

\* The Create events begin.
LEMMA PreCreationDoneNext ==
  ASSUME IInv, PreCreationDone
  PROVE  IInv'
<1>0. /\ TypeOK /\ Shape /\ LoopsOver /\ WalksOver /\ OnePlace /\ UniqueIds
      /\ NothingDeletedInUse /\ DyingInGame /\ Begun /\ OneLate
  BY DEF IInv
<1>1. /\ pc = "precreate" /\ pc' = "create" /\ self' = self /\ dying = {}
      /\ dying' = dying /\ active' = active /\ inactive' = inactive /\ garbage' = garbage
      /\ order' = order /\ born' = born /\ nth' = nth /\ ahead' = ahead /\ due' = due
      /\ at' = at /\ todo' = todo /\ created' = created /\ owed' = owed
      /\ UNCHANGED <<room, switching, restarting, entering, ending, late>>
  BY DEF PreCreationDone, objects, walks, control
<1>2. TypeOK'
  BY <1>0, <1>1 DEF TypeOK, ActiveIds
<1>3. Shape' /\ LoopsOver' /\ WalksOver' /\ OnePlace' /\ UniqueIds'
  BY <1>0, <1>1 DEF Shape, LoopsOver, WalksOver, OnePlace, UniqueIds
<1>4. NothingDeletedInUse' /\ DyingInGame' /\ OneLate'
  BY <1>0, <1>1 DEF NothingDeletedInUse, DyingInGame, OneLate, Allocated
<1>5. Begun'
  BY <1>0, <1>1 DEF Begun
<1> QED
  BY <1>2, <1>3, <1>4, <1>5 DEF IInv

\* A Destroy event that returns is one of an instance not yet deleted; unless it is
\* on the garbage list it is now destroyed.
LEMMA DestroyEndsNext ==
  ASSUME IInv, DestroyEnds
  PROVE  IInv'
<1>0. /\ TypeOK /\ Shape /\ LoopsOver /\ WalksOver /\ OnePlace /\ UniqueIds
      /\ NothingDeletedInUse /\ DyingInGame /\ Begun /\ OneLate
  BY DEF IInv
<1>1. PICK i \in dying :
        /\ dying' = dying \ {i}
        /\ IF i \in garbage THEN UNCHANGED <<objects, walks, control, owed>> ELSE Destroy(i)
        /\ UNCHANGED <<pc, self, late>>
  BY DEF DestroyEnds
<1>2. i \in Allocated
  BY <1>0 DEF DyingInGame, InGame, NothingDeletedInUse
<1>3. CASE i \in garbage
  <2>1. Still /\ Asked
    BY <1>0, <1>1, <1>3 DEF Still, Asked, objects, walks, control, TypeOK
  <2> QED
    BY <2>1, AskedNext
<1>4. CASE i \notin garbage
  <2>1. i \in active \cup inactive /\ Destroy(i)
    BY <1>1, <1>2, <1>4 DEF Allocated
  <2>2. Still /\ (Gone(i) \/ Dropped(i))
    BY <1>0, <1>1, <2>1, DestroyEffect DEF Still
  <2> QED
    BY <2>2, GoneNext, DroppedNext
<1> QED
  BY <1>3, <1>4

\* The Room Start events begin.
LEMMA CreationCodeDoneNext ==
  ASSUME IInv, CreationCodeDone
  PROVE  IInv'
<1>0. /\ TypeOK /\ Shape /\ LoopsOver /\ WalksOver /\ OnePlace /\ UniqueIds
      /\ NothingDeletedInUse /\ DyingInGame /\ Begun /\ OneLate
  BY DEF IInv
<1>1. /\ pc = "createcode" /\ pc' = "roomstart" /\ self' = self /\ dying = {}
      /\ dying' = dying /\ active' = active /\ inactive' = inactive /\ garbage' = garbage
      /\ order' = order /\ born' = born /\ nth' = nth /\ ahead' = ahead /\ due' = due
      /\ todo' = ActiveIds /\ created' = created /\ owed' = owed
      /\ entering' = [room |-> None, restart |-> FALSE]
      /\ UNCHANGED <<room, switching, restarting, ending, late>>
  BY DEF CreationCodeDone, WalkFromFirst, objects
<1>2. owed = {}
  BY <1>0, <1>1 DEF WalksOver
<1>3. TypeOK'
  BY <1>0, <1>1 DEF TypeOK, ActiveIds
<1>4. Shape' /\ LoopsOver' /\ WalksOver' /\ OnePlace' /\ UniqueIds'
  BY <1>0, <1>1, <1>2 DEF Shape, LoopsOver, WalksOver, OnePlace, UniqueIds
<1>5. NothingDeletedInUse' /\ DyingInGame' /\ Begun' /\ OneLate'
  BY <1>0, <1>1 DEF NothingDeletedInUse, DyingInGame, InGame, Begun, OneLate, Allocated
<1> QED
  BY <1>3, <1>4, <1>5 DEF IInv

\* No instance is left, and no loop holds any.
LEMMA FreeAllNext ==
  ASSUME IInv, FreeAll
  PROVE  IInv'
<1>0. /\ TypeOK /\ Shape /\ LoopsOver /\ WalksOver /\ OnePlace /\ UniqueIds
      /\ NothingDeletedInUse /\ DyingInGame /\ Begun /\ OneLate
  BY DEF IInv
<1>1. /\ pc = "free" /\ pc' = "over" /\ self = Nobody /\ self' = Nobody
      /\ dying' = dying /\ active' = {} /\ order' = <<>> /\ born' = born \ active
      /\ inactive' = inactive /\ garbage' = garbage
      /\ nth' = nth /\ ahead' = ahead /\ due' = due /\ at' = at /\ todo' = todo
      /\ created' = created /\ owed' = owed
      /\ UNCHANGED <<room, switching, restarting, entering, ending, late>>
  BY DEF FreeAll, At, walks, control
<1>2. /\ ahead = <<>> /\ todo = {} /\ owed = {}
      /\ ToSet(<<>>) = {} /\ <<>> \in Seq(Instance) /\ DOMAIN <<>> = {}
  BY <1>0, <1>1 DEF LoopsOver, WalksOver, ToSet
<1>3. TypeOK'
  BY <1>0, <1>1, <1>2 DEF TypeOK
<1>4. Shape' /\ LoopsOver' /\ WalksOver' /\ OnePlace' /\ UniqueIds'
  BY <1>0, <1>1, <1>2 DEF Shape, LoopsOver, WalksOver, OnePlace, UniqueIds
<1>5. NothingDeletedInUse' /\ DyingInGame' /\ Begun' /\ OneLate'
  BY <1>0, <1>1, <1>2 DEF NothingDeletedInUse, DyingInGame, InGame, Begun, OneLate, OnePlace
<1> QED
  BY <1>3, <1>4, <1>5 DEF IInv

\* An event returns; a late one ends the event loop.
LEMMA ReturnNext ==
  ASSUME IInv, Return
  PROVE  IInv'
<1>0. /\ TypeOK /\ Shape /\ LoopsOver /\ WalksOver /\ OnePlace /\ UniqueIds
      /\ NothingDeletedInUse /\ DyingInGame /\ Begun /\ OneLate
  BY DEF IInv
<1>1. /\ self # Nobody /\ self' \in {self, Nobody} /\ dying = {}
      /\ \/ pc = "loop" /\ switching # None /\ pc' = "after"
         \/ pc = "lastend" /\ pc' = "gameend"
         \/ pc = "gameend" /\ pc' = "lastend"
         \/ ~(pc = "loop" /\ switching # None) /\ pc' = pc
      /\ dying' = dying /\ active' = active /\ inactive' = inactive /\ garbage' = garbage
      /\ order' = order /\ born' = born /\ nth' = nth /\ ahead' = ahead /\ due' = due
      /\ at' = at /\ todo' = todo /\ created' = created /\ owed' = owed
      /\ UNCHANGED <<room, switching, restarting, entering, ending, late>>
  BY DEF Return, objects, walks, control
<1>2. TypeOK'
  BY <1>0, <1>1 DEF TypeOK, ActiveIds
<1>3. Shape' /\ LoopsOver' /\ WalksOver' /\ OnePlace' /\ UniqueIds'
  BY <1>0, <1>1 DEF Shape, LoopsOver, WalksOver, OnePlace, UniqueIds
<1>4. NothingDeletedInUse' /\ DyingInGame' /\ OneLate'
  BY <1>0, <1>1 DEF NothingDeletedInUse, DyingInGame, InGame, OneLate, Allocated
<1>5. Begun'
  BY <1>0, <1>1 DEF Begun
<1> QED
  BY <1>2, <1>3, <1>4, <1>5 DEF IInv

-----------------------------------------------------------------------------
(* What always holds. *)

\* The invariant holds in every state of the program.
LEMMA Invariance == Spec => []IInv
<1>1. IInv /\ [Next]_vars => IInv'
  <2> SUFFICES ASSUME IInv, [Next]_vars
               PROVE  IInv'
    OBVIOUS
  <2>1. CASE UNCHANGED vars
    <3>1. UNCHANGED <<pc, self, dying, active, inactive, garbage, order, born, nth, ahead, due, at,
                      todo, created, room, switching, restarting, entering, ending, owed, late>>
      BY <2>1 DEF vars, objects, walks, control
    <3> QED
      BY <3>1 DEF IInv, TypeOK, ActiveIds, Shape, LoopsOver, WalksOver, OnePlace, UniqueIds,
                  NothingDeletedInUse, Allocated, DyingInGame, InGame, Begun, OneLate
  <2>2. CASE Game
    BY <2>2, GameNext
  <2>3. CASE \E k \in DOMAIN ahead : PerformEvent(k)
    BY <2>3, PerformEventNext
  <2>4. CASE MainLoop \/ NextList \/ AfterEvents \/ PerformForAll \/ EnterRoom
    BY <2>4, MainLoopNext, NextListNext, AfterEventsNext, PerformForAllNext, EnterRoomNext
  <2>5. CASE PerformForCreated \/ CreationCodeDone \/ FreeAll \/ Return
    BY <2>5, PerformForCreatedNext, CreationCodeDoneNext, FreeAllNext, ReturnNext
  <2>6. CASE PreCreationDone \/ DestroyEnds
    BY <2>6, PreCreationDoneNext, DestroyEndsNext
  <2> QED
    BY <2>1, <2>2, <2>3, <2>4, <2>5, <2>6 DEF Next, Engine
<1> QED
  BY <1>1, InitHolds, PTL DEF Spec

\* Every variable keeps its type: the lists of events hold what the instance
\* list holds, and the loops only what they may.
THEOREM TypeCorrect == Spec => []TypeOK
<1>1. IInv => TypeOK
  BY DEF IInv
<1> QED
  BY <1>1, Invariance, PTL

\* No two instances that are not destroyed have one id: roomstruct::gotome makes
\* a room's instances but for those whose id a persistent instance has taken,
\* and instance_create gives ids above all others.
THEOREM UniqueIdsAlways == Spec => []UniqueIds
<1>1. IInv => UniqueIds
  BY DEF IInv
<1> QED
  BY <1>1, Invariance, PTL

\* dispose_destroyed_instances deletes nothing that the event loop, the event
\* that runs or gotome's vector still refers to.
THEOREM NothingDeletedInUseAlways == Spec => []NothingDeletedInUse
<1>1. IInv => NothingDeletedInUse
  BY DEF IInv
<1> QED
  BY <1>1, Invariance, PTL

\* No event that the engine brings about comes to an instance before its Create
\* event: roomstruct::gotome runs the Create events of all it made before any Game
\* Start, Room Start or step event, and activation brings back none that has had
\* none.  Destroy events that the game's code brings on while gotome has not yet
\* run them all (the pre-creation code, or a Create event, may destroy one that it
\* made) are excepted, and no others.
THEOREM CreateComesFirst == Spec => []CreateFirst
<1>1. IInv => CreateFirst
  BY DEF IInv, Begun, CreateFirst
<1> QED
  BY <1>1, Invariance, PTL

\* Once a room is asked for, the jump to after_events lets at most one more event
\* of the event loop begin.
THEOREM LeavesPromptlyAlways == Spec => []LeavesPromptly
<1>1. IInv => LeavesPromptly
  BY DEF IInv, OneLate, LeavesPromptly
<1> QED
  BY <1>1, Invariance, PTL
=============================================================================
