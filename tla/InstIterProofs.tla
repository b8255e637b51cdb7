---------------------------- MODULE InstIterProofs ----------------------------
(* Proofs about the lists and iterators of InstIter, for every MaxNode and    *)
(* every set of registered and raw cursors.                                   *)
EXTENDS InstIter, FiniteSetTheorems, TLAPS

\* Init establishes the invariant: an empty list is well linked.
LEMMA InitInv == Init => IInv
<1> SUFFICES ASSUME Init PROVE IInv
  OBVIOUS
<1> USE MaxNodeAssumption DEF Init, Sentinel, Slot, Node, NULL
<1>1. TypeOK
  BY DEF TypeOK
<1>2. WellLinked
  BY DEF WellLinked, Follows, Precedes
<1>3. NextStepLive
  BY DEF NextStepLive, Cursor
<1>4. ForwardOnly
  BY DEF ForwardOnly
<1>5. ScopeClosed
  BY DEF ScopeClosed, WalkClosed
<1>6. CountMatches
  BY FS_EmptySet DEF CountMatches
<1> QED BY <1>1, <1>2, <1>3, <1>4, <1>5, <1>6 DEF IInv

\* What TypeOK says of the numbers involved, in the form the steps below use it.
LEMMA Numbers ==
  ASSUME TypeOK
  PROVE  /\ used \in Nat /\ used <= MaxNode /\ NULL \in Nat /\ MaxNode < NULL
         /\ \A i \in linked : i \in Nat /\ 1 <= i /\ i <= used /\ i \in Slot
         /\ Sentinel = 0 /\ Sentinel \in Slot
         /\ \A i \in Slot : /\ i \in Nat /\ i < NULL
                            /\ next[i] \in Nat /\ next[i] \in Node \cup {NULL}
                            /\ prev[i] \in Slot
         /\ \A i \in 1 .. used : i \in Nat /\ i \in Slot /\ 1 <= i /\ i <= used
         /\ 1 .. used \subseteq Node
<1> USE MaxNodeAssumption
<1>1. used \in Nat /\ used <= MaxNode
  BY DEF TypeOK
<1>2. NULL \in Nat /\ MaxNode < NULL
  BY DEF NULL
<1>3. \A i \in 1 .. used : i \in Nat /\ i \in Slot /\ 1 <= i /\ i <= used
  BY <1>1 DEF Slot, Sentinel
<1>4. linked \subseteq 1 .. used
  BY DEF TypeOK
<1>5. Sentinel = 0 /\ Sentinel \in Slot
  BY DEF Sentinel, Slot
<1>6. \A i \in Slot : i \in Nat /\ i < NULL
  BY DEF Slot, Sentinel, NULL
<1>7. \A i \in Slot : next[i] \in Node \cup {NULL} /\ prev[i] \in Slot
  <2>1. next \in [Slot -> Node \cup {NULL}] /\ prev \in [Slot -> Slot]
    BY DEF TypeOK
  <2> QED BY <2>1
<1>8. \A i \in Node \cup {NULL} : i \in Nat
  BY <1>2 DEF Node
<1>9. 1 .. used \subseteq Node
  BY <1>1 DEF Node
<1> QED BY <1>1, <1>2, <1>3, <1>4, <1>5, <1>6, <1>7, <1>8, <1>9

\* Begin puts a cursor on the first node, which is on the list.
LEMMA BeginInv ==
  ASSUME IInv, NEW c \in Cursor, Begin(c)
  PROVE  IInv'
<1> USE MaxNodeAssumption
<1>0. /\ TypeOK /\ WellLinked /\ CountMatches
      /\ NextStepLive /\ ForwardOnly /\ ScopeClosed
      /\ WalkClosed(c)
  BY DEF IInv, ScopeClosed
<1>1. /\ UNCHANGED <<kind, next, prev, count, used, linked>>
      /\ cur' = [cur EXCEPT ![c] = next[Sentinel]]
      /\ due' = [due EXCEPT ![c] = linked \ {next[Sentinel]}]
      /\ scope' = [scope EXCEPT ![c] = linked]
      /\ cur[c] = NULL
  BY DEF Begin
<1>2. WellLinked' /\ ForwardOnly' /\ CountMatches'
  BY <1>0, <1>1 DEF WellLinked, Follows, Precedes, ForwardOnly, CountMatches
<1>3. Follows(Sentinel, next[Sentinel])
  BY <1>0 DEF WellLinked
<1>4. /\ linked \subseteq Node
      /\ next[Sentinel] \in Node \cup {NULL}
      /\ linked \subseteq 1 .. used
      /\ cur'[c] = next[Sentinel]
      /\ due'[c] = linked \ {next[Sentinel]}
      /\ scope'[c] = linked
  BY <1>0, <1>1 DEF TypeOK, Node, Slot, Sentinel, NULL
<1>5. TypeOK'
  BY <1>0, <1>1, <1>4 DEF TypeOK
<1>6. NextStepLive'
  BY <1>0, <1>1, <1>3 DEF NextStepLive, WellLinked, Follows, TypeOK, Cursor
<1>7. ASSUME NEW k \in Cursor PROVE WalkClosed(k)'
  <2>1. CASE k # c
    <3>1. cur'[k] = cur[k] /\ due'[k] = due[k] /\ scope'[k] = scope[k]
      BY <1>0, <1>1, <2>1 DEF TypeOK
    <3> QED BY <1>0, <1>1, <3>1 DEF ScopeClosed, WalkClosed
  <2>2. CASE k = c /\ next[Sentinel] = NULL
    <3>1. linked = {}
      BY <1>0, <1>3, <2>2 DEF Follows, TypeOK, Node, Sentinel, NULL
    <3> QED BY <1>4, <2>2, <3>1 DEF WalkClosed
  <2>3. CASE k = c /\ next[Sentinel] # NULL
    <3>1. next[Sentinel] \in linked
      BY <1>3, <2>3 DEF Follows
    <3>2. \A d \in linked \ {next[Sentinel]} : next[Sentinel] < d
      BY <1>0, <1>3, <1>4, <3>1 DEF Follows, TypeOK, Sentinel, Node, NULL
    <3>3. ASSUME NEW i \in linked
          PROVE  /\ next[i] \in linked \cup {NULL}
                 /\ next[i] = NULL => \A d \in linked : d <= i
      BY <1>0 DEF WellLinked, Follows, TypeOK, NULL
    <3>4. ASSUME NEW i \in linked
          PROVE  /\ next'[i] \in scope'[c] \cup {NULL}
                 /\ next'[i] = NULL => \A d \in due'[c] : d <= i
      BY <1>1, <1>4, <3>3
    <3>5. linked' = linked /\ used' = used
      BY <1>1
    <3>6. cur'[c] # NULL /\ cur'[c] \in scope'[c]
      BY <1>4, <2>3, <3>1
    <3>7. linked' \subseteq scope'[c] /\ scope'[c] \subseteq 1 .. used'
      BY <1>4, <3>5
    <3>8. due'[c] \subseteq linked'
      BY <1>4, <3>5
    <3>9. \A d \in due'[c] : cur'[c] < d
      BY <1>4, <3>2
    <3>10. WalkClosed(c)'
      BY <1>4, <3>4, <3>6, <3>7, <3>8, <3>9 DEF WalkClosed
    <3> QED BY <2>3, <3>10
  <2> QED BY <2>1, <2>2, <2>3
<1> QED BY <1>2, <1>5, <1>6, <1>7 DEF IInv, ScopeClosed

\* Advance follows a forward pointer: into the scope of the walk, over nothing
\* that is due, and onto the list if the cursor is a registered one.
LEMMA AdvanceInv ==
  ASSUME IInv, NEW c \in Cursor, Advance(c)
  PROVE  IInv'
<1> USE MaxNodeAssumption
<1> DEFINE i == cur[c]
           n == next[i]
<1>0. /\ TypeOK /\ WellLinked /\ CountMatches
      /\ NextStepLive /\ ForwardOnly /\ ScopeClosed
      /\ WalkClosed(c)
  BY DEF IInv, ScopeClosed
<1>1. /\ UNCHANGED <<kind, next, prev, count, used, linked>>
      /\ cur' = [cur EXCEPT ![c] = n]
      /\ due' = [due EXCEPT ![c] = @ \ {n}]
      /\ scope' = [scope EXCEPT ![c] = IF n = NULL THEN {} ELSE @]
      /\ i # NULL
  BY DEF Advance
<1>2. WellLinked' /\ ForwardOnly' /\ CountMatches'
  BY <1>0, <1>1 DEF WellLinked, Follows, Precedes, ForwardOnly, CountMatches
<1>3. /\ i \in scope[c] /\ i \in 1 .. used
      /\ linked \subseteq scope[c] /\ scope[c] \subseteq 1 .. used
      /\ due[c] \subseteq linked
  BY <1>0, <1>1 DEF WalkClosed
<1>11. \A d \in due[c] : i < d
  BY <1>0, <1>1 DEF WalkClosed
<1>12. \A x \in scope[c] :
        /\ next[x] \in scope[c] \cup {NULL}
        /\ next[x] = NULL => \A d \in due[c] : d <= x
  BY <1>0, <1>1 DEF WalkClosed
<1>4. /\ linked \subseteq 1 .. used
      /\ used \in Nat
      /\ NULL \in Nat
  BY <1>0, Numbers DEF TypeOK
<1>13. n \in Node \cup {NULL}
  <2>1. next \in [Slot -> Node \cup {NULL}] /\ used \in 0 .. MaxNode
    BY <1>0 DEF TypeOK
  <2> QED BY <1>3, <2>1 DEF Slot, Sentinel
<1>14. ASSUME NEW d \in due[c] PROVE d \in Nat
  <2>1. d \in linked
    BY <1>3
  <2> QED BY <1>0, <2>1, Numbers
<1>15. i \in Nat /\ n \in Nat
  BY <1>0, <1>3, Numbers
<1>10. /\ cur'[c] = n
      /\ due'[c] = due[c] \ {n}
      /\ scope'[c] = IF n = NULL THEN {} ELSE scope[c]
  BY <1>0, <1>1 DEF TypeOK
<1>5. TypeOK'
  BY <1>0, <1>1, <1>4, <1>10, <1>13 DEF TypeOK
<1>6. /\ i < n
      /\ n # NULL => \A j \in linked : j <= i \/ n <= j
  BY <1>0, <1>3 DEF ForwardOnly
<1>7. NextStepLive'
  <2> SUFFICES ASSUME NEW k \in Registered, cur'[k] # NULL
               PROVE  next[cur'[k]] \in linked \cup {NULL}
    BY <1>1 DEF NextStepLive
  <2>1. CASE k # c
    BY <1>0, <1>1, <2>1 DEF NextStepLive, TypeOK, Cursor
  <2>2. CASE k = c
    <3>1. n \in linked
      BY <1>0, <1>1, <1>10, <2>2 DEF NextStepLive
    <3> QED BY <1>0, <1>10, <2>2, <3>1 DEF WellLinked, Follows
  <2> QED BY <2>1, <2>2
<1>8. ASSUME NEW k \in Cursor PROVE WalkClosed(k)'
  <2>1. CASE k # c
    <3>1. cur'[k] = cur[k] /\ due'[k] = due[k] /\ scope'[k] = scope[k]
      BY <1>0, <1>1, <2>1 DEF TypeOK
    <3> QED BY <1>0, <1>1, <3>1 DEF ScopeClosed, WalkClosed
  <2>2. CASE k = c /\ n = NULL
    <3>1. \A d \in due[c] : d <= i /\ i < d
      BY <1>3, <1>11, <1>12, <2>2
    <3>2. due[c] = {}
      <4> SUFFICES ASSUME NEW d \in due[c] PROVE FALSE
        OBVIOUS
      <4>1. d \in Nat /\ i \in Nat
        BY <1>14, <1>15
      <4> QED BY <3>1, <4>1
    <3>3. WalkClosed(c)'
      BY <1>10, <2>2, <3>2 DEF WalkClosed
    <3> QED BY <2>2, <3>3
  <2>3. CASE k = c /\ n # NULL
    <3>1. \A d \in due[c] \ {n} : n < d
      <4> SUFFICES ASSUME NEW d \in due[c], d # n PROVE n < d
        OBVIOUS
      <4>1. d \in linked /\ d \in Nat /\ i \in Nat /\ n \in Nat /\ i < d
        BY <1>3, <1>11, <1>14, <1>15
      <4>2. d <= i \/ n <= d
        BY <1>6, <2>3, <4>1
      <4> QED BY <4>1, <4>2
    <3>2. /\ cur'[c] # NULL /\ cur'[c] \in scope'[c]
          /\ \A d \in due'[c] : cur'[c] < d
      <4>1. n \in scope[c]
        BY <1>3, <1>12, <2>3
      <4> QED BY <1>10, <2>3, <3>1, <4>1
    <3>3. linked' = linked /\ used' = used /\ next' = next
      BY <1>1
    <3>4. /\ linked' \subseteq scope'[c] /\ scope'[c] \subseteq 1 .. used'
          /\ due'[c] \subseteq linked'
      BY <1>3, <1>10, <2>3, <3>3
    <3>5. \A x \in scope'[c] :
             /\ next'[x] \in scope'[c] \cup {NULL}
             /\ next'[x] = NULL => \A d \in due'[c] : d <= x
      BY <1>12, <1>10, <2>3, <3>3
    <3>6. WalkClosed(c)'
      BY <3>2, <3>4, <3>5 DEF WalkClosed
    <3> QED BY <2>3, <3>6
  <2> QED BY <2>1, <2>2, <2>3
<1> QED BY <1>2, <1>5, <1>7, <1>8 DEF IInv, ScopeClosed

\* Abandon forgets a walk.
LEMMA AbandonInv ==
  ASSUME IInv, NEW c \in Cursor, Abandon(c)
  PROVE  IInv'
<1>0. /\ TypeOK /\ WellLinked /\ CountMatches
      /\ NextStepLive /\ ForwardOnly /\ ScopeClosed
  BY DEF IInv
<1>1. /\ UNCHANGED <<kind, next, prev, count, used, linked>>
      /\ cur' = [cur EXCEPT ![c] = NULL]
      /\ due' = [due EXCEPT ![c] = {}]
      /\ scope' = [scope EXCEPT ![c] = {}]
  BY DEF Abandon
<1>2. WellLinked' /\ ForwardOnly' /\ CountMatches'
  BY <1>0, <1>1 DEF WellLinked, Follows, Precedes, ForwardOnly, CountMatches
<1>3. TypeOK'
  BY <1>0, <1>1 DEF TypeOK
<1>4. NextStepLive'
  BY <1>0, <1>1 DEF NextStepLive, TypeOK, Cursor
<1>5. ASSUME NEW k \in Cursor PROVE WalkClosed(k)'
  <2>1. CASE k # c
    <3>1. cur'[k] = cur[k] /\ due'[k] = due[k] /\ scope'[k] = scope[k]
      BY <1>0, <1>1, <2>1 DEF TypeOK
    <3> QED BY <1>0, <1>1, <3>1 DEF ScopeClosed, WalkClosed
  <2>2. CASE k = c
    BY <1>0, <1>1, <2>2 DEF TypeOK, WalkClosed
  <2> QED BY <2>1, <2>2
<1> QED BY <1>2, <1>3, <1>4, <1>5 DEF IInv, ScopeClosed

\* On a well linked list the last node is the greatest of those on it.
LEMMA LastNode ==
  ASSUME TypeOK, WellLinked
  PROVE  /\ prev[Sentinel] \in linked \cup {Sentinel}
         /\ prev[Sentinel] <= used
         /\ \A j \in linked : j <= prev[Sentinel]
         /\ \A i \in linked \cup {Sentinel} :
              i # prev[Sentinel] => i < prev[Sentinel] /\ next[i] \in linked
<1> DEFINE t == prev[Sentinel]
<1>1. Precedes(t, NULL)
  BY DEF WellLinked
<1>2. t \in linked \cup {Sentinel}
  BY <1>1 DEF Precedes
<1>3. \A j \in linked : j <= t
  BY <1>1, Numbers DEF Precedes
<1>4. t <= used /\ t \in Nat
  BY <1>2, Numbers
<1>5. ASSUME NEW i \in linked \cup {Sentinel}, i # t
      PROVE  i < t /\ next[i] \in linked
  <2>1. i \in Nat
    BY Numbers
  <2>2. i <= t
    BY <1>3, <1>4, Numbers
  <2>3. i < t /\ t \in linked
    BY <1>2, <1>4, <1>5, <2>1, <2>2, Numbers
  <2>4. Follows(i, next[i])
    BY DEF WellLinked
  <2>5. next[i] <= t
    BY <1>4, <2>1, <2>3, <2>4, Numbers DEF Follows
  <2>6. next[i] # NULL
    BY <1>4, <2>3, <2>5, Numbers
  <2> QED BY <2>3, <2>4, <2>6 DEF Follows
<1> QED BY <1>2, <1>3, <1>4, <1>5

\* The list is finite, so that it has a length.
LEMMA LinkedFinite ==
  ASSUME TypeOK
  PROVE  IsFiniteSet(linked)
<1>1. linked \subseteq 1 .. used /\ used \in Nat
  BY Numbers DEF TypeOK
<1>2. IsFiniteSet(1 .. used)
  BY <1>1, FS_Interval
<1> QED BY <1>1, <1>2, FS_Subset

\* add_inst changes two next pointers and two prev pointers.
LEMMA AddInstEffect ==
  ASSUME TypeOK, WellLinked, AddInst
  PROVE  /\ used + 1 \in Node /\ used' = used + 1
         /\ linked' = linked \cup {used + 1}
         /\ \A x \in Slot : next'[x] = IF x = used + 1 THEN NULL
                                      ELSE IF x = prev[Sentinel] THEN used + 1
                                      ELSE next[x]
         /\ \A x \in Slot : prev'[x] = IF x = Sentinel THEN used + 1
                                      ELSE IF x = used + 1 THEN prev[Sentinel]
                                      ELSE prev[x]
         /\ next' \in [Slot -> Node \cup {NULL}]
         /\ prev' \in [Slot -> Slot]
<1> DEFINE a == used + 1
           t == prev[Sentinel]
<1>1. /\ used < MaxNode /\ used' = a /\ linked' = linked \cup {a}
      /\ next' = [next EXCEPT ![t] = a, ![a] = NULL]
      /\ prev' = [prev EXCEPT ![a] = t, ![Sentinel] = a]
  BY DEF AddInst
<1>2. a \in Node /\ a \in Slot /\ a # Sentinel
  BY <1>1, Numbers, MaxNodeAssumption DEF Node, Slot
<1>3. t \in Slot /\ Sentinel \in Slot
  BY Numbers
<1>4. next \in [Slot -> Node \cup {NULL}] /\ prev \in [Slot -> Slot]
  BY DEF TypeOK
<1>5. next' \in [Slot -> Node \cup {NULL}] /\ prev' \in [Slot -> Slot]
  BY <1>1, <1>2, <1>3, <1>4
<1>6. \A x \in Slot : next'[x] = IF x = a THEN NULL ELSE IF x = t THEN a ELSE next[x]
  BY <1>1, <1>3, <1>4
<1>7. \A x \in Slot : prev'[x] = IF x = Sentinel THEN a
                                 ELSE IF x = a THEN t ELSE prev[x]
  BY <1>1, <1>2, <1>4
<1> QED BY <1>1, <1>2, <1>5, <1>6, <1>7

\* Appending a node preserves the invariant.
LEMMA AddInstInv ==
  ASSUME IInv, AddInst
  PROVE  IInv'
<1> DEFINE a == used + 1
           t == prev[Sentinel]
<1>0. /\ TypeOK /\ WellLinked /\ CountMatches
      /\ NextStepLive /\ ForwardOnly /\ ScopeClosed
  BY DEF IInv
<1>1. /\ UNCHANGED <<kind, cur, due>>
      /\ count' = IF kind = "object" THEN count + 1 ELSE count
      /\ scope' = [c \in Cursor |-> IF cur[c] = NULL THEN {} ELSE scope[c] \cup {a}]
  BY DEF AddInst
<1>2. /\ a \in Node /\ used' = a /\ linked' = linked \cup {a}
      /\ next' \in [Slot -> Node \cup {NULL}] /\ prev' \in [Slot -> Slot]
  BY <1>0, AddInstEffect
<1>3. \A x \in Slot : next'[x] = IF x = a THEN NULL ELSE IF x = t THEN a ELSE next[x]
  BY <1>0, AddInstEffect
<1>4. \A x \in Slot : prev'[x] = IF x = Sentinel THEN a ELSE IF x = a THEN t ELSE prev[x]
  BY <1>0, AddInstEffect
<1>5. /\ t \in linked \cup {Sentinel} /\ t <= used /\ t \in Nat /\ t \in Slot
      /\ \A j \in linked : j <= t
      /\ \A i \in linked \cup {Sentinel} : i # t => i < t /\ next[i] \in linked
  BY <1>0, LastNode, Numbers
<1>6. /\ a \in Nat /\ a \in Slot /\ a # Sentinel /\ used < a /\ a < NULL /\ used \in Nat
      /\ \A j \in linked : j \in Nat /\ j < a /\ j # a /\ j \in Slot /\ j # Sentinel
  BY <1>0, <1>2, Numbers, MaxNodeAssumption DEF Node, Slot
<1>7. TypeOK'
  <2>1. /\ kind' \in {"event", "object"} /\ count' \in Nat /\ used' \in 0 .. MaxNode
        /\ cur' \in [Cursor -> Node \cup {NULL}] /\ due' \in [Cursor -> SUBSET Node]
    BY <1>0, <1>1, <1>2, <1>6 DEF TypeOK, Node
  <2>2. scope' \in [Cursor -> SUBSET Node]
    BY <1>0, <1>1, <1>2 DEF TypeOK
  <2>3. linked' \subseteq 1 .. used'
    <3>1. linked \subseteq 1 .. used
      BY <1>0 DEF TypeOK
    <3> QED BY <1>2, <1>6, <3>1
  <2> QED BY <1>2, <2>1, <2>2, <2>3 DEF TypeOK
<1>8. WellLinked'
  <2>1. ASSUME NEW i \in linked' \cup {Sentinel} PROVE Follows(i, next[i])'
    <3>1. CASE i = a
      <4>1. next'[i] = NULL
        BY <1>3, <1>6, <3>1
      <4> QED BY <1>2, <1>6, <3>1, <4>1 DEF Follows
    <3>2. CASE i # a /\ i = t
      <4>1. next'[i] = a
        BY <1>3, <1>5, <3>2
      <4> QED BY <1>2, <1>5, <1>6, <3>2, <4>1 DEF Follows
    <3>3. CASE i # a /\ i # t
      <4>1. i \in linked \cup {Sentinel} /\ i \in Slot
        BY <1>0, <1>2, <1>6, <3>3, Numbers
      <4>2. next'[i] = next[i] /\ next[i] \in linked
        BY <1>3, <1>5, <3>3, <4>1
      <4>3. Follows(i, next[i])
        BY <1>0, <4>1 DEF WellLinked
      <4> QED BY <1>2, <1>6, <4>2, <4>3 DEF Follows
    <3> QED BY <3>1, <3>2, <3>3
  <2>2. ASSUME NEW i \in linked' PROVE Precedes(prev[i], i)'
    <3>1. CASE i = a
      <4>1. prev'[i] = t
        BY <1>4, <1>6, <3>1
      <4> QED BY <1>2, <1>5, <1>6, <3>1, <4>1 DEF Precedes
    <3>2. CASE i # a
      <4>1. i \in linked /\ prev'[i] = prev[i] /\ i < a /\ i \in Nat
        BY <1>2, <1>4, <1>6, <3>2
      <4>2. Precedes(prev[i], i)
        BY <1>0, <4>1 DEF WellLinked
      <4> QED BY <1>2, <1>6, <4>1, <4>2 DEF Precedes
    <3> QED BY <3>1, <3>2
  <2>3. Precedes(prev[Sentinel], NULL)'
    <3>1. prev'[Sentinel] = a
      BY <1>0, <1>4, Numbers
    <3> QED BY <1>2, <1>6, <3>1 DEF Precedes
  <2> QED BY <2>1, <2>2, <2>3 DEF WellLinked
<1>9. ASSUME NEW c \in Cursor, cur[c] # NULL
      PROVE  cur[c] \in 1 .. used /\ cur[c] \in Slot /\ cur[c] # a
  <2>1. cur[c] \in 1 .. used
    BY <1>0, <1>9 DEF ScopeClosed, WalkClosed
  <2> QED BY <1>0, <1>6, <2>1, Numbers
<1>10. NextStepLive'
  <2> SUFFICES ASSUME NEW c \in Registered, cur[c] # NULL
               PROVE  next'[cur[c]] \in linked' \cup {NULL}
    BY <1>1 DEF NextStepLive
  <2>1. next[cur[c]] \in linked \cup {NULL}
    BY <1>0 DEF NextStepLive
  <2> QED BY <1>2, <1>3, <1>9, <2>1 DEF Cursor
<1>11. ForwardOnly'
  <2> SUFFICES ASSUME NEW i \in 1 .. used'
               PROVE  /\ i < next'[i]
                      /\ next'[i] \in 1 .. used' \cup {NULL}
                      /\ next'[i] # NULL => \A j \in linked' : j <= i \/ next'[i] <= j
    BY DEF ForwardOnly
  <2>1. i \in Nat /\ i \in Slot /\ (i = a \/ i \in 1 .. used)
    BY <1>0, <1>2, <1>6, Numbers
  <2>2. CASE i = a
    BY <1>3, <1>6, <2>1, <2>2
  <2>3. CASE i # a /\ i = t
    <3>1. next'[i] = a
      BY <1>3, <2>1, <2>3
    <3> QED BY <1>2, <1>5, <1>6, <2>3, <3>1
  <2>4. CASE i # a /\ i # t
    <3>1. next'[i] = next[i]
      BY <1>3, <2>1, <2>4
    <3>2. /\ i < next[i] /\ next[i] \in 1 .. used \cup {NULL}
          /\ next[i] # NULL => \A j \in linked : j <= i \/ next[i] <= j
      BY <1>0, <2>1, <2>4 DEF ForwardOnly
    <3>3. next[i] # NULL => next[i] <= a /\ next[i] \in 1 .. used'
      BY <1>2, <1>6, <3>2
    <3> QED BY <1>2, <3>1, <3>2, <3>3
  <2> QED BY <2>1, <2>2, <2>3, <2>4
<1>12. ASSUME NEW c \in Cursor PROVE WalkClosed(c)'
  <2>1. WalkClosed(c) /\ cur'[c] = cur[c] /\ due'[c] = due[c]
    BY <1>0, <1>1 DEF ScopeClosed
  <2>2. CASE cur[c] = NULL
    BY <1>1, <2>1, <2>2 DEF WalkClosed
  <2>3. CASE cur[c] # NULL
    <3>1. scope'[c] = scope[c] \cup {a}
      BY <1>1, <2>3
    <3>2. /\ cur[c] \in scope[c] /\ linked \subseteq scope[c]
          /\ scope[c] \subseteq 1 .. used /\ due[c] \subseteq linked
      BY <2>1, <2>3 DEF WalkClosed
    <3>3. \A d \in due[c] : cur[c] < d
      BY <2>1, <2>3 DEF WalkClosed
    <3>4. scope'[c] \subseteq 1 .. used'
      BY <1>2, <1>6, <3>1, <3>2
    <3>5. ASSUME NEW x \in scope'[c]
          PROVE  /\ next'[x] \in scope'[c] \cup {NULL}
                 /\ next'[x] = NULL => \A d \in due[c] : d <= x
      <4>1. CASE x = a
        BY <1>3, <1>6, <3>2, <4>1
      <4>2. CASE x # a
        <5>1. x \in scope[c] /\ x \in Slot
          BY <1>0, <3>1, <3>2, <4>2, Numbers
        <5>2. /\ next[x] \in scope[c] \cup {NULL}
              /\ next[x] = NULL => \A d \in due[c] : d <= x
          BY <2>1, <2>3, <5>1 DEF WalkClosed
        <5>3. next'[x] = IF x = t THEN a ELSE next[x]
          BY <1>3, <4>2, <5>1
        <5> QED BY <1>6, <3>1, <5>2, <5>3
      <4> QED BY <4>1, <4>2
    <3>6. /\ cur'[c] \in scope'[c] /\ linked' \subseteq scope'[c]
          /\ due'[c] \subseteq linked'
      BY <1>2, <2>1, <3>1, <3>2
    <3>7. \A x \in scope'[c] :
             /\ next'[x] \in scope'[c] \cup {NULL}
             /\ next'[x] = NULL => \A d \in due'[c] : d <= x
      BY <2>1, <3>5
    <3>8. \A d \in due'[c] : cur'[c] < d
      BY <2>1, <3>3
    <3>9. cur'[c] # NULL
      BY <2>1, <2>3
    <3> QED BY <3>4, <3>6, <3>7, <3>8, <3>9 DEF WalkClosed
  <2> QED BY <2>2, <2>3
<1>13. CountMatches'
  <2>1. IsFiniteSet(linked) /\ a \notin linked
    BY <1>0, <1>6, LinkedFinite
  <2>2. Cardinality(linked') = Cardinality(linked) + 1
    BY <1>2, <2>1, FS_AddElement
  <2> QED BY <1>0, <1>1, <2>2 DEF CountMatches
<1> QED BY <1>7, <1>8, <1>10, <1>11, <1>12, <1>13 DEF IInv, ScopeClosed

\* Unlinking w joins its neighbours, and moves a registered iterator's pointer
\* off w; every other pointer that starts on the list is left alone.  (The test
\* next == which of event_iter::unlink never succeeds: by then the sentinel's
\* next is w's.)
LEMMA UnlinkEffect ==
  ASSUME TypeOK, WellLinked, NEW w \in linked, Unlink(w)
  PROVE  /\ prev[w] \in linked \cup {Sentinel} /\ prev[w] \in Slot /\ prev[w] < w
         /\ next[w] \in linked \cup {NULL} /\ w < next[w]
         /\ \A j \in linked : j # w => j <= prev[w] \/ next[w] <= j
         /\ linked' = linked \ {w}
         /\ next' \in [Slot -> Node \cup {NULL}]
         /\ prev' \in [Slot -> Slot]
         /\ \A x \in Slot : next'[x] = IF x = prev[w] \/ (x \in Watched /\ next[x] = w)
                                      THEN next[w] ELSE next[x]
         /\ \A x \in linked' : prev'[x] = IF x = next[w] THEN prev[w] ELSE prev[x]
         /\ prev'[Sentinel] = IF next[w] = NULL THEN prev[w] ELSE prev[Sentinel]
<1> DEFINE p == prev[w]
           q == next[w]
<1>1. Precedes(p, w) /\ Follows(w, q)
  BY DEF WellLinked
<1>2. /\ p \in linked \cup {Sentinel} /\ p < w /\ \A j \in linked : j <= p \/ w <= j
      /\ q \in linked \cup {NULL} /\ w < q /\ \A j \in linked : j <= w \/ q <= j
  BY <1>1 DEF Precedes, Follows
<1>3. w \in Slot /\ w \in Nat /\ w # Sentinel /\ p \in Slot /\ p \in Nat /\ q \in Nat
  BY Numbers
<1>4. \A j \in linked : j # w => j <= p \/ q <= j
  BY <1>2, <1>3, Numbers
<1>5. next \in [Slot -> Node \cup {NULL}] /\ prev \in [Slot -> Slot]
  BY DEF TypeOK
<1>6. /\ linked' = linked \ {w}
      /\ next' = RepairedNext(SplicedNext(w), w)
      /\ prev' = RepairedPrev(SplicedNext(w), SplicedPrev(w), w)
  BY DEF Unlink
<1>7. SplicedNext(w) = [next EXCEPT ![p] = q]
  <2>1. next[Sentinel] = w => p = Sentinel
    <3> SUFFICES ASSUME next[Sentinel] = w, p \in linked PROVE FALSE
      BY <1>2
    <3>1. Follows(Sentinel, w)
      BY DEF WellLinked
    <3>2. p <= Sentinel \/ w <= p
      BY <3>1 DEF Follows
    <3> QED BY <1>2, <1>3, <3>2, Numbers
  <2> QED BY <2>1 DEF SplicedNext
<1> DEFINE n == [next EXCEPT ![p] = q]
<1>8. \A x \in Slot : n[x] = IF x = p THEN q ELSE next[x]
  BY <1>5
<1>9. q \in Node \cup {NULL} /\ q # w /\ p # w
  BY <1>2, <1>3, Numbers
<1>10. n[w] = q
  BY <1>3, <1>8, <1>9
<1>11. next' = [x \in Slot |-> IF x \in Watched /\ n[x] = w THEN q ELSE n[x]]
  BY <1>6, <1>7, <1>10 DEF RepairedNext
<1>12. \A x \in Slot : next'[x] = IF x = p \/ (x \in Watched /\ next[x] = w)
                                  THEN q ELSE next[x]
  BY <1>8, <1>9, <1>11
<1>13. next' \in [Slot -> Node \cup {NULL}]
  <2>1. \A x \in Slot : n[x] \in Node \cup {NULL}
    BY <1>5, <1>8, <1>9
  <2> QED BY <1>9, <1>11, <2>1
<1> DEFINE m == IF q # NULL THEN [prev EXCEPT ![q] = p] ELSE prev
           s == SplicedPrev(w)
<1>14. q # NULL => q \in Slot /\ q # Sentinel
  BY <1>2, Numbers
<1>15. s = IF m[Sentinel] = w THEN [m EXCEPT ![Sentinel] = p] ELSE m
  BY DEF SplicedPrev
<1>16. m \in [Slot -> Slot] /\ s \in [Slot -> Slot]
  BY <1>3, <1>5, <1>15, Numbers
<1>17. \A x \in Slot : x # Sentinel => s[x] = IF x = q /\ q # NULL THEN p ELSE prev[x]
  BY <1>5, <1>14, <1>15, <1>16
<1>18. s[Sentinel] = IF q = NULL THEN p ELSE prev[Sentinel]
  <2>1. m[Sentinel] = prev[Sentinel]
    BY <1>5, <1>14, Numbers
  <2>2. prev[Sentinel] \in linked \cup {Sentinel} /\ w <= prev[Sentinel] /\ prev[Sentinel] \in Nat
    BY LastNode, Numbers
  <2>3. (prev[Sentinel] = w) <=> (q = NULL)
    <3>1. ASSUME q = NULL PROVE prev[Sentinel] = w
      <4>1. w # prev[Sentinel] => next[w] \in linked
        BY LastNode
      <4> QED BY <3>1, <4>1, Numbers
    <3>2. ASSUME prev[Sentinel] = w, q # NULL PROVE FALSE
      BY <1>2, <1>3, <3>2, LastNode, Numbers
    <3> QED BY <3>1, <3>2
  <2> QED BY <1>15, <1>16, <2>1, <2>3, Numbers
<1>19. prev' = [x \in Slot |-> IF x \in Watched /\ n[x] # w /\ s[x] = w
                              THEN s[w] ELSE s[x]]
  BY <1>6, <1>7 DEF RepairedPrev
<1>20. prev' \in [Slot -> Slot]
  BY <1>3, <1>16, <1>19
<1>21. ASSUME NEW x \in linked, x # w
       PROVE  prev'[x] = IF x = q THEN p ELSE prev[x]
  <2>1. x \in Slot /\ x # Sentinel /\ x \in Nat /\ x # NULL
    BY Numbers
  <2>2. s[x] = IF x = q THEN p ELSE prev[x]
    BY <1>17, <2>1
  <2>3. x # q => prev[x] # w
    <3> SUFFICES ASSUME x # q, prev[x] = w PROVE FALSE
      OBVIOUS
    <3>1. Precedes(w, x)
      BY DEF WellLinked
    <3>2. w < x /\ (q \in linked => q <= w \/ x <= q)
      BY <3>1 DEF Precedes
    <3>3. q <= x
      BY <1>2, <1>3, <2>1, <3>2
    <3> QED BY <1>2, <1>3, <2>1, <3>2, <3>3, Numbers
  <2>4. s[x] # w
    BY <1>9, <2>2, <2>3
  <2> QED BY <1>19, <2>1, <2>2, <2>4
<1>22. prev'[Sentinel] = IF q = NULL THEN p ELSE prev[Sentinel]
  <2>1. s[Sentinel] # w
    BY <1>2, <1>3, <1>9, <1>18, LastNode, Numbers
  <2> QED BY <1>18, <1>19, <2>1, Numbers
<1> QED BY <1>2, <1>3, <1>4, <1>6, <1>12, <1>13, <1>20, <1>21, <1>22

\* Unlinking a node preserves the invariant.
LEMMA UnlinkInv ==
  ASSUME IInv, NEW w \in linked, Unlink(w)
  PROVE  IInv'
<1> DEFINE p == prev[w]
           q == next[w]
<1>0. /\ TypeOK /\ WellLinked /\ CountMatches
      /\ NextStepLive /\ ForwardOnly /\ ScopeClosed
  BY DEF IInv
<1>1. /\ UNCHANGED <<kind, used, cur, scope>>
      /\ count' = CountAfterUnlink
      /\ due' = [c \in Cursor |-> due[c] \ {w}]
      /\ linked' = linked \ {w}
  BY DEF Unlink
<1>2. /\ p \in linked \cup {Sentinel} /\ p \in Slot /\ p < w
      /\ q \in linked \cup {NULL} /\ w < q
      /\ \A j \in linked : j # w => j <= p \/ q <= j
  BY <1>0, UnlinkEffect
<1>3. next' \in [Slot -> Node \cup {NULL}] /\ prev' \in [Slot -> Slot]
  BY <1>0, UnlinkEffect
<1>4. \A x \in Slot : next'[x] = IF x = p \/ (x \in Watched /\ next[x] = w)
                                 THEN q ELSE next[x]
  BY <1>0, UnlinkEffect
<1>5. /\ \A x \in linked' : prev'[x] = IF x = q THEN p ELSE prev[x]
      /\ prev'[Sentinel] = IF q = NULL THEN p ELSE prev[Sentinel]
  BY <1>0, UnlinkEffect
<1>6. /\ w \in Nat /\ w \in Slot /\ p \in Nat /\ q \in Nat /\ p # w /\ q # w
      /\ w \in 1 .. used /\ w # NULL
      /\ \A j \in linked : j \in Nat /\ j \in Slot /\ j # NULL /\ j # Sentinel
  <2>1. linked \subseteq 1 .. used
    BY <1>0 DEF TypeOK
  <2> QED BY <1>0, <1>2, <2>1, Numbers
<1>8. WellLinked'
  <2>1. ASSUME NEW i \in linked' \cup {Sentinel} PROVE Follows(i, next[i])'
    <3>1. /\ i \in linked \cup {Sentinel} /\ i # w /\ i \in Slot /\ i \in Nat
          /\ Follows(i, next[i])
      BY <1>0, <1>1, <1>6, Numbers DEF WellLinked
    <3>2. CASE next'[i] = next[i] /\ next[i] # w
      BY <1>1, <3>1, <3>2 DEF Follows
    <3>3. CASE i = p \/ next[i] = w
      <4>1. i = p
        <5> SUFFICES ASSUME next[i] = w PROVE i = p
          BY <3>3
        <5>1. i < w /\ (p \in linked => p <= i \/ w <= p)
          BY <3>1 DEF Follows
        <5>2. i \in linked => i <= p \/ q <= i
          BY <1>2, <3>1
        <5> QED BY <1>0, <1>2, <1>6, <3>1, <5>1, <5>2, Numbers
      <4>2. next'[i] = q /\ i < q
        BY <1>2, <1>4, <1>6, <3>1, <4>1
      <4>3. q \in linked' \cup {NULL}
        BY <1>1, <1>2, <1>6
      <4>4. \A j \in linked' : j <= i \/ q <= j
        BY <1>1, <1>2, <4>1
      <4> QED BY <4>2, <4>3, <4>4 DEF Follows
    <3> QED BY <1>4, <3>1, <3>2, <3>3
  <2>2. ASSUME NEW i \in linked' PROVE Precedes(prev[i], i)'
    <3>1. i \in linked /\ i # w /\ i \in Nat /\ Precedes(prev[i], i)
      BY <1>0, <1>1, <1>6 DEF WellLinked
    <3>2. CASE i = q
      <4>1. prev'[i] = p /\ p < i
        BY <1>2, <1>5, <1>6, <3>2
      <4>2. \A j \in linked' : j <= p \/ i <= j
        BY <1>1, <1>2, <3>2
      <4> QED BY <1>1, <1>2, <1>6, <4>1, <4>2 DEF Precedes
    <3>3. CASE i # q
      <4>1. prev'[i] = prev[i]
        BY <1>5, <3>3
      <4>2. prev[i] # w
        <5> SUFFICES ASSUME prev[i] = w PROVE FALSE
          OBVIOUS
        <5>1. w < i /\ (q \in linked => q <= w \/ i <= q)
          BY <3>1 DEF Precedes
        <5>2. q <= i
          BY <1>2, <1>6, <3>1, <5>1
        <5> QED BY <1>0, <1>2, <1>6, <3>1, <3>3, <5>1, <5>2, Numbers
      <4> QED BY <1>1, <3>1, <4>1, <4>2 DEF Precedes
    <3> QED BY <3>2, <3>3
  <2>3. Precedes(prev[Sentinel], NULL)'
    <3>1. Precedes(prev[Sentinel], NULL) /\ \A j \in linked : j < NULL
      BY <1>0, <1>6, Numbers DEF WellLinked
    <3>2. CASE q = NULL
      <4>1. prev'[Sentinel] = p /\ p < NULL
        BY <1>2, <1>5, <1>6, <3>2, Numbers
      <4>2. \A j \in linked' : j <= p \/ NULL <= j
        BY <1>1, <1>2, <3>2
      <4> QED BY <1>1, <1>2, <1>6, <4>1, <4>2 DEF Precedes
    <3>3. CASE q # NULL
      <4>1. q \in linked /\ prev'[Sentinel] = prev[Sentinel]
        BY <1>2, <1>5, <3>3
      <4>2. prev[Sentinel] # w
        BY <1>0, <1>2, <1>6, <4>1, LastNode
      <4> QED BY <1>1, <3>1, <4>1, <4>2 DEF Precedes
    <3> QED BY <3>2, <3>3
  <2> QED BY <2>1, <2>2, <2>3 DEF WellLinked
<1>9. NextStepLive'
  <2> SUFFICES ASSUME NEW c \in Registered, cur[c] # NULL
               PROVE  next'[cur[c]] \in linked' \cup {NULL}
    BY <1>1 DEF NextStepLive
  <2>1. next[cur[c]] \in linked \cup {NULL} /\ cur[c] \in Watched
    BY <1>0 DEF NextStepLive, Watched
  <2>2. cur[c] \in 1 .. used
    BY <1>0 DEF ScopeClosed, WalkClosed, Cursor
  <2>3. cur[c] \in Slot
    BY <1>0, <2>2, Numbers
  <2> QED BY <1>1, <1>2, <1>4, <1>6, <2>1, <2>3
<1>10. ForwardOnly'
  <2> SUFFICES ASSUME NEW i \in 1 .. used
               PROVE  /\ i < next'[i]
                      /\ next'[i] \in 1 .. used \cup {NULL}
                      /\ next'[i] # NULL => \A j \in linked' : j <= i \/ next'[i] <= j
    BY <1>1 DEF ForwardOnly
  <2>1. /\ i < next[i] /\ next[i] \in 1 .. used \cup {NULL}
        /\ next[i] # NULL => \A j \in linked : j <= i \/ next[i] <= j
    BY <1>0 DEF ForwardOnly
  <2>2. i \in Nat /\ i \in Slot
    BY <1>0, Numbers
  <2>3. q \in 1 .. used \cup {NULL}
    BY <1>0, <1>2 DEF TypeOK
  <2>4. CASE next'[i] = next[i]
    BY <1>1, <2>1, <2>4
  <2>5. CASE next'[i] = q /\ (i = p \/ next[i] = w)
    <3>1. i < w
      BY <1>2, <2>1, <2>5
    <3>2. i < q
      BY <1>2, <1>6, <2>2, <3>1
    <3>3. \A j \in linked' : j <= i \/ q <= j
      <4> SUFFICES ASSUME NEW j \in linked, j # w PROVE j <= i \/ q <= j
        BY <1>1
      <4>1. j <= p \/ q <= j
        BY <1>2
      <4>2. i = p \/ j <= i \/ w <= j
        BY <1>6, <2>1, <2>5
      <4> QED BY <1>2, <1>6, <2>2, <4>1, <4>2
    <3> QED BY <2>3, <2>5, <3>2, <3>3
  <2> QED BY <1>4, <2>2, <2>4, <2>5
<1>11. ASSUME NEW c \in Cursor PROVE WalkClosed(c)'
  <2>1. /\ WalkClosed(c) /\ cur'[c] = cur[c] /\ scope'[c] = scope[c]
        /\ due'[c] = due[c] \ {w} /\ used' = used
    BY <1>0, <1>1 DEF ScopeClosed
  <2>2. CASE cur[c] = NULL
    BY <2>1, <2>2 DEF WalkClosed
  <2>3. CASE cur[c] # NULL
    <3>1. /\ cur[c] \in scope[c] /\ linked \subseteq scope[c]
          /\ scope[c] \subseteq 1 .. used /\ due[c] \subseteq linked
      BY <2>1, <2>3 DEF WalkClosed
    <3>2. \A d \in due[c] : cur[c] < d
      BY <2>1, <2>3 DEF WalkClosed
    <3>3. \A x \in scope[c] :
             /\ next[x] \in scope[c] \cup {NULL}
             /\ next[x] = NULL => \A d \in due[c] : d <= x
      BY <2>1, <2>3 DEF WalkClosed
    <3>4. q \in scope[c] \cup {NULL} /\ w \in scope[c]
      BY <1>2, <3>1
    <3>5. ASSUME NEW x \in scope[c]
          PROVE  /\ next'[x] \in scope[c] \cup {NULL}
                 /\ next'[x] = NULL => \A d \in due'[c] : d <= x
      <4>1. x \in 1 .. used /\ x \in Slot /\ x \in Nat
        BY <1>0, <3>1, Numbers
      <4>2. CASE next'[x] = next[x]
        BY <2>1, <3>3, <4>2
      <4>3. CASE next'[x] = q /\ (x = p \/ next[x] = w)
        <5> SUFFICES ASSUME q = NULL, NEW d \in due[c], d # w PROVE d <= x
          BY <2>1, <3>4, <4>3
        <5>1. d <= w /\ d \in linked /\ d \in Nat
          BY <1>6, <3>1, <3>3, <3>4
        <5>2. d <= p
          BY <1>2, <1>6, <5>1
        <5>3. next[x] = w => d <= x \/ w <= d
          BY <1>0, <1>6, <4>1, <5>1 DEF ForwardOnly
        <5> QED BY <1>6, <4>1, <4>3, <5>1, <5>2, <5>3
      <4> QED BY <1>4, <4>1, <4>2, <4>3
    <3>6. /\ cur'[c] \in scope'[c] /\ linked' \subseteq scope'[c]
          /\ scope'[c] \subseteq 1 .. used' /\ due'[c] \subseteq linked'
      BY <1>1, <2>1, <3>1
    <3>7. \A x \in scope'[c] :
             /\ next'[x] \in scope'[c] \cup {NULL}
             /\ next'[x] = NULL => \A d \in due'[c] : d <= x
      BY <2>1, <3>5
    <3>8. \A d \in due'[c] : cur'[c] < d
      BY <2>1, <3>2
    <3>9. cur'[c] # NULL
      BY <2>1, <2>3
    <3> QED BY <3>6, <3>7, <3>8, <3>9 DEF WalkClosed
  <2> QED BY <2>2, <2>3
<1>12. CountMatches' /\ count' \in Nat
  <2>1. IsFiniteSet(linked)
    BY <1>0, LinkedFinite
  <2>2. Cardinality(linked') = Cardinality(linked) - 1 /\ IsFiniteSet(linked')
    BY <1>1, <2>1, FS_RemoveElement
  <2>3. Cardinality(linked') \in Nat
    BY <2>2, FS_CardinalityType
  <2>4. count \in Nat /\ (kind = "object" => count = Cardinality(linked))
    BY <1>0 DEF TypeOK, CountMatches
  <2> QED BY <1>1, <2>2, <2>3, <2>4 DEF CountMatches, CountAfterUnlink
<1>13. TypeOK'
  <2>1. /\ kind' \in {"event", "object"} /\ used' \in 0 .. MaxNode
        /\ cur' \in [Cursor -> Node \cup {NULL}] /\ scope' \in [Cursor -> SUBSET Node]
    BY <1>0, <1>1 DEF TypeOK
  <2>2. due' \in [Cursor -> SUBSET Node]
    BY <1>0, <1>1 DEF TypeOK
  <2>3. linked' \subseteq 1 .. used'
    BY <1>0, <1>1 DEF TypeOK
  <2> QED BY <1>3, <1>12, <2>1, <2>2, <2>3 DEF TypeOK
<1> QED BY <1>8, <1>9, <1>10, <1>11, <1>12, <1>13 DEF IInv, ScopeClosed

\* Every step of the lists, and every stutter, preserves the invariant.
LEMMA StepInv == IInv /\ [Next]_vars => IInv'
<1> SUFFICES ASSUME IInv, [Next]_vars PROVE IInv'
  OBVIOUS
<1>1. CASE AddInst
  BY <1>1, AddInstInv
<1>2. ASSUME NEW w \in linked, Unlink(w) PROVE IInv'
  BY <1>2, UnlinkInv
<1>3. ASSUME NEW c \in Cursor, Begin(c) PROVE IInv'
  BY <1>3, BeginInv
<1>4. ASSUME NEW c \in Cursor, Advance(c) PROVE IInv'
  BY <1>4, AdvanceInv
<1>5. ASSUME NEW c \in Cursor, Abandon(c) PROVE IInv'
  BY <1>5, AbandonInv
<1>6. CASE UNCHANGED vars
  BY <1>6 DEF vars, IInv, TypeOK, WellLinked, Follows, Precedes, CountMatches,
              NextStepLive, ForwardOnly, ScopeClosed, WalkClosed
<1> QED BY <1>1, <1>2, <1>3, <1>4, <1>5, <1>6 DEF Next

\* The invariant holds in every reachable state of every instance.
LEMMA Invariance == Spec => []IInv
BY InitInv, StepInv, PTL DEF Spec

\* Type correctness of the lists and cursors.
THEOREM TypeCorrect == Spec => []TypeOK
<1>1. IInv => TypeOK
  BY DEF IInv
<1> QED BY <1>1, Invariance, PTL

\* However instances are linked and unlinked, the list stays doubly linked.
THEOREM AlwaysWellLinked == Spec => []WellLinked
<1>1. IInv => WellLinked
  BY DEF IInv
<1> QED BY <1>1, Invariance, PTL

\* instance_number and instance_last can trust objectid_base::count.
THEOREM CountCorrect == Spec => []CountMatches
<1>1. IInv => CountMatches
  BY DEF IInv
<1> QED BY <1>1, Invariance, PTL

\* A registered iterator never steps onto an unlinked node.
THEOREM RegisteredSafe == Spec => []NextStepLive
<1>1. IInv => NextStepLive
  BY DEF IInv
<1> QED BY <1>1, Invariance, PTL

\* A finished walk has visited every node that stayed on the list throughout.
THEOREM WalksComplete == Spec => []SurvivorsVisited
<1>1. IInv => SurvivorsVisited
  BY DEF IInv, ScopeClosed, WalkClosed, SurvivorsVisited
<1> QED BY <1>1, Invariance, PTL

\* Begin is the abstract Begin: the first node is the least one on the list.
LEMMA BeginRefines ==
  ASSUME IInv, NEW c \in Cursor, Begin(c)
  PROVE  Abs!Begin(c)
<1>0. TypeOK /\ WellLinked /\ WalkClosed(c)
  BY DEF IInv, ScopeClosed
<1>1. /\ UNCHANGED <<used, linked>>
      /\ cur[c] = NULL
      /\ cur' = [cur EXCEPT ![c] = next[Sentinel]]
      /\ due' = [due EXCEPT ![c] = linked \ {next[Sentinel]}]
      /\ scope' = [scope EXCEPT ![c] = linked]
  BY DEF Begin
<1>2. cur[c] = Abs!Done
  BY <1>1 DEF Abs!Done, NULL
<1>3. Follows(Sentinel, next[Sentinel])
  BY <1>0 DEF WellLinked
<1>4. CASE linked = {}
  <2>1. next[Sentinel] = NULL
    BY <1>3, <1>4 DEF Follows
  <2>2. UNCHANGED <<cur, due, scope>>
    <3>1. due[c] = {} /\ scope[c] = {}
      BY <1>0, <1>1 DEF WalkClosed
    <3>2. /\ cur \in [Cursor -> Node \cup {NULL}] /\ due \in [Cursor -> SUBSET Node]
          /\ scope \in [Cursor -> SUBSET Node]
      BY <1>0 DEF TypeOK
    <3>3. cur' = cur
      BY <1>1, <2>1, <3>2
    <3>4. due' = due
      BY <1>1, <1>4, <3>1, <3>2
    <3>5. scope' = scope
      BY <1>1, <1>4, <3>1, <3>2
    <3> QED BY <3>3, <3>4, <3>5
  <2> QED BY <1>1, <1>2, <1>4, <2>2 DEF Abs!Begin
<1>5. CASE linked # {}
  <2>1. next[Sentinel] \in linked /\ \A j \in linked : next[Sentinel] <= j
    BY <1>0, <1>3, <1>5, Numbers DEF Follows
  <2> QED BY <1>1, <1>2, <2>1 DEF Abs!Begin
<1> QED BY <1>4, <1>5

\* Advance is the abstract Advance: forward, over nothing due, and for a
\* registered iterator onto the list.
LEMMA AdvanceRefines ==
  ASSUME IInv, NEW c \in Cursor, Advance(c)
  PROVE  Abs!Advance(c)
<1> DEFINE i == cur[c]
           n == next[i]
<1>0. TypeOK /\ ForwardOnly /\ NextStepLive /\ WalkClosed(c)
  BY DEF IInv, ScopeClosed
<1>1. /\ UNCHANGED <<used, linked>>
      /\ i # NULL
      /\ cur' = [cur EXCEPT ![c] = n]
      /\ due' = [due EXCEPT ![c] = @ \ {n}]
      /\ scope' = [scope EXCEPT ![c] = IF n = NULL THEN {} ELSE @]
  BY DEF Advance
<1>2. i \in scope[c] /\ scope[c] \subseteq 1 .. used /\ due[c] \subseteq linked
  BY <1>0, <1>1 DEF WalkClosed
<1>3. \A d \in due[c] : i < d
  BY <1>0, <1>1 DEF WalkClosed
<1>4. n \in scope[c] \cup {NULL} /\ (n = NULL => \A d \in due[c] : d <= i)
  BY <1>0, <1>1, <1>2 DEF WalkClosed
<1>5. i < n /\ (n # NULL => \A j \in linked : j <= i \/ n <= j)
  BY <1>0, <1>2 DEF ForwardOnly
<1>6. i \in Nat /\ \A j \in linked : j \in Nat
  BY <1>0, <1>2, Numbers
<1>7. i # Abs!Done /\ NULL = Abs!Done
  BY <1>1 DEF Abs!Done, NULL
<1>8. CASE n = NULL
  <2>1. due[c] = {}
    <3> SUFFICES ASSUME NEW d \in due[c] PROVE FALSE
      OBVIOUS
    <3>1. d <= i /\ i < d /\ d \in Nat
      BY <1>2, <1>3, <1>4, <1>6, <1>8
    <3> QED BY <1>6, <3>1
  <2>2. due' = due
    <3>1. due \in [Cursor -> SUBSET Node]
      BY <1>0 DEF TypeOK
    <3> QED BY <1>1, <2>1, <3>1
  <2>3. cur' = [cur EXCEPT ![c] = Abs!Done] /\ scope' = [scope EXCEPT ![c] = {}]
    BY <1>1, <1>7, <1>8
  <2> QED BY <1>1, <1>7, <2>1, <2>2, <2>3 DEF Abs!Advance
<1>9. CASE n # NULL
  <2>1. n \in Abs!Reachable(c)
    BY <1>0, <1>1, <1>4, <1>9 DEF Abs!Reachable, NextStepLive
  <2>2. \A d \in due[c] : n <= d
    <3> SUFFICES ASSUME NEW d \in due[c] PROVE n <= d
      OBVIOUS
    <3>1. d \in linked /\ i < d /\ d \in Nat
      BY <1>2, <1>3, <1>6
    <3>2. d <= i \/ n <= d
      BY <1>5, <1>9, <3>1
    <3> QED BY <1>6, <3>1, <3>2
  <2>3. scope' = scope
    <3>1. scope \in [Cursor -> SUBSET Node]
      BY <1>0 DEF TypeOK
    <3> QED BY <1>1, <1>9, <3>1
  <2> QED BY <1>1, <1>5, <1>7, <2>1, <2>2, <2>3 DEF Abs!Advance
<1> QED BY <1>8, <1>9

\* The pointer lists implement the contract of Traversal.
THEOREM Refinement == Spec => ImplementsTraversal
<1>1. Init => Abs!Init
  BY DEF Init, Abs!Init, Cursor, Abs!Cursor, Abs!Done, NULL
<1>2. IInv /\ [Next]_vars => [Abs!Next]_(Abs!absVars)
  <2> SUFFICES ASSUME IInv, [Next]_vars PROVE [Abs!Next]_(Abs!absVars)
    OBVIOUS
  <2>1. Cursor = Abs!Cursor /\ NULL = Abs!Done
    BY DEF Cursor, Abs!Cursor, Abs!Done, NULL
  <2>2. CASE AddInst
    BY <2>1, <2>2 DEF AddInst, Abs!Append, Abs!Next
  <2>3. ASSUME NEW w \in linked, Unlink(w) PROVE Abs!Next
    BY <2>1, <2>3 DEF Unlink, Abs!Remove, Abs!Next
  <2>4. ASSUME NEW c \in Cursor, Begin(c) PROVE Abs!Next
    BY <2>1, <2>4, BeginRefines DEF Abs!Next
  <2>5. ASSUME NEW c \in Cursor, Advance(c) PROVE Abs!Next
    BY <2>1, <2>5, AdvanceRefines DEF Abs!Next
  <2>6. ASSUME NEW c \in Cursor, Abandon(c) PROVE Abs!Next
    BY <2>1, <2>6 DEF Abandon, Abs!Abandon, Abs!Next
  <2>7. CASE UNCHANGED vars
    BY <2>7 DEF vars, Abs!absVars
  <2> QED BY <2>2, <2>3, <2>4, <2>5, <2>6, <2>7 DEF Next
<1> QED BY <1>1, <1>2, Invariance, PTL DEF Spec, Abs!AbsSpec, ImplementsTraversal
=============================================================================
