------------------------------- MODULE InstIter -------------------------------
(***************************************************************************)
(* The doubly linked list behind every event_iter and objectid_base of the *)
(* instance system (Universal_System/Instances/instance_system.cpp), with  *)
(* the iterators that stand on it: the registered enigma::iterator objects *)
(* of central_iterator_cache, which handle_unlink repairs, and the bare    *)
(* pointer instance_event_iterator, which nothing repairs.                 *)
(*                                                                         *)
(* Nodes are numbered in the order of their allocation; add_inst only ever *)
(* appends, so this is also their order on the list.  An unlinked node     *)
(* keeps its own pointers and stays allocated.                             *)
(***************************************************************************)
EXTENDS Naturals, FiniteSets

CONSTANTS Registered,   \* enigma::iterator objects
          Raw,          \* bare inst_iter* cursors
          MaxNode       \* bound on the nodes ever allocated

ASSUME MaxNodeAssumption == MaxNode \in Nat

Sentinel == 0           \* the event_iter / objectid_base itself, a sentinel
NULL     == MaxNode + 1 \* the null pointer; it compares above every node
Node     == 1 .. MaxNode
Slot     == Sentinel .. MaxNode
Cursor   == Registered \cup Raw

VARIABLES kind,     \* "event" for an event_iter, "object" for an objectid_base
          next,     \* inst_iter::next
          prev,     \* inst_iter::prev
          count,    \* objectid_base::count
          used,     \* number of nodes allocated: 1 .. used
          cur,      \* the node a cursor stands on
          linked,   \* history: the nodes added and not yet unlinked
          due,      \* history: what a cursor still owes a visit
          scope     \* history: what was on the list at some time since a
                    \* cursor's walk began

vars == <<kind, next, prev, count, used, cur, linked, due, scope>>

\* objectid_base::objectid_base / event_iter::event_iter: prev = this.
Init == /\ kind \in {"event", "object"}
        /\ next = [i \in Slot |-> NULL]
        /\ prev = [i \in Slot |-> Sentinel]
        /\ count = 0
        /\ used = 0
        /\ cur = [c \in Cursor |-> NULL]
        /\ linked = {}
        /\ due = [c \in Cursor |-> {}]
        /\ scope = [c \in Cursor |-> {}]

\* add_inst: a new last node, whose prev is the old last one.
AddInst ==
  /\ used < MaxNode
  /\ LET a == used + 1 IN
       /\ used' = a
       /\ next' = [next EXCEPT ![prev[Sentinel]] = a, ![a] = NULL]
       /\ prev' = [prev EXCEPT ![a] = prev[Sentinel], ![Sentinel] = a]
       /\ linked' = linked \cup {a}
       /\ scope' = [c \in Cursor |-> IF cur[c] = NULL THEN {} ELSE scope[c] \cup {a}]
  /\ count' = IF kind = "object" THEN count + 1 ELSE count
  /\ UNCHANGED <<kind, cur, due>>

\* (Mutant) unlink that never lowers the list's last-node pointer.
SplicedPrev_LastKept(w) ==
  IF next[w] # NULL THEN [prev EXCEPT ![next[w]] = prev[w]] ELSE prev

\* (Mutant) unlink that also clears the pointer of the node it takes off.
SplicedNext_Cleared(w) == [next EXCEPT ![prev[w]] = next[w], ![w] = NULL]

\* The four pointer assignments of unlink and of unlink_object_id_iter.
SplicedNext(w) ==
  IF kind = "event" /\ next[Sentinel] = w /\ prev[w] # Sentinel
  THEN [next EXCEPT ![prev[w]] = next[w], ![Sentinel] = NULL]
  ELSE [next EXCEPT ![prev[w]] = next[w]]

SplicedPrev(w) ==
  LET p == IF next[w] # NULL THEN [prev EXCEPT ![next[w]] = prev[w]] ELSE prev
  IN  IF p[Sentinel] = w THEN [p EXCEPT ![Sentinel] = prev[w]] ELSE p

\* The nodes some registered iterator stands on.
Watched == {cur[c] : c \in Registered} \ {NULL}

\* (Mutants) An iterator cache that is not told of the unlink, and one whose
\* repair ends the walk.
RepairedNext_NotTold(n, w) == n
RepairedNext_Ended(n, w) ==
  [i \in Slot |-> IF i \in Watched /\ n[i] = w THEN NULL ELSE n[i]]

\* iterator::handle_unlink(w), for every iterator in central_iterator_cache.
RepairedNext(n, w) ==
  [i \in Slot |-> IF i \in Watched /\ n[i] = w THEN n[w] ELSE n[i]]
RepairedPrev(n, p, w) ==
  [i \in Slot |-> IF i \in Watched /\ n[i] # w /\ p[i] = w THEN p[w] ELSE p[i]]

\* (Mutants) count is lowered twice, or not at all.
CountAfterUnlink_Twice == IF kind = "object" THEN count - 2 ELSE count
CountAfterUnlink_Kept  == count

CountAfterUnlink == IF kind = "object" THEN count - 1 ELSE count

\* event_iter::unlink, unlink_object_id_iter
Unlink(w) ==
  /\ w \in linked
  /\ next' = RepairedNext(SplicedNext(w), w)
  /\ prev' = RepairedPrev(SplicedNext(w), SplicedPrev(w), w)
  /\ count' = CountAfterUnlink
  /\ linked' = linked \ {w}
  /\ due' = [c \in Cursor |-> due[c] \ {w}]
  /\ UNCHANGED <<kind, used, cur, scope>>

\* it = objects[x].next;  instance_event_iterator = event_x->next
Begin(c) ==
  /\ cur[c] = NULL
  /\ cur' = [cur EXCEPT ![c] = next[Sentinel]]
  /\ due' = [due EXCEPT ![c] = linked \ {next[Sentinel]}]
  /\ scope' = [scope EXCEPT ![c] = linked]
  /\ UNCHANGED <<kind, next, prev, count, used, linked>>

\* ++it;  instance_event_iterator = instance_event_iterator->next
Advance(c) ==
  /\ cur[c] # NULL
  /\ cur' = [cur EXCEPT ![c] = next[cur[c]]]
  /\ due' = [due EXCEPT ![c] = @ \ {next[cur[c]]}]
  /\ scope' = [scope EXCEPT ![c] = IF next[cur[c]] = NULL THEN {} ELSE @]
  /\ UNCHANGED <<kind, next, prev, count, used, linked>>

\* ~iterator / a loop left by return, break or goto after_events
Abandon(c) ==
  /\ cur[c] # NULL
  /\ cur' = [cur EXCEPT ![c] = NULL]
  /\ due' = [due EXCEPT ![c] = {}]
  /\ scope' = [scope EXCEPT ![c] = {}]
  /\ UNCHANGED <<kind, next, prev, count, used, linked>>

Next == \/ AddInst
        \/ \E w \in linked : Unlink(w)
        \/ \E c \in Cursor : Begin(c) \/ Advance(c) \/ Abandon(c)

Spec == Init /\ [][Next]_vars

-----------------------------------------------------------------------------
\* Every variable keeps its type; a pointer is a slot of this list or NULL, and
\* prev is never NULL because the sentinel is its own prev.
TypeOK == /\ kind \in {"event", "object"}
          /\ next \in [Slot -> Node \cup {NULL}]
          /\ prev \in [Slot -> Slot]
          /\ count \in Nat
          /\ used \in 0 .. MaxNode
          /\ cur \in [Cursor -> Node \cup {NULL}]
          /\ linked \subseteq 1 .. used
          /\ due \in [Cursor -> SUBSET Node]
          /\ scope \in [Cursor -> SUBSET Node]

\* y is the entry of the list that follows slot x, or NULL if none does.
Follows(x, y) == /\ y \in linked \cup {NULL}
                 /\ x < y
                 /\ \A j \in linked : j <= x \/ y <= j

\* x is the entry of the list that precedes node y, or the sentinel.
Precedes(x, y) == /\ x \in linked \cup {Sentinel}
                  /\ x < y
                  /\ \A j \in linked : j <= x \/ y <= j

\* Whatever was unlinked, in whatever order, the sentinel and the linked nodes
\* form one chain in both directions, and the sentinel's prev is its last node
\* (add_inst, event_iter::unlink, unlink_object_id_iter).
WellLinked == /\ \A i \in linked \cup {Sentinel} : Follows(i, next[i])
              /\ \A i \in linked : Precedes(prev[i], i)
              /\ Precedes(prev[Sentinel], NULL)

\* objectid_base::count, which instance_number and instance_last trust, is the
\* number of nodes on the list.
CountMatches == kind = "object" => count = Cardinality(linked)

\* A registered iterator's next step is onto a node of the list or off its end,
\* even when its own node and any number of its successors were unlinked under
\* it (iterator::handle_unlink).
NextStepLive == \A c \in Registered :
                  cur[c] # NULL => next[cur[c]] \in linked \cup {NULL}

\* A finished walk, registered or raw, has stopped at every node that was on
\* the list when it began and was not unlinked since: the unlinked nodes keep
\* the pointers that lead back to the survivors.
SurvivorsVisited == \A c \in Cursor : cur[c] = NULL => due[c] = {}

\* An unlinked node still points forward, over no node of the list: that is
\* what lets a walk that stands on it find its way back.
ForwardOnly == \A i \in 1 .. used :
                 /\ i < next[i]
                 /\ next[i] \in 1 .. used \cup {NULL}
                 /\ next[i] # NULL => \A j \in linked : j <= i \/ next[i] <= j

\* A walk stays among the nodes that were on the list since it began, and from
\* each of them the chain leads on to whatever is still due.
WalkClosed(c) ==
  IF cur[c] = NULL
  THEN due[c] = {} /\ scope[c] = {}
  ELSE /\ cur[c] \in scope[c]
       /\ linked \subseteq scope[c] /\ scope[c] \subseteq 1 .. used
       /\ due[c] \subseteq linked
       /\ \A d \in due[c] : cur[c] < d
       /\ \A i \in scope[c] :
            /\ next[i] \in scope[c] \cup {NULL}
            /\ next[i] = NULL => \A d \in due[c] : d <= i

ScopeClosed == \A c \in Cursor : WalkClosed(c)

\* The inductive invariant of Spec.
IInv == /\ TypeOK /\ WellLinked /\ CountMatches
        /\ NextStepLive /\ ForwardOnly /\ ScopeClosed

\* The list implements the contract of Traversal.
Abs == INSTANCE Traversal WITH live <- linked, pos <- cur
ImplementsTraversal == Abs!AbsSpec
=============================================================================
