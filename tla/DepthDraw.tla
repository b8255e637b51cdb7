----------------------------- MODULE DepthDraw -----------------------------
(***************************************************************************)
(* The layers instances are drawn by: one event_iter for every depth       *)
(* (depth_draw.h), the depth of an instance, which is the layer it is on   *)
(* (depthv, graphics_object.cpp), and the changes of depth that wait in    *)
(* id_to_currentnextdepth until draw_insts applies them (GSscreen.cpp).    *)
(*                                                                         *)
(* An id may be used again: a room makes its instances under the ids it    *)
(* has for them each time it is entered (roomsystem.cpp), and Draw need    *)
(* not come between, so a request may outlive the instance it was for.     *)
(* Objects have no parents here: a child's activate removes what its       *)
(* parent's has just added.  A layer's list is the one of InstIter: nodes  *)
(* are numbered as they are allocated, and an unlinked one stays allocated *)
(* with its pointers.                                                      *)
(***************************************************************************)
EXTENDS Integers, FiniteSets

CONSTANTS Ids,      \* instance ids
          Objects,  \* object indices
          Layer,    \* Layer[o]: the depth object o starts with
          Depths,   \* the depths in use, negative: a layer's sentinel is its slot
          Careful,  \* no instance starts with an id whose change of depth
                    \* waits; the code does not look
          MaxNode   \* bound on the nodes ever allocated

ASSUME DepthAssumption == /\ Ids \subseteq Nat /\ Depths \subseteq Int \ Nat
                          /\ Layer \in [Objects -> Depths]
                          /\ Careful \in BOOLEAN /\ MaxNode \in Nat

NULL == 0
Node == 1 .. MaxNode
Slot == Depths \cup Node

VARIABLES links,    \* the next and prev pointers of all layers
          used,     \* nodes allocated: 1 .. used
          object,   \* object_index of an instance
          active,   \* instances on the instance list
          inactive, \* deactivated instances
          myiter,   \* depth.myiter: the instance's node, or NULL
          depth,    \* depth.rval: what the game reads and sets
          pending,  \* id_to_currentnextdepth: current and next depth
          pc,       \* "game": its code runs; "draw": draw_insts does
          todo      \* the requests that draw_insts has yet to come to

vars == <<links, used, object, active, inactive, myiter, depth, pending, pc, todo>>

Init == /\ links = [next |-> [s \in Slot |-> NULL],
                    prev |-> [s \in Slot |-> IF s \in Depths THEN s ELSE NULL]]
        /\ used = 0
        /\ object = [i \in Ids |-> CHOOSE o \in Objects : TRUE]
        /\ active = {} /\ inactive = {}
        /\ myiter = [i \in Ids |-> NULL]
        /\ depth = [i \in Ids |-> CHOOSE d \in Depths : TRUE]
        /\ pending = [i \in {} |-> <<NULL, NULL>>]
        /\ pc = "game"
        /\ todo = {}

\* draw_events->add_inst on layer d, of new node a.
Added(l, d, a) == [next |-> [l.next EXCEPT ![l.prev[d]] = a, ![a] = NULL],
                   prev |-> [l.prev EXCEPT ![a] = l.prev[d], ![d] = a]]

\* (Mutant) The layer's last-node pointer stays.
Spliced_LastKept(l, d, w) ==
  LET next1 == [l.next EXCEPT ![l.prev[w]] = l.next[w]]
      prev1 == IF l.next[w] = NULL THEN l.prev ELSE [l.prev EXCEPT ![l.next[w]] = l.prev[w]]
  IN  [next |-> IF next1[d] = w THEN [next1 EXCEPT ![d] = NULL] ELSE next1,
       prev |-> prev1]

\* draw_events->unlink(w) on layer d, whatever layer w is on.
Spliced(l, d, w) ==
  LET next1 == [l.next EXCEPT ![l.prev[w]] = l.next[w]]
      prev1 == IF l.next[w] = NULL THEN l.prev ELSE [l.prev EXCEPT ![l.next[w]] = l.prev[w]]
  IN  [next |-> IF next1[d] = w THEN [next1 EXCEPT ![d] = NULL] ELSE next1,
       prev |-> IF prev1[d] = w THEN [prev1 EXCEPT ![d] = prev1[w]] ELSE prev1]

\* depthv::remove: "local value is valid", or "use the one in the map".
NamedLayer(i) == IF i \in DOMAIN pending THEN pending[i][1] ELSE depth[i]
Removed(i) == Spliced(links, NamedLayer(i), myiter[i])

\* The bound on nodes leaves one for every change of depth that waits.
Room == used + Cardinality(DOMAIN pending) < MaxNode

\* depthv::init of instance i, of object o, over lists l.
InitDepth(l, i, o) ==
  /\ Careful => i \notin DOMAIN pending
  /\ Room
  /\ used' = used + 1
  /\ links' = Added(l, Layer[o], used + 1)
  /\ myiter' = [myiter EXCEPT ![i] = used + 1]
  /\ depth' = [depth EXCEPT ![i] = Layer[o]]
  /\ object' = [object EXCEPT ![i] = o]

\* A new instance, under a new id, that of a room's instance (gotome) or one that
\* was saved.
InstanceCreate(i, o) ==
  /\ i \notin active \cup inactive
  /\ InitDepth(links, i, o)
  /\ active' = active \cup {i}
  /\ UNCHANGED <<inactive, pending>>

\* (Mutant) The first depth asked for wins.
SetDepth_NotUpdated(i, d) ==
  /\ i \in active /\ depth[i] # d /\ Room
  /\ depth' = [depth EXCEPT ![i] = d]
  /\ pending' = IF i \in DOMAIN pending THEN pending
                ELSE [j \in DOMAIN pending \cup {i} |->
                        IF j = i THEN <<depth[i], d>> ELSE pending[j]]
  /\ UNCHANGED <<links, used, object, active, inactive, myiter>>

\* depthv::function: a request to change, or a change of the request.
SetDepth(i, d) ==
  /\ i \in active /\ depth[i] # d /\ Room
  /\ depth' = [depth EXCEPT ![i] = d]
  /\ pending' = [j \in DOMAIN pending \cup {i} |->
                   IF j # i THEN pending[j]
                   ELSE IF i \in DOMAIN pending THEN <<pending[i][1], d>>
                   ELSE <<depth[i], d>>]
  /\ UNCHANGED <<links, used, object, active, inactive, myiter>>

\* What deactivate() and unlink() do to the depth: depthv::remove.
RemoveDepth(i) ==
  /\ i \in active
  /\ links' = Removed(i)
  /\ myiter' = [myiter EXCEPT ![i] = NULL]
  /\ active' = active \ {i}
  /\ UNCHANGED <<used, object, depth, pending>>

InstanceDestroy(i)    == RemoveDepth(i) /\ UNCHANGED inactive
InstanceDeactivate(i) == RemoveDepth(i) /\ inactive' = inactive \cup {i}

InstanceActivate(i) ==
  /\ i \in inactive
  /\ InitDepth(links, i, object[i])
  /\ active' = active \cup {i}
  /\ inactive' = inactive \ {i}
  /\ UNCHANGED pending

\* instance_change: remove, then init for the instance that takes over the id.
InstanceChange(i, o) ==
  /\ i \in active
  /\ InitDepth(Removed(i), i, o)
  /\ UNCHANGED <<active, inactive, pending>>

\* A room is entered: the deactivated instances are forgotten (gotome).  Those it
\* destroys before and makes after are InstanceDestroy and InstanceCreate.
ClearDeactivated ==
  /\ inactive # {}
  /\ inactive' = {}
  /\ UNCHANGED <<links, used, object, active, myiter, depth, pending>>

\* draw_insts: the loop over the requests, in the order of the ids, begins.
DrawInsts ==
  /\ pc = "game" /\ pc' = "draw"
  /\ todo' = DOMAIN pending
  /\ UNCHANGED <<links, used, object, active, inactive, myiter, depth, pending>>

\* One turn of the loop: the node is replaced by a new one on the new layer, if
\* there still is an instance of that id.
ApplyRequest ==
  /\ pc = "draw"
  /\ \E i \in todo :
       /\ \A j \in todo : i <= j
       /\ todo' = todo \ {i}
       /\ IF i \in active
          THEN /\ links' = Added(Spliced(links, pending[i][1], myiter[i]),
                               pending[i][2], used + 1)
               /\ myiter' = [myiter EXCEPT ![i] = used + 1]
               /\ used' = used + 1
          ELSE UNCHANGED <<links, myiter, used>>
  /\ UNCHANGED <<object, active, inactive, depth, pending, pc>>

\* (Mutant) The requests are applied and not cleared.
ClearRequests_Kept ==
  /\ pc = "draw" /\ todo = {}
  /\ pc' = "game"
  /\ UNCHANGED <<links, used, object, active, inactive, myiter, depth, pending, todo>>

\* All requests are applied and are cleared.
ClearRequests ==
  /\ pc = "draw" /\ todo = {}
  /\ pending' = [i \in {} |-> <<NULL, NULL>>]
  /\ pc' = "game"
  /\ UNCHANGED <<links, used, object, active, inactive, myiter, depth, todo>>

\* What the game's code may do, until it is time to draw.
Game ==
  /\ pc = "game"
  /\ \/ \E i \in Ids, o \in Objects : InstanceCreate(i, o) \/ InstanceChange(i, o)
     \/ \E i \in Ids, d \in Depths : SetDepth(i, d)
     \/ \E i \in Ids : InstanceDestroy(i) \/ InstanceDeactivate(i) \/ InstanceActivate(i)
     \/ ClearDeactivated
  /\ UNCHANGED <<pc, todo>>

Next == Game \/ DrawInsts \/ ApplyRequest \/ ClearRequests

Spec == Init /\ [][Next]_vars

-----------------------------------------------------------------------------
\* The nodes the loop over layer d comes to (draw_tiles, draw_gui).
Chain(d) ==
  LET reach[n \in 0 .. MaxNode] ==
        IF n = 0 THEN {links.next[d]}
        ELSE LET r == reach[n - 1] IN r \cup {links.next[x] : x \in r \ {NULL}}
  IN  reach[MaxNode] \ {NULL}

\* Every active instance is on one layer, and nothing else is on any, whatever was
\* moved, made and destroyed before and however far the requests are applied (the
\* layers' lists).
AllDrawnOnce ==
  /\ UNION {Chain(d) : d \in Depths} = {myiter[i] : i \in active}
  /\ \A d, e \in Depths : d # e => Chain(d) \cap Chain(e) = {}

\* The requests that draw_insts has applied and not yet cleared.
Applied == IF pc = "draw" THEN DOMAIN pending \ todo ELSE {}

\* "Local value is valid, use it", "Local value is invalid, use the one in the
\* map" (depthv::remove): the layer by which an instance's node will be unlinked,
\* by remove or by draw_insts, is the layer it is on.
LayerKnown == \A i \in active \ Applied : myiter[i] \in Chain(NamedLayer(i))

\* Once the requests are applied, every instance is on the layer of the depth
\* the game set last (depthv::function, draw_insts).
DrawnAtDepth == [][ClearRequests => (\A i \in active : myiter[i] \in Chain(depth[i]))']_vars
=============================================================================
