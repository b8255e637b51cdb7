--------------------------- MODULE InstanceSystem ---------------------------
(***************************************************************************)
(* The life of an instance: the constructors and the generated unlink,     *)
(* activate and deactivate of every object (write_object_data.cpp), the    *)
(* registries they keep (instance_system.cpp), and the engine functions a  *)
(* game calls on them (instance.cpp, instance_create.h).                   *)
(*                                                                         *)
(* Those functions run the Create and Destroy events of the game, which    *)
(* call the same functions again, so the state has a call stack.  A loop   *)
(* over an object's list steps as InstIter shows a registered iterator to: *)
(* onto the linked nodes that follow it, new last nodes included while its *)
(* own node, or a later one, is linked.                                    *)
(***************************************************************************)
EXTENDS Naturals, Integers, FiniteSets, Sequences, SequencesExt

CONSTANTS Objects,    \* object indices
          Kinds,      \* Kinds[o]: o and its ancestors, whose lists o joins
          Calls,      \* the engine functions the game uses
          Careful,    \* see Sound
          MaxPlaced,  \* bound on the instances the room begins with
          MaxInst,    \* bound on the instances ever constructed
          MaxStack    \* bound on the depth of nested events and calls

ASSUME KindsAssumption == /\ Objects \subseteq Nat
                          /\ Kinds \in [Objects -> SUBSET Objects]
                          /\ Careful \in BOOLEAN
                          /\ MaxPlaced \in Nat /\ MaxInst \in Nat

Ptr == 1 .. MaxInst   \* object_basic*, numbered as they are allocated

VARIABLES inst,       \* what was constructed: id and object_index, by pointer
          list,       \* instance_list: the active instances by id
          roll,       \* objects[o]: the active instances of o, in list order
          count,      \* objects[o].count
          inactive,   \* instance_deactivated_list
          cleanups,   \* unlinked, waiting for dispose_destroyed_instances
          deleted,    \* disposed of
          maxid,      \* the next id of the automatic constructor
          stack,      \* events and engine calls in progress, innermost last
          misuse      \* history: something was unlinked that was not linked

vars == <<inst, list, roll, count, inactive, cleanups, deleted, maxid, stack, misuse>>
registry == <<inst, list, roll, count, inactive, cleanups, deleted, maxid, misuse>>

Id(p)   == inst[p].id
Obj(p)  == inst[p].obj
Values(f) == {f[x] : x \in DOMAIN f}
Ids(S)  == {Id(p) : p \in S}

-----------------------------------------------------------------------------
(* The registries. *)

Without(f, ids) == [i \in DOMAIN f \ ids |-> f[i]]

\* The members of a set of numbers in ascending order, and what f has at them.
Ascending(T) == CHOOSE s \in [1 .. Cardinality(T) -> T] :
                  \A k, l \in DOMAIN s : k < l => s[k] < s[l]
Picked(f, T) == LET order == Ascending(T) IN [k \in DOMAIN order |-> f[order[k]]]

\* The entries of s that are in S, and s without the latest entry of every member
\* of S.
Kept(s, S) == Picked(s, {i \in DOMAIN s : s[i] \in S})
Off(s, S)  == Picked(s, {i \in DOMAIN s :
                           s[i] \in S => \E j \in DOMAIN s : i < j /\ s[j] = s[i]})

\* The instances of a map, in the order of their ids.
InOrder(map) == Picked(map, DOMAIN map)

\* (Mutant) The loops in progress are not told of an unlink.
WalkWithout_NotTold(f, S) == f

\* A loop in progress: at[1] is where it stands, then what it has yet to visit.
WalkWithout(f, S) ==
  IF f.op # "destroy" THEN f
  ELSE [f EXCEPT !.at = <<Head(@)>> \o Kept(Tail(@), ToSet(Tail(@)) \ S),
                 !.on = @ /\ Head(f.at) \notin S]
WalkWith(f, o, ps) ==
  IF f.op = "destroy" /\ f.of = o /\ (f.on \/ Len(f.at) > 1)
  THEN [f EXCEPT !.at = @ \o ps] ELSE f

\* (Mutant) Only the instance's own object is told, not the ancestors.
Deactivate_OwnRollOnly(S) ==
  /\ list' = Without(list, Ids(S))
  /\ roll' = [o \in Objects |-> Off(roll[o], {p \in S : o = Obj(p)})]
  /\ count' = [o \in Objects |-> count[o] - Cardinality({p \in S : o = Obj(p)})]
  /\ UNCHANGED misuse

\* deactivate() of the instances in S: unlink_main, unlink_object_id_iter of
\* every kind.  What was already unlinked is erased from the map a second time.
Deactivate(S) ==
  /\ list' = Without(list, Ids(S))
  /\ roll' = [o \in Objects |-> Off(roll[o], {p \in S : o \in Kinds[Obj(p)]})]
  /\ count' = [o \in Objects |-> count[o] - Cardinality({p \in S : o \in Kinds[Obj(p)]})]
  /\ misuse' = (misuse \/ \E p \in S : p \notin Values(list))

\* Those of ps that join the list of object o, i giving their object indices.
Joining(ps, i, o) == Kept(ps, {p \in ToSet(ps) : o \in Kinds[i[p].obj]})

\* activate() of ps, where i gives their ids and object indices: link_instance,
\* link_obj_instance.  An id on the list keeps the entry it has.
Activate(ps, i) ==
  LET new == {p \in ToSet(ps) : i[p].id \notin DOMAIN list}
  IN  /\ list' = [d \in DOMAIN list \cup {i[p].id : p \in new} |->
                    IF d \in DOMAIN list THEN list[d]
                    ELSE CHOOSE p \in new : i[p].id = d]
      /\ roll' = [o \in Objects |-> roll[o] \o Joining(ps, i, o)]
      /\ count' = [o \in Objects |-> count[o] + Len(Joining(ps, i, o))]

Repaired(stk, S) == [k \in DOMAIN stk |-> WalkWithout(stk[k], S)]
Extended(stk, ps, i) ==
  [k \in DOMAIN stk |->
     IF stk[k].op # "destroy" THEN stk[k]
     ELSE WalkWith(stk[k], stk[k].of, Joining(ps, i, stk[k].of))]

\* (Mutants) unlink that forgets the deactivated list, or deactivates what already
\* is inactive.
Unlink_StaysInactive(p) ==
  /\ cleanups' = cleanups \cup {p}
  /\ UNCHANGED inactive
  /\ IF Id(p) \in DOMAIN inactive
     THEN UNCHANGED <<list, roll, count, misuse>> ELSE Deactivate({p})
Unlink_AlwaysDeactivates(p) ==
  /\ cleanups' = cleanups \cup {p}
  /\ inactive' = Without(inactive, {Id(p)})
  /\ Deactivate({p})

\* unlink(): queued, and taken off the deactivated list or else deactivated.
Unlink(p) ==
  /\ cleanups' = cleanups \cup {p}
  /\ inactive' = Without(inactive, {Id(p)})
  /\ IF Id(p) \in DOMAIN inactive
     THEN UNCHANGED <<list, roll, count, misuse>> ELSE Deactivate({p})

\* The registries after unlink(), for the loops in progress.
AfterUnlink(stk, p) == IF Id(p) \in DOMAIN inactive THEN stk ELSE Repaired(stk, {p})

-----------------------------------------------------------------------------
(* The call stack. *)

noone == -4           \* the object of a loop over one instance

Event(p)       == [op |-> "event", self |-> p]
Destroy(o, ps) == [op |-> "destroy", of |-> o, at |-> ps, on |-> o # noone]
Change(d, o, perf) == [op |-> "change", id |-> d, obj |-> o, perf |-> perf]

Top  == stack[Len(stack)]
self == Top.self      \* instance_event_iterator->inst

\* The game is in an event and calls engine function f.
Calling(f) == f \in Calls /\ stack # <<>> /\ Top.op = "event" /\ Len(stack) < MaxStack

\* The Destroy event of p is running.
BeingDestroyed(p) == \E k \in DOMAIN stack : stack[k].op = "destroy" /\ stack[k].at[1] = p

\* A careful game does not deactivate or change self once self is inactive,
\* destroyed or being destroyed; the code does not look.
Sound == Careful => self \in Values(list) /\ ~BeingDestroyed(self)

\* The bound on constructions leaves one for every change in progress.
Room == Len(inst) + Cardinality({k \in DOMAIN stack : stack[k].op = "change"}) < MaxInst

\* A constructor with id d, and its activate().
Construct(d, o) ==
  LET p == Len(inst) + 1
  IN  /\ inst' = Append(inst, [id |-> d, obj |-> o])
      /\ Activate(<<p>>, inst')

\* The room's instances are linked, and no event has run yet; ids are given in
\* the order of construction, from 1, and maxid is past the highest.
Init ==
  \E n \in 0 .. MaxPlaced : \E os \in [1 .. n -> Objects] :
    /\ n <= MaxInst
    /\ inst = [p \in 1 .. n |-> [id |-> p, obj |-> os[p]]]
    /\ list = [d \in 1 .. n |-> d]
    /\ roll = [o \in Objects |-> Ascending({p \in 1 .. n : o \in Kinds[os[p]]})]
    /\ count = [o \in Objects |-> Cardinality({p \in 1 .. n : o \in Kinds[os[p]]})]
    /\ inactive = <<>>
    /\ cleanups = {}
    /\ deleted = {}
    /\ maxid = n + 1
    /\ stack = <<>>
    /\ misuse = FALSE

\* The event loop performs an event of an active instance.
StartEvent(p) ==
  /\ stack = <<>>
  /\ stack' = <<Event(p)>>
  /\ UNCHANGED registry

\* An event of the game returns.
Return ==
  /\ stack # <<>> /\ Top.op = "event"
  /\ stack' = Front(stack)
  /\ UNCHANGED registry

\* (Mutant) maxid is read and not advanced.
InstanceCreate_MaxidKept(o) ==
  /\ Calling("instance_create")
  /\ Room
  /\ Construct(maxid, o)
  /\ stack' = Append(Extended(stack, <<Len(inst')>>, inst'), Event(Len(inst')))
  /\ UNCHANGED <<inactive, cleanups, deleted, maxid, misuse>>

\* instance_create, instance_create_depth: the constructed instance's Create.
InstanceCreate(o) ==
  /\ Calling("instance_create")
  /\ Room
  /\ Construct(maxid, o)
  /\ maxid' = maxid + 1
  /\ stack' = Append(Extended(stack, <<Len(inst')>>, inst'), Event(Len(inst')))
  /\ UNCHANGED <<inactive, cleanups, deleted, misuse>>

\* instance_copy: the Create event is that of the instance found under the id.
InstanceCopy(perf) ==
  /\ Calling("instance_copy")
  /\ Room
  /\ Construct(maxid, Obj(self))
  /\ maxid' = maxid + 1
  /\ stack' = Extended(stack, <<Len(inst')>>, inst')
                 \o (IF perf THEN <<Event(list'[maxid])>> ELSE <<>>)
  /\ UNCHANGED <<inactive, cleanups, deleted, misuse>>

\* The loop of instance_destroy stands on an instance and runs its Destroy event.
Visit(f) == IF f.at[1] \in cleanups THEN <<f>> ELSE <<f, Event(f.at[1])>>

\* instance_destroy() of self, instance_destroy(id) and instance_destroy(obj),
\* up to the first Destroy event.
InstanceDestroy(o, ps) ==
  /\ Calling("instance_destroy")
  /\ ps # <<>>
  /\ stack' = stack \o Visit(Destroy(o, ps))
  /\ UNCHANGED registry

\* The loop goes on to the next instance, or instance_destroy returns.
Onward(stk) ==
  LET f == Last(stk)
  IN  Front(stk) \o (IF Len(f.at) = 1 THEN <<>>
                     ELSE Visit([f EXCEPT !.at = Tail(@), !.on = TRUE]))

\* (Mutant) The garbage list is not looked at again after the Destroy event.
AfterDestroyEvent_NotChecked ==
  /\ stack # <<>> /\ Top.op = "destroy"
  /\ LET p == Top.at[1] IN
       /\ Unlink(p)
       /\ stack' = Onward(AfterUnlink(stack, p))
  /\ UNCHANGED <<inst, deleted, maxid>>

\* The Destroy event has returned: unlink(), unless the event destroyed it.
AfterDestroyEvent ==
  /\ stack # <<>> /\ Top.op = "destroy"
  /\ LET p == Top.at[1] IN
       IF p \in cleanups
       THEN /\ stack' = Onward(stack)
            /\ UNCHANGED <<list, roll, count, inactive, cleanups, misuse>>
       ELSE /\ Unlink(p)
            /\ stack' = Onward(AfterUnlink(stack, p))
  /\ UNCHANGED <<inst, deleted, maxid>>

\* instance_deactivate_object(obj or id), instance_deactivate_all(notme)
InstanceDeactivate(S) ==
  /\ Calling("instance_deactivate")
  /\ S # {}
  /\ Deactivate(S)
  /\ inactive' = [d \in DOMAIN inactive \cup Ids(S) |->
                    IF d \in DOMAIN inactive THEN inactive[d]
                    ELSE CHOOSE p \in S : Id(p) = d]
  /\ stack' = Repaired(stack, S)
  /\ UNCHANGED <<inst, cleanups, deleted, maxid>>

\* instance_activate_object(obj or id), instance_activate_all: in id order.
InstanceActivate(ids) ==
  /\ Calling("instance_activate")
  /\ ids # {}
  /\ LET ps == InOrder([d \in ids |-> inactive[d]]) IN
       /\ Activate(ps, inst)
       /\ stack' = Extended(stack, ps, inst)
  /\ inactive' = Without(inactive, ids)
  /\ UNCHANGED <<inst, cleanups, deleted, maxid, misuse>>

\* instance_change, up to the Destroy event of the instance with self's id.
InstanceChange(o, perf) ==
  /\ Calling("instance_change")
  /\ Sound /\ Room
  /\ Obj(self) # o
  /\ stack' = LET d == Id(self) IN
                Append(stack, Change(d, o, perf)) \o
                  (IF d \notin DOMAIN list THEN <<>>
                   ELSE IF perf THEN Visit(Destroy(noone, <<list[d]>>))
                   ELSE <<Destroy(noone, <<list[d]>>)>>)
  /\ UNCHANGED registry

\* (Mutant) The new instance is given a new id.
AfterChange_NewId ==
  /\ stack # <<>> /\ Top.op = "change"
  /\ Construct(maxid, Top.obj)
  /\ stack' = Extended(Front(stack), <<Len(inst')>>, inst')
                \o (IF Top.perf THEN <<Event(Len(inst'))>> ELSE <<>>)
  /\ UNCHANGED <<inactive, cleanups, deleted, maxid, misuse>>

\* instance_change goes on: the new instance takes over the id, and whatever is
\* found under that id runs its Create event.
AfterChange ==
  /\ stack # <<>> /\ Top.op = "change"
  /\ Construct(Top.id, Top.obj)
  /\ stack' = Extended(Front(stack), <<Len(inst')>>, inst')
                \o (IF Top.perf THEN <<Event(list'[Top.id])>> ELSE <<>>)
  /\ UNCHANGED <<inactive, cleanups, deleted, maxid, misuse>>

\* dispose_destroyed_instances, after all events of the step.
Dispose ==
  /\ stack = <<>>
  /\ deleted' = deleted \cup cleanups
  /\ cleanups' = {}
  /\ UNCHANGED <<inst, list, roll, count, inactive, maxid, stack, misuse>>

\* What the game may call.  (RollsAgree says no list holds a deleted instance.)
Call ==
  \/ \E o \in Objects : InstanceCreate(o)
  \/ \E perf \in BOOLEAN : InstanceCopy(perf)
  \/ \E p \in Values(list) \cup ({self} \ cleanups) : InstanceDestroy(noone, <<p>>)
  \/ \E o \in Objects : ToSet(roll[o]) \cap deleted = {} /\ InstanceDestroy(o, roll[o])
  \/ \E p \in Values(list) \cup {self} : (p = self => Sound) /\ InstanceDeactivate({p})
  \/ \E o \in Objects : InstanceDeactivate(ToSet(roll[o]))
  \/ \E notme \in BOOLEAN :
       InstanceDeactivate({p \in Values(list) : ~(notme /\ Id(p) = Id(self))})
  \/ \E d \in DOMAIN inactive : InstanceActivate({d})
  \/ \E o \in Objects : InstanceActivate({d \in DOMAIN inactive : o \in Kinds[Obj(inactive[d])]})
  \/ InstanceActivate(DOMAIN inactive)
  \/ \E o \in Objects, perf \in BOOLEAN : InstanceChange(o, perf)

Next == \/ \E p \in Values(list) : StartEvent(p)
        \/ stack # <<>> /\ Top.op = "event" /\ Call
        \/ Return \/ AfterDestroyEvent \/ AfterChange \/ Dispose

Spec == Init /\ [][Next]_vars

-----------------------------------------------------------------------------
\* Every variable keeps its type.
TypeOK ==
  /\ inst \in Seq([id : Nat, obj : Objects]) /\ Len(inst) <= MaxInst
  /\ Values(list) \subseteq DOMAIN inst
  /\ \A o \in Objects : ToSet(roll[o]) \subseteq DOMAIN inst
  /\ count \in [Objects -> Nat]
  /\ Values(inactive) \subseteq DOMAIN inst
  /\ cleanups \subseteq DOMAIN inst
  /\ deleted \subseteq DOMAIN inst
  /\ maxid \in Nat
  /\ \A k \in DOMAIN stack : stack[k].op \in {"event", "destroy", "change"}
  /\ misuse \in BOOLEAN

\* An instance that is not yet deleted is in exactly one of the instance list,
\* the deactivated list and the garbage list, and a deleted one in none, however
\* its events and the engine calls nest (unlink, activate, deactivate).
OnePlace ==
  \A p \in DOMAIN inst :
    LET places == {Values(list), Values(inactive), cleanups}
    IN  /\ Values(list) \cap Values(inactive) = {}
        /\ (Values(list) \cup Values(inactive)) \cap cleanups = {}
        /\ p \in deleted <=> p \notin UNION places

\* Every object's list holds, once each, the active instances of that object and
\* of its descendants, and count is their number: what instance_number,
\* instance_find and with (obj) go by (link_obj_instance, unlink_object_id_iter).
RollsAgree ==
  \A o \in Objects :
    /\ IsInjective(roll[o])
    /\ ToSet(roll[o]) = {p \in Values(list) : o \in Kinds[Obj(p)]}
    /\ count[o] = Len(roll[o])

\* No two instances that are neither destroyed nor deleted share an id, and the
\* id maps lead to the instance that has it (the constructor's alias "assumed to
\* have been checked for conflict").
UniqueIds ==
  LET alive == DOMAIN inst \ (cleanups \cup deleted) IN
  /\ \A p, q \in alive : Id(p) = Id(q) => p = q
  /\ \A d \in DOMAIN list : Id(list[d]) = d
  /\ \A d \in DOMAIN inactive : Id(inactive[d]) = d

\* Nothing is unlinked that is not linked: the second unlink_main would erase a
\* map iterator that is no longer valid (the two looks at cleanups in
\* instance_destroy).
NoDoubleUnlink == ~misuse

\* Whatever an event or an engine call in progress still refers to is allocated,
\* and a loop over an object's list has only active instances before it
\* (dispose_destroyed_instances, handle_unlink).
StackValid ==
  \A k \in DOMAIN stack :
    /\ stack[k].op = "event" => stack[k].self \notin deleted
    /\ stack[k].op = "destroy" => /\ stack[k].at[1] \notin deleted
                                  /\ ToSet(Tail(stack[k].at)) \subseteq Values(list)

\* instance_change hands the position and the Create event to the instance it
\* has just made, not to another that is found under the same id.
ChangeReachesNew ==
  [][Len(inst') > Len(inst) /\ stack # <<>> /\ Top.op = "change"
       => Top.id \in DOMAIN list' /\ list'[Top.id] = Len(inst')]_vars
=============================================================================
