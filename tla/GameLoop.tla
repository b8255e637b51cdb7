------------------------------ MODULE GameLoop ------------------------------
(***************************************************************************)
(* The life of a program: its main loop (PFmain.cpp), the event loop that  *)
(* the compiler writes, ENIGMA_events (write_defragged_events.cpp), the    *)
(* change of room (roomsystem.cpp) and the end of the game                 *)
(* (SHELLmain.cpp).                                                        *)
(*                                                                         *)
(* An instance is its id and a generation, which tells it from an earlier  *)
(* instance of the same id that is not yet deleted.  The event loop steps  *)
(* over an event's list as a Raw walk of Traversal does; a loop over the   *)
(* instance list is a registered iterator, in the order of the ids.  Any   *)
(* event of the game may create, copy, change, destroy, deactivate and     *)
(* activate instances and ask for another room or for the end, and runs    *)
(* the Destroy events that this brings on; InstanceSystem has how all of   *)
(* that nests.                                                             *)
(***************************************************************************)
EXTENDS Integers, FiniteSets, Sequences, SequencesExt

CONSTANTS Rooms,       \* room indices
          Placed,      \* Placed[r]: the ids of the instances of room r, in the
                       \* order in which it makes them
          Persistent,  \* the ids of persistent instances
          UserIds,     \* bound: the ids the game may create instances with
          Generations, \* bound: tells instances of one id not deleted apart
          Calls,       \* the engine functions the game uses
          Events,      \* the number of event lists the event loop goes over
          MaxDying,    \* bound: the Destroy events that run at once
          MaxAhead     \* bound: nodes ahead of the event loop, for an activation

None == -1   \* room_switching_id when no room is set; no id
Nobody == <<None, None>>
Id(i) == i[1]
Ids == (UNION {ToSet(Placed[r]) : r \in Rooms}) \cup UserIds
Instance == Ids \X Generations

ASSUME RoomsAssumption == /\ Rooms \subseteq Nat
                          /\ \E r \in Rooms : \A q \in Rooms : r <= q
                          /\ Placed \in [Rooms -> Seq(Nat)]
                          /\ \A r \in Rooms : IsInjective(Placed[r])
                          /\ UserIds \subseteq Nat
                          /\ IsFiniteSet(Instance)
                          /\ {Events, MaxDying, MaxAhead} \subseteq Nat

VARIABLES pc,         \* where the engine is
          self,       \* the instance whose event is running, or Nobody
          dying,      \* the instances whose Destroy event is running, in it
          active,     \* instance_list
          inactive,   \* instance_deactivated_list
          garbage,    \* cleanups
          order,      \* every event's list: the active instances as linked
          nth,        \* how far ENIGMA_events is with its lists, or gotome with
                      \* the instances it made
          ahead,      \* the event loop: nodes its pointer may still lead to
          due,        \* the event loop: instances it owes an event
          at, todo,   \* a loop over the instance list: its id, the ids to come
          created,    \* gotome's vector of the instances it made
          room,       \* the room index
          switching,  \* room_switching_id
          restarting, \* room_switching_restartgame
          entering,   \* rooms_switch's copies of the two
          ending,     \* game_isending
          born,       \* history: not deleted, and its Create event has begun, or
                      \* the game made it without one
          owed,       \* history: as the game ends, who has no Room End yet
          late        \* history: loop events begun since a room was asked for

objects == <<active, inactive, garbage, order, born>>
walks   == <<nth, ahead, due, at, todo, created>>
control == <<room, switching, restarting, entering, ending>>
vars    == <<pc, self, dying, objects, walks, control, owed, late>>

Allocated == active \cup inactive \cup garbage
ActiveIds == {Id(i) : i \in active}
FirstRoom == CHOOSE r \in Rooms : \A q \in Rooms : r <= q

\* Bound: there is a generation for another instance of id d.
MayMake(d) == \E g \in Generations : <<d, g>> \notin Allocated
Fresh(d)   == <<d, CHOOSE g \in Generations : <<d, g>> \notin Allocated>>

\* The members of S, each once, in the order in which s has them.
Arranged(S, s) ==
  {t \in [1 .. Cardinality(S) -> S] :
     /\ ToSet(t) = S
     /\ \A k, l \in DOMAIN t :
          k < l => \E m, n \in DOMAIN s : m < n /\ s[m] = t[k] /\ s[n] = t[l]}

\* The game's code is running: the event of an instance, or a room's code.
InGame == self # Nobody \/ pc \in {"precreate", "createcode"}

\* initialize_everything ends with game_start, which goes to the first room.
Init == /\ pc = "enter"
        /\ self = Nobody /\ dying = {}
        /\ active = {} /\ inactive = {} /\ garbage = {} /\ order = <<>> /\ born = {}
        /\ nth = 0 /\ ahead = <<>> /\ due = {} /\ at = None /\ todo = {} /\ created = <<>>
        /\ room = None /\ switching = None /\ restarting = FALSE
        /\ entering = [room |-> FirstRoom, restart |-> TRUE]
        /\ ending = FALSE
        /\ owed = {} /\ late = 0

-----------------------------------------------------------------------------
(* What the game does in an event. *)

\* A loop over the instance list comes to an instance that is linked with id d: its
\* node follows one that the loop is at or will come to.
Joins(d) == (at \in ActiveIds /\ at < d) \/ \E e \in todo : e < d

\* activate() of i, where s is what every event's list has.
Activated(i, s) ==
  /\ order' = Append(s, i)
  /\ ahead' = IF pc = "loop" THEN Append(ahead, i) ELSE ahead
  /\ todo' = IF Joins(Id(i)) THEN todo \cup {Id(i)} ELSE todo \ {Id(i)}

\* instance_create, with the Create event of the new instance, or instance_copy,
\* which may leave that out.
Create ==
  \E d \in UserIds :
    /\ \A x \in ActiveIds \cup {Id(i) : i \in inactive} : x < d
    /\ MayMake(d)
    /\ active' = active \cup {Fresh(d)}
    /\ born' = born \cup {Fresh(d)}
    /\ Activated(Fresh(d), order)
    /\ UNCHANGED <<inactive, garbage, nth, due, at, created, control, owed>>

\* instance_activate_object
Activate(i) ==
  /\ Len(ahead) < MaxAhead
  /\ active' = active \cup {i}
  /\ inactive' = inactive \ {i}
  /\ Activated(i, order)
  /\ UNCHANGED <<garbage, born, nth, due, at, created, control, owed>>

\* (Mutant) i stays on the lists of its events.
Unlinked_KeepsEvents(i) ==
  /\ active' = active \ {i}
  /\ todo' = todo \ {Id(i)}
  /\ at' = IF at = Id(i) THEN None ELSE at
  /\ owed' = owed \ {i}
  /\ UNCHANGED <<order, due, born, nth, ahead, created, control>>

\* i leaves every list; a registered iterator steps over it, the event loop's
\* bare pointer may not.
Unlinked(i) ==
  /\ active' = active \ {i}
  /\ \E k \in DOMAIN order : order[k] = i /\ order' = RemoveAt(order, k)
  /\ due' = due \ {i}
  /\ todo' = todo \ {Id(i)}
  /\ at' = IF at = Id(i) THEN None ELSE at
  /\ owed' = owed \ {i}
  /\ UNCHANGED <<born, nth, ahead, created, control>>

\* (Mutant) The instance is deleted at once.
Destroy_AtOnce(i) ==
  /\ inactive' = inactive \ {i}
  /\ IF i \in active THEN Unlinked(i)
     ELSE UNCHANGED <<active, order, born, walks, control, owed>>
  /\ UNCHANGED garbage

\* unlink(): instance_destroy without, or after, the Destroy event.
Destroy(i) ==
  /\ garbage' = garbage \cup {i}
  /\ inactive' = inactive \ {i}
  /\ IF i \in active THEN Unlinked(i)
     ELSE UNCHANGED <<active, order, born, walks, control, owed>>

\* instance_destroy, up to the Destroy event.
DestroyBegins(i) ==
  /\ i \notin dying /\ Cardinality(dying) < MaxDying
  /\ dying' = dying \cup {i}
  /\ UNCHANGED <<objects, walks, control, owed>>

\* instance_deactivate_object
Deactivate(i) ==
  /\ Unlinked(i)
  /\ inactive' = inactive \cup {i}
  /\ UNCHANGED garbage

\* (Mutant) The old instance is deleted at once.
Change_DeletedAtOnce(i) ==
  /\ MayMake(Id(i))
  /\ active' = (active \ {i}) \cup {Fresh(Id(i))}
  /\ garbage' = garbage
  /\ born' = born \cup {Fresh(Id(i))}
  /\ \E k \in DOMAIN order : order[k] = i /\ Activated(Fresh(Id(i)), RemoveAt(order, k))
  /\ due' = due \ {i}
  /\ at' = IF at = Id(i) THEN None ELSE at
  /\ owed' = owed \ {i}
  /\ UNCHANGED <<inactive, nth, created, control>>

\* instance_change of an active instance, after its Destroy event if it runs: it is
\* destroyed, and one of the same id is made, its Create event run or left out.
Change(i) ==
  /\ MayMake(Id(i))
  /\ active' = (active \ {i}) \cup {Fresh(Id(i))}
  /\ garbage' = garbage \cup {i}
  /\ born' = born \cup {Fresh(Id(i))}
  /\ \E k \in DOMAIN order : order[k] = i /\ Activated(Fresh(Id(i)), RemoveAt(order, k))
  /\ due' = due \ {i}
  /\ at' = IF at = Id(i) THEN None ELSE at
  /\ owed' = owed \ {i}
  /\ UNCHANGED <<inactive, nth, created, control>>

\* room_goto and room_restart do not restart the game, game_restart does.
RoomGoto(r, restart) ==
  /\ switching' = r
  /\ restarting' = restart
  /\ UNCHANGED <<objects, walks, room, entering, ending, owed>>

GameEnd ==
  /\ ending' = TRUE
  /\ UNCHANGED <<objects, walks, room, switching, restarting, entering, owed>>

\* An instance can be destroyed by its id or its object while it is active, and by
\* its own events though it was deactivated.
Destroyable == active \cup (({self} \cup dying) \cap inactive)

Game ==
  /\ InGame
  /\ \/ /\ \/ "instance_create" \in Calls /\ Create
           \/ \E i \in Destroyable : Destroy(i)
           \/ "instance_change" \in Calls /\ \E i \in active : Change(i)
           \/ "instance_deactivate" \in Calls /\ \E i \in active : Deactivate(i)
           \/ "instance_activate" \in Calls /\ \E i \in inactive : Activate(i)
           \/ \E r \in Rooms : RoomGoto(r, FALSE)
           \/ RoomGoto(FirstRoom, TRUE)
           \/ GameEnd
        /\ UNCHANGED dying
     \/ \E i \in Destroyable : DestroyBegins(i)
  /\ UNCHANGED <<pc, self, late>>

\* A Destroy event returns, and the instance is unlinked unless it already was.
DestroyEnds ==
  \E i \in dying :
    /\ dying' = dying \ {i}
    /\ IF i \in garbage THEN UNCHANGED <<objects, walks, control, owed>> ELSE Destroy(i)
    /\ UNCHANGED <<pc, self, late>>

\* (Mutant) A pending change of room does not end the event loop.
Return_LoopGoesOn ==
  /\ self # Nobody /\ dying = {}
  /\ self' = IF pc = "lastend" THEN self ELSE Nobody
  /\ pc' = IF pc = "lastend" THEN "gameend" ELSE
           IF pc = "gameend" THEN "lastend" ELSE pc
  /\ UNCHANGED <<dying, objects, walks, control, owed, late>>

\* An event returns.  In the event loop a pending change of room then skips all
\* that is left of the step (goto after_events); when the game ends, the Game
\* End event of an instance follows its Room End.
Return ==
  /\ self # Nobody /\ dying = {}
  /\ self' = IF pc = "lastend" THEN self ELSE Nobody
  /\ pc' = IF pc = "loop" /\ switching # None THEN "after" ELSE
           IF pc = "lastend" THEN "gameend" ELSE
           IF pc = "gameend" THEN "lastend" ELSE pc
  /\ UNCHANGED <<dying, objects, walks, control, owed, late>>

-----------------------------------------------------------------------------
(* What the engine does between events. *)

At(label) == pc = label /\ self = Nobody

\* for (it = instance_list_first(); it; ++it), first and later steps.
WalkFromFirst == todo' = ActiveIds /\ at' = None
WalkNext == \E d \in todo :
              /\ \A e \in todo : d <= e
              /\ at' = d
              /\ todo' = todo \ {d}
              /\ self' \in {i \in active : Id(i) = d}

\* (Mutant) The main loop goes on while there are instances.
MainLoop_WhileInstances ==
  /\ At("main")
  /\ IF ending /\ active = {}
     THEN /\ pc' = "lastend"
          /\ WalkFromFirst
          /\ owed' = active
          /\ UNCHANGED <<nth, ahead, due, created>>
     ELSE /\ pc' = "loop"
          /\ nth' = 0
          /\ UNCHANGED <<ahead, due, at, todo, created, owed>>
  /\ UNCHANGED <<self, dying, objects, control, late>>

\* enigma_main: another step, or the end, which the window's closing can bring
\* too (handleEvents).
MainLoop ==
  /\ At("main")
  /\ \E closed \in BOOLEAN :
     IF ending \/ closed
     THEN /\ pc' = "lastend"
          /\ WalkFromFirst
          /\ owed' = active
          /\ UNCHANGED <<nth, ahead, due, created>>
     ELSE /\ pc' = "loop"
          /\ nth' = 0
          /\ UNCHANGED <<ahead, due, at, todo, created, owed>>
  /\ UNCHANGED <<self, dying, objects, control, late>>

\* ENIGMA_events begins with the list of the next event, or has had them all.
NextList ==
  /\ At("loop") /\ due = {}
  /\ IF nth < Events
     THEN nth' = nth + 1 /\ ahead' = order /\ due' = ToSet(order) /\ pc' = pc
     ELSE nth' = 0 /\ ahead' = <<>> /\ due' = {} /\ pc' = "after"
  /\ UNCHANGED <<self, dying, objects, at, todo, created, control, owed, late>>

\* The event of the next instance, k nodes on, over none that is due.
PerformEvent(k) ==
  /\ At("loop")
  /\ \A j \in 1 .. k - 1 : ahead[j] \notin due
  /\ self' = ahead[k]
  /\ ahead' = SubSeq(ahead, k + 1, Len(ahead))
  /\ due' = due \ {ahead[k]}
  /\ late' = IF switching = None THEN late ELSE late + 1
  /\ UNCHANGED <<pc, dying, objects, nth, at, todo, created, control, owed>>

\* (Mutant) rooms_switch is not called.
AfterEvents_NoSwitch ==
  /\ At("after")
  /\ nth' = 0 /\ ahead' = <<>> /\ due' = {}
  /\ garbage' = {}
  /\ born' = born \ garbage
  /\ pc' = "main"
  /\ UNCHANGED <<self, dying, active, inactive, order, created, at, todo, control, owed, late>>

\* after_events: dispose_destroyed_instances, then rooms_switch, which begins
\* with the Room End events (roomstruct::end).
AfterEvents ==
  /\ At("after")
  /\ nth' = 0 /\ ahead' = <<>> /\ due' = {}
  /\ garbage' = {}
  /\ born' = born \ garbage
  /\ IF switching = None
     THEN pc' = "main" /\ UNCHANGED <<at, todo, switching, restarting, entering, late>>
     ELSE /\ pc' = "roomend"
          /\ entering' = [room |-> switching, restart |-> restarting]
          /\ switching' = None /\ restarting' = FALSE
          /\ WalkFromFirst
          /\ late' = 0
  /\ UNCHANGED <<self, dying, active, inactive, order, created, room, ending, owed>>

\* An event of the next instance of the instance list: Room End, as the room is
\* left, or Room Start, as the next has been entered, or Room End at the end of
\* the game; then the next thing of all.
PerformForAll ==
  /\ pc \in {"roomend", "roomstart", "lastend"} /\ self = Nobody
  /\ IF todo # {}
     THEN /\ WalkNext
          /\ owed' = owed \ {self'}
          /\ UNCHANGED pc
     ELSE /\ pc' = CASE pc = "roomend" -> "enter"
                     [] pc = "roomstart" -> "main"
                     [] pc = "lastend" -> "free"
          /\ at' = None
          /\ UNCHANGED <<self, todo, owed>>
  /\ UNCHANGED <<dying, objects, nth, ahead, due, created, control, late>>

\* Who is not persistent is destroyed, and the room's instances are constructed,
\* but for those whose id is taken.
Populate(r) ==
  LET kept == {i \in active : Id(i) \in Persistent}
      free == ToSet(Placed[r]) \ {Id(i) : i \in kept}
  IN  /\ \A d \in free : MayMake(d)
      /\ \E old \in Arranged(kept, order), ids \in Arranged(free, Placed[r]) :
           /\ created' = [k \in DOMAIN ids |-> Fresh(ids[k])]
           /\ order' = old \o created'
      /\ garbage' = garbage \cup (active \ kept)
      /\ active' = kept \cup ToSet(created')
      /\ room' = r

\* (Mutant) Deactivated instances are carried over to the next room.
EnterRoom_KeepsInactive ==
  /\ At("enter")
  /\ Populate(entering.room)
  /\ pc' = "precreate" /\ nth' = 0
  /\ UNCHANGED <<self, dying, inactive, born, ahead, due, at, todo, switching, restarting,
                 entering, ending, owed, late>>

\* The second loop of roomstruct::end, which runs no events, and gotome up to
\* the pre-creation code; the deactivated list is cleared between them.
EnterRoom ==
  /\ At("enter")
  /\ Populate(entering.room)
  /\ inactive' = {}
  /\ born' = born \ inactive
  /\ pc' = "precreate" /\ nth' = 0
  /\ UNCHANGED <<self, dying, ahead, due, at, todo, switching, restarting, entering, ending,
                 owed, late>>

\* The room's pre-creation code returns, and the Create events begin.
PreCreationDone ==
  /\ pc = "precreate" /\ dying = {}
  /\ pc' = "create"
  /\ UNCHANGED <<self, dying, objects, walks, control, owed, late>>

\* (Mutant) The vector's first instance is left out.
PerformForCreated_SkipsFirst ==
  /\ pc \in {"create", "gamestart"} /\ self = Nobody
  /\ IF nth + 1 < Len(created)
     THEN /\ self' = created[nth + 2]
          /\ nth' = nth + 1
          /\ born' = born \cup {self'}
          /\ UNCHANGED <<pc, created>>
     ELSE /\ pc' = IF pc = "create" /\ entering.restart THEN "gamestart" ELSE "createcode"
          /\ nth' = 0
          /\ created' = IF pc' = "gamestart" THEN created ELSE <<>>
          /\ UNCHANGED <<self, born>>
  /\ UNCHANGED <<dying, active, inactive, garbage, order, ahead, due, at, todo, control, owed,
                 late>>

\* The Create event of every instance made, in the order they were made, then
\* their Game Start events if the game (re)starts; destroyed or not.
PerformForCreated ==
  /\ pc \in {"create", "gamestart"} /\ self = Nobody
  /\ IF nth < Len(created)
     THEN /\ self' = created[nth + 1]
          /\ nth' = nth + 1
          /\ born' = born \cup {self'}
          /\ UNCHANGED <<pc, created>>
     ELSE /\ pc' = IF pc = "create" /\ entering.restart THEN "gamestart" ELSE "createcode"
          /\ nth' = 0
          /\ created' = IF pc' = "gamestart" THEN created ELSE <<>>
          /\ UNCHANGED <<self, born>>
  /\ UNCHANGED <<dying, active, inactive, garbage, order, ahead, due, at, todo, control, owed,
                 late>>

\* The room's creation code returns, and the Room Start events begin.
CreationCodeDone ==
  /\ pc = "createcode" /\ dying = {}
  /\ pc' = "roomstart"
  /\ WalkFromFirst
  /\ entering' = [room |-> None, restart |-> FALSE]
  /\ UNCHANGED <<self, dying, objects, nth, ahead, due, created, room, switching, restarting,
                 ending, owed, late>>

\* game_ending's last loop: unlink and delete what is active.
FreeAll ==
  /\ At("free")
  /\ pc' = "over"
  /\ active' = {} /\ order' = <<>>
  /\ born' = born \ active
  /\ UNCHANGED <<self, dying, inactive, garbage, walks, control, owed, late>>

Engine == \/ MainLoop \/ NextList \/ \E k \in DOMAIN ahead : PerformEvent(k)
          \/ AfterEvents \/ PerformForAll \/ EnterRoom \/ PreCreationDone
          \/ PerformForCreated \/ CreationCodeDone \/ FreeAll
          \/ DestroyEnds \/ Return

Next == Game \/ Engine

\* The engine goes on, and no event of the game runs for ever.
Spec == Init /\ [][Next]_vars /\ WF_vars(Engine)

-----------------------------------------------------------------------------
\* Every variable keeps its type.
TypeOK ==
  /\ pc \in {"main", "loop", "after", "roomend", "enter", "precreate", "create",
             "gamestart", "createcode", "roomstart", "lastend", "gameend", "free", "over"}
  /\ self \in Instance \cup {Nobody} /\ dying \subseteq Instance
  /\ active \subseteq Instance /\ inactive \subseteq Instance /\ garbage \subseteq Instance
  /\ ToSet(order) = active
  /\ nth \in 0 .. Events \/ nth \in 0 .. Len(created)
  /\ due \subseteq ToSet(ahead) /\ ToSet(ahead) \subseteq Instance
  /\ todo \subseteq ActiveIds
  /\ {room, switching} \subseteq Rooms \cup {None}
  /\ {restarting, ending} \subseteq BOOLEAN
  /\ born \subseteq Instance /\ owed \subseteq active /\ late \in Nat

\* No two instances that are not destroyed have one id, though every visit to a
\* room makes its instances with the ids the room gives them, whatever became of
\* the last visit's: destroyed, deactivated in a Room End event, or persistent
\* (roomstruct::gotome, "they can interact badly with existing instances").
UniqueIds == \A i, j \in active \cup inactive : Id(i) = Id(j) => i = j

\* The instances whose events are running, Destroy events in them included, those
\* the event loop may come to and those gotome holds in its vector are not deleted,
\* whatever events destroyed (dispose_destroyed_instances runs only after the
\* loops).
NothingDeletedInUse ==
  pc # "over" =>
    ({self} \ {Nobody}) \cup dying \cup ToSet(ahead) \cup ToSet(created) \subseteq Allocated

\* No event that the engine brings about, be it Game Start, Room Start, a step's,
\* Room End or Game End, comes to an instance before its Create event.  Only what
\* the game itself does with gotome's new instances can: the pre-creation code, or
\* the Create event of one of them, may destroy another, whose Destroy event then
\* comes first.
CreateFirst ==
  /\ self # Nobody => self \in born
  /\ pc \notin {"precreate", "create"} => dying \subseteq born

\* Once a room is asked for, at most one more event of the event loop begins
\* before the room is left: one, if it was asked for while a room was entered.
LeavesPromptly == late <= 1

\* A room asked for is entered, unless the program ends first.
SwitchCarriedOut == (switching # None) ~> (switching = None \/ pc = "over")

\* The program ends once game_end was called.
EndsWhenAsked == ending ~> (pc = "over")

\* "Fire Room End then Game End events in that order. NOTE: This must be two
\* loops because room/game end event for some object may try accessing another
\* instance." (SHELLmain.cpp:123-124): when a Game End event begins, every
\* instance that was there and still is has had its Room End.
RoomEndsFirst == [][pc # "gameend" /\ pc' = "gameend" => owed = {}]_vars
=============================================================================
