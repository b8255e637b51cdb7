------------------------------ MODULE SaveLoad ------------------------------
(***************************************************************************)
(* game_save_buffer and game_load_buffer (bufferstruct.cpp) over the       *)
(* instance system: the load destroys what is active, through Destroy      *)
(* events, and constructs the saved instances again.  A save outlives the  *)
(* program, so it may be loaded after a restart.  Checksums, backgrounds   *)
(* and the final room_goto are left out.                                   *)
(***************************************************************************)
EXTENDS InstanceSystem

VARIABLES saved,      \* the buffer: ids and object indices, by id; or nothing
          crashed,    \* a null pointer was dereferenced
          clashed     \* history: a load gave an instance an id that another has

slVars == <<vars, saved, crashed, clashed>>

Nothing == [active |-> <<>>]   \* no save: one has both lists
Load(ids) == [op |-> "load", ids |-> ids]

InitSL == Init /\ saved = Nothing /\ crashed = FALSE /\ clashed = FALSE

\* serialize() of every instance on the two lists.
Serialized ==
  [active   |-> [k \in DOMAIN InOrder(list) |-> inst[InOrder(list)[k]]],
   inactive |-> [k \in DOMAIN InOrder(inactive) |-> inst[InOrder(inactive)[k]]]]

GameSave ==
  /\ Calling("game_save_buffer")
  /\ saved' = Serialized
  /\ UNCHANGED <<vars, crashed, clashed>>

\* game_load_buffer, up to the copy of the active ids; not within another load,
\* and within the bound on constructions.
GameLoad ==
  /\ Calling("game_load_buffer")
  /\ saved # Nothing
  /\ \A k \in DOMAIN stack : stack[k].op # "load"
  /\ Len(inst) + Len(saved.active) <= MaxInst
  /\ stack' = Append(stack, Load(Ascending(DOMAIN list)))
  /\ UNCHANGED <<registry, saved, crashed, clashed>>

\* (Mutant) The active instances are not destroyed.
LoadDestroys_Nothing ==
  /\ stack # <<>> /\ Top.op = "load" /\ Top.ids # <<>>
  /\ stack' = Append(Front(stack), Load(<<>>))
  /\ UNCHANGED <<registry, saved, crashed, clashed>>

\* instance_destroy(id) of the next one.  The ids of the deactivated list go
\* through the same function, which looks on the instance list only: nothing.
LoadDestroys ==
  /\ stack # <<>> /\ Top.op = "load" /\ Top.ids # <<>>
  /\ LET d == Head(Top.ids) IN
       stack' = Front(stack) \o <<Load(Tail(Top.ids))>>
                \o (IF d \in DOMAIN list THEN Visit(Destroy(noone, <<list[d]>>)) ELSE <<>>)
  /\ UNCHANGED <<registry, saved, crashed, clashed>>

\* What is linked for the saved instances rs: the constructor of each activates
\* it, and then the load activates it once more.
LinkedTwice(rs) == [k \in 1 .. 2 * Len(rs) |-> Len(inst) + (k + 1) \div 2]

\* The saved instances are constructed with their own ids.  A saved inactive
\* one has its object index read one byte too early, and the low byte of its id
\* leads: no such object exists, but for an id that is a multiple of 256.
LoadRestores ==
  /\ stack # <<>> /\ Top.op = "load" /\ Top.ids = <<>>
  /\ inst' = inst \o saved.active
  /\ Activate(LinkedTwice(saved.active), inst')
  /\ maxid' = FoldSeq(LAMBDA r, m : IF m < r.id THEN r.id ELSE m, maxid, saved.active)
  /\ crashed' = (saved.inactive # <<>>)
  /\ clashed' = (clashed \/ \E r \in ToSet(saved.active) : r.id \in DOMAIN list \cup DOMAIN inactive)
  /\ stack' = Extended(Front(stack), LinkedTwice(saved.active), inst')
  /\ UNCHANGED <<inactive, cleanups, deleted, misuse, saved>>

\* A list holds a deleted instance: what the program does next is left out.
Undefined == (Values(list) \cup Values(inactive)) \cap deleted # {}

\* The program is closed, or has crashed, and is started again; the buffer was saved
\* to a file.
Restart ==
  /\ stack = <<>> \/ crashed \/ Undefined
  /\ saved # Nothing
  /\ \E o \in Objects :
       /\ inst' = <<[id |-> 1, obj |-> o]>>
       /\ list' = <<1>>
       /\ roll' = [x \in Objects |-> IF x \in Kinds[o] THEN <<1>> ELSE <<>>]
       /\ count' = [x \in Objects |-> IF x \in Kinds[o] THEN 1 ELSE 0]
  /\ inactive' = <<>> /\ cleanups' = {} /\ deleted' = {}
  /\ maxid' = 2
  /\ misuse' = FALSE /\ crashed' = FALSE /\ clashed' = FALSE
  /\ stack' = <<>>
  /\ UNCHANGED saved

NextSL == \/ /\ ~crashed /\ ~Undefined
             /\ \/ Next /\ UNCHANGED <<saved, crashed, clashed>>
                \/ GameSave \/ GameLoad \/ LoadDestroys \/ LoadRestores
          \/ Restart

SpecSL == InitSL /\ [][NextSL]_slVars

-----------------------------------------------------------------------------
\* A load leaves on the instance list the instances that were saved, all of them
\* made by it, whatever was destroyed or deactivated since, in its own Destroy events
\* too, in a game whose events make and activate none, as long as it saves nothing
\* inactive (see LoadReadsIndex) and no load before gave an instance the id of a
\* deactivated one (see ListsCleared).
LoadBringsBack ==
  [][stack # <<>> /\ Top.op = "load" /\ Len(stack') < Len(stack) /\ ~crashed' /\ ~clashed
       => /\ Values(list') = DOMAIN inst' \ DOMAIN inst
          /\ {inst'[p] : p \in Values(list')} = ToSet(saved.active)]_slVars

\* "Before deserializing anything, however, it clears the active and inactive
\* instance lists to avoid issues with clashing object IDs" (buffers.h:679-680).
ListsCleared ==
  stack # <<>> /\ Top.op = "load" /\ Top.ids = <<>> /\ ~crashed
    => list = <<>> /\ inactive = <<>>

\* "It then deserializes each object by reading its object index" (buffers.h:681):
\* the load of a saved game does not dereference a null object.
LoadReadsIndex == ~crashed

\* "This is the actual call to remove the current instance from all linked
\* records before destroying it" (write_object_data.cpp:587): what is queued for
\* deletion is on no list.
UnlinkedFromAll ==
  \A p \in cleanups \cup deleted :
    p \notin Values(list) /\ \A o \in Objects : p \notin ToSet(roll[o])
=============================================================================
