# ENIGMA: a TLA+ model of the engine

ENIGMA compiles a GameMaker-style project to C++ and links it with an engine.
This directory models the part of that engine every game runs through, its
*instance system*, and what drives it: the event loop, the rooms, the end of the
game, saving and loading, the depth layers and the frame limiter; and three of
the services a game calls: timelines, Steam's leaderboards with their
asynchronous events, and buffers. TLC checks the models on small instances; TLAPS
proves what matters most about eight of them for every value of their constants.

Paths below are relative to `src/ENIGMAsystem/SHELL` (`US` stands for
`Universal_System` in it) unless they begin with `src/`.

## 1. The system

### 1.1 Components

| component | state | operations | hard about it |
|---|---|---|---|
| **Lists and iterators** `US/Instances/instance_system.cpp`, `instance_iterator.h` | one doubly linked list per event (`event_iter`) and per object (`objectid_base`, with `count`); `central_iterator_cache`; the bare pointer `instance_event_iterator` | `add_inst`, `unlink`, `unlink_object_id_iter`, `handle_unlink`, iterator steps | a loop body unlinks the node the loop stands on, and its successors; nodes stay allocated with stale pointers |
| **Registries and life cycle** `write_object_data.cpp` (generated), `US/Instances/instance.cpp`, `instance_create.h` | `instance_list`, `objects[]`, `instance_deactivated_list`, `cleanups`, `maxid` | constructors, `activate`, `deactivate`, `unlink`, `instance_create/copy/change/destroy/deactivate*/activate*`, `dispose_destroyed_instances` | every operation runs Create or Destroy events which call the operations again |
| **Save and load** `US/bufferstruct.cpp` | a buffer with both lists | `game_save_buffer`, `game_load_buffer` | destroys through events, then constructs with given ids, perhaps in a new program |
| **Event loop** `write_defragged_events.cpp` (generates `ENIGMA_events`) | `instance_event_iterator` | one loop per event over its list, `after_events` | the loop's pointer is unprotected; a room change leaves it half-way |
| **Rooms** `US/roomsystem.cpp` | `room`, `room_switching_id`, `room_switching_restartgame`, gotome's vector `created` | `room_goto`, `room_restart`, `game_restart`, `rooms_switch`, `end`, `gotome` | instances are made with fixed ids next to persistent ones; events run between all the steps |
| **Main loop** `Platforms/General/PFmain.cpp`, `SHELLmain.cpp` | `game_isending`; the two timer offsets, `frames_count`, `fps`, `pausedSteps` | `enigma_main`, `updateTimer`, `gameWait`, `game_end`, `game_ending` | integer rounding, clamping, stalls, loss of focus |
| **Depth layers** `US/Object_Tiers/graphics_object.cpp`, `US/depth_draw.h`, `Graphics_Systems/General/GSscreen.cpp` | `drawing_depths`, `depth.myiter`, `depth.rval`, `id_to_currentnextdepth` | `depthv::init/function/remove`, `draw_insts` | a change of depth waits, by id, until the next drawing |
| **Timelines** `US/Object_Tiers/timelines_object.cpp`, `src/events.ey`, `US/actions.h` | `timeline_index`, `_running`, `_speed`, `_position`, `_loop`; the vector `moment_ids` | `advance_curr_timeline`, `loop_curr_timeline`, `action_set_timeline*`, `action_timeline_*` | fractional positions between whole moments, two directions, a speed that is used up, scripts that set the timeline |
| **Leaderboards** `US/Extensions/Steamworks`, `Platforms/General/PFmain.cpp` | `current_leaderboard_`, `gc_leaderboards_cookies_`, three arrays of ids, `posted_async_events` and its mutex, `async_load` | `steam_create_leaderboard`, `steam_upload_score*`, `steam_download_*`, `steam_update`, `fireEventsFromQueue` | answers in any order or none; one current leaderboard for all requests; a mutex held while the game runs |
| **Buffers** `US/bufferstruct.cpp`, `buffers_internal.cpp`, `US/Resources/AssetArray.h` | the array of buffers; bytes, type, alignment and seek position of each | `buffer_create/delete/resize/seek/peek/poke/read/write` | growing, clamping and wrapping seek positions; padding; slots reused |

How they interact: `enigma_main` calls `updateTimer` and `gameWait`, then
`ENIGMA_events`. That walks the event lists, calling event functions of the
game, which call the life-cycle functions; those call the generated `activate`,
`deactivate` and `unlink`, which edit the lists that are being walked.
`after_events` deletes the garbage and calls `rooms_switch`, whose `gotome`
destroys and creates through the same functions. `Draw` is an event whose lists
are the depth layers. Before the event loop `enigma_main` calls
`fireEventsFromQueue`, which gives every instance its Steam event once for each
event posted; timelines are advanced and looped within the event loop, before an instance's
Step and End Step events. Everything runs in one thread; what makes it concurrent in
the sense that matters is re-entrancy: every loop is open to changes by the code
it calls. Steam's answers are handled in the same thread too, while the game
calls `steam_update`.

What makes each correct: *lists*: no survivor is skipped, nothing dead is
reached by a registered iterator; *life cycle*: every instance is in one place,
all registries agree, ids are unique, nothing is unlinked twice or deleted while
in use; *load*: the instances saved are the ones one gets back; *event loop and
rooms*: requests are carried out, Create comes first, ids stay unique from room
to room; *drawing*: every instance is drawn once, where it was last put;
*timer*: not too fast, never starved, offsets near the present; *timelines*: every
moment crossed comes once, and a loop comes back to all of them; *leaderboards*:
no request or answer is taken for another's, and what is posted is reported;
*buffers*: what was written is read back, and every call returns.

### 1.2 Not modelled

The compiler front end (GML parser, JDI), the other code generators and the
project readers translate text in sequence; the graphics, audio, network,
window and widget systems are bindings whose state is in libraries; collisions,
movement, paths, particles and physics are numerical. The data structures (`ds_*`)
are thin layers over standard containers, without calls back into the game. Of
the asynchronous dialogs (`ASYNCdialog.cpp`), each of which runs an event in a thread
of its own, there is no model: the file's strong definition `unsigned async_load`
conflicts with `int async_load` of `PFmain.cpp`, so that the repository as it
stands does not say what a program with both would do. An alarm is one number
that its event counts down. `PROJECT.json` lists all the parts.

## 2. The modules

`Traversal` is an abstract specification; the others are translated from code.

| module | models | composed from |
|---|---|---|
| `Traversal` | the promise to whoever walks a list while it changes | |
| `InstIter` | lists, registered iterators and bare pointers, pointer by pointer | implements `Traversal` |
| `InstIterProofs` | theorems about `InstIter` | extends `InstIter`, `TLAPS` |
| `InstanceSystem` | registries and life cycle with a stack of nested events | uses what `InstIter` shows of a loop |
| `InstanceSystemProofs` | theorems about `InstanceSystem` | extends `InstanceSystem`, `TLAPS` |
| `SaveLoad` | save, load and restart | extends `InstanceSystem` |
| `GameLoop` | main loop, event loop, rooms, end of the game | uses `Traversal`'s raw walk for the event loop |
| `DepthDraw` | layers and pending depth changes | the list of `InstIter` once per layer |
| `DepthDrawProofs` | theorems about `DepthDraw` | extends `DepthDraw`, `TLAPS` |
| `FrameTimer` | `updateTimer` and `gameWait` | |
| `FrameTimerProofs` | theorems about `FrameTimer` | extends `FrameTimer`, `TLAPS` |
| `GameLoopProofs` | theorems about `GameLoop` | extends `GameLoop`, `TLAPS` |
| `Timeline` | one instance's timeline and the game that sets it | |
| `TimelineProofs` | theorems about `Timeline` | extends `Timeline`, `TLAPS` |
| `Leaderboards` | requests to Steam, its answers, the event queue and the main loop | |
| `LeaderboardsProofs` | theorems about `Leaderboards` | extends `Leaderboards`, `TLAPS` |
| `Buffers` | the buffers of a game and the calls on them | |
| `BuffersProofs` | theorems about `Buffers` | extends `Buffers`, `TLAPS` |
| `MC*` | constants for TLC | extend the module of the same name |

**InstIter.** `next`, `prev` and `count` are the C++ fields; the sentinel is the
`event_iter` or `objectid_base` itself, whose `prev` starts at itself, so the
code's `if (prev)` never fails. `kind` selects between the two unlink functions,
which differ in the assignment `if (next == which) next = NULL` and in `count`.
`RepairedNext/Prev` is `handle_unlink`, applied to the node a registered
iterator stands on. A `Raw` cursor is `instance_event_iterator` and is not told.
`linked`, `due` and `scope` are history variables.

**InstanceSystem.** `stack` is the C++ call stack: a frame `event` is an event of
the game, `destroy` is the loop of `instance_destroy`, `change` is
`instance_change_inst` between the destruction and the construction. `at` of a
`destroy` frame is what its iterator will still visit, kept up to date by
`WalkWithout` and `WalkWith` as `NextStepLive` and `SurvivorsVisited` of
`InstIter` allow. `Id` collisions follow `std::map`: `link_instance` keeps the old entry,
`unlink_main` erases by entry, the deactivated list's `insert` keeps the old one.
`misuse` records an `erase` of an entry that is not there, after which the
program's behaviour is undefined. `Careful` excludes a game that deactivates or
changes `self` when `self` is inactive, destroyed or being destroyed, which the
code does not look for; with `FALSE`, `NoDoubleUnlink` and `UniqueIds` fail.
Objects that do not exist are not asked for.

**SaveLoad.** A `load` frame walks the copy of the ids. The saved record keeps id
and object index. `Restart` starts the program anew with one instance and the
buffer of before. `crashed` stands for the call through the null pointer that
`instance_create_id` returns, `Undefined` for a list that holds a deleted instance;
after either nothing but a restart is modelled. `clashed` is a history: a load gave an
instance the id of one that is deactivated or that a Destroy event made. The `room_goto`
at the end is left out.

**GameLoop.** `pc` is where the engine is, `self` whose event is running. An
instance is an id and a generation, because an instance of the same id may still
be waiting for deletion. `order` is the list of an event, as instances were linked, of
which all events have the same here; `ahead` is what the event loop's bare pointer may still
reach and `due` what it must; `at` and `todo` are a loop over the instance list.
`gotome` makes a room's instances in the order in which the room has them (`Placed`).

`Game` is what the code of an event, and of a room's pre-creation and creation code, may
do, as often as it likes: create or copy an instance (`Create`), destroy one without its Destroy
event (`Destroy`) or with it (`DestroyBegins`), change an active instance (`Change`), deactivate
and activate instances, ask for a room, for the restart of the game and for its end. `dying` are the
instances whose Destroy event is running, nested in the event of `self` or in one another's;
`DestroyEnds` is the end of one and the unlinking after it. The Create event of an instance the game makes
is part of the event that makes it. `Calls` are those of these functions that the game uses in a
run. Left out are a change whose Destroy event destroys or deactivates the
changed instance itself, which `InstanceSystem` has, and `window_update`, which runs
the event loop within an event.

**DepthDraw.** One list per depth over a common set of nodes; a depth's own
(negative) value is its sentinel. While `pc = "draw"` the loop of `draw_insts` runs, one
request a step and nothing in between; `todo` are the ids its iterator has yet to come
to. `NamedLayer` is the layer `remove` unlinks from. An id may be used again once its instance is
destroyed or forgotten (`ClearDeactivated`), as a room does with the ids it has for its instances each
time it is entered. `Careful` excludes just one thing: that an instance starts (is created, activated or
changed into) with an id whose change of depth waits. The code does not look, and a game
runs into it with `room_restart` in the step of a change of depth, for the room change skips Draw; `MCDepthAgain.cfg` shows what follows.

**FrameTimer.** Time is in units; the state is the distance of the present from
the two offsets, and `top` the highest room speed since the second began (history). A `room_speed` of 0 (no limit) and `delta_time` are left out.

**Timeline.** Positions and speeds are whole numbers of *units*, `Unit` of them in a
step, so that `floor`, `ceil` and the comparison with a whole moment are those of
the code. `next` is the iterator over the timeline's map, `passed` is `moment_ids`,
and `StartWalk`, `PassMoment`, `FinishWalk` are the set-up, one round and the exit of
the loop of `advance_curr_timeline` in either direction. `CallNext` calls a
moment's script; the actions of `Game` may come between, for the script is the
game's code. `walked`, `from` and `rate` remember what the walk started with. A
timeline without moments is left out, for `loop_curr_timeline` takes `rbegin` of an
empty map there.

**Leaderboards.** A leaderboard is its name, a cookie is the request it waits for.
`current`, `cookies` and `events` are the C++ fields; `done` are the cookies with
`is_done_` set, `added` the sizes of the three arrays that ids come from.
`unanswered` and `target` are Steam's, which is external: it answers any open call at
any `steam_update`, with success or failure, or refuses a find at once. A request
(`SendToLeaderboard`) is the whole call: an id for a find, the find, an id, and
the request itself. `pc = "waiting"` is a thread that wants the mutex it
holds (a Steam event that calls `steam_update`); `Careful` excludes it.
`AnsweredOnce`, `RightLeaderboard` and `CookieWaits` are proved with and without.

**Buffers.** A value is the sequence of its bytes. `Seek`, `ReadByte`, `WriteByte` and
`write_to_buffer` are operators over a buffer; the padding loops of `buffer_read` and
`buffer_write` are actions, for they may not end. `Wrapped` is the block copy into a
wrapping buffer. A padding byte that is not zero is an `M_FATAL_ERROR`, which ends the program
(`op.call = "exit"`). `tape` is a history of the values written since position 0
and of how many were read again. Buffers of size 0 are left out.

## 3. What TLC checks

| run | states | bounds | shows |
|---|---|---|---|
| `iter` | 549,532 | 4 nodes, 2 registered loops, 1 bare pointer | list whole, `count` right, next step of a registered loop alive, nobody skipped, implements `Traversal` |
| `instances` | 4,269,107 | parent and child object, 4 instances ever, 4 nested frames | one place per instance, registries agree, unique ids, no double unlink, no reference to a deleted instance on the stack, `instance_change` reaches its new instance |
| `load` | 11,405,788 | 4 constructions in a program, 5 frames; destroys, deactivations, restarts | a load brings back the saved instance list |
| `game_loop` | 6,701,842 | 2 rooms, 1 persistent and 1 shared instance, 2 event lists, 1 Destroy event at a time, 4 nodes ahead; changes, destroys, deactivates, activates | unique ids over room changes and instance changes, nothing in use deleted, Create first, the event loop left promptly |
| `game_live` | 850,747 | the same rooms and 1 user id, 1 event list; creates, destroys | a room asked for is entered, a game asked to end ends; nothing in use deleted, Create first |
| `depth` | 2,698,686 | 3 ids used again, 2 layers, 5 nodes | all drawn once, the layer known, drawn at the depth last set |
| `timer` | 159,065 | second of 20 units, speeds 2 and 4, stalls to 19 | pace, catching up, offsets, frames keep coming |
| `timeline` | 20,648 | 2 timelines of 3 and 1 moments, 2 units a step, 5 speeds of both signs, 4 positions to set | the moments crossed are passed, no others; a looping timeline comes back to every moment |
| `leaderboards` | 60,236 | 2 leaderboards, 3 finds, 2 uploads, 1 download | requests and answers go to the right leaderboard, cookies outlive their calls, ids are answered once, events posted are reported |
| `buffers` | 47,745 | a slot used again and again, buffers of up to 4 bytes, alignments 1 and 2, values of 1 and 2 bytes | values written are read back; block copies wrap like bytes |

Four nodes are enough for `iter` because every pointer assignment touches a node
and its two neighbours: with four, a cursor's node, its successor and the
successor's successor can all be unlinked under it and one survivor follow. Two
registered loops meet on one node or stand on neighbours. In `instances` four
constructions (`MaxInst`) allow two instances at the start (`MaxPlaced`), a change and a create within its
Destroy event. Four constructions in `load` are
two instances and two that a load makes of them; the five frames let a Destroy event within a load
destroy or deactivate another instance, and TLC was seen to load while an instance is deactivated, to
load twice and to load after a crash and a restart. Two generations in the `game_` runs let one instance of an id
wait for deletion while another is alive; the bound leaves out a third in one step. The two lists of `game_loop` let a room change skip the rest
of one and all of the other. The calls are divided between the two runs because all at once are more
states than TLC goes through in minutes; `game_live` leaves activations out for a reason of its own (section 4).
Where a third instance of one id would have to be made in a step, the model stops. In `depth` five nodes let three instances exist and
two be moved. In `timer` the second is divisible by both speeds, and 19 units is
the longest stall below a second. The moments of `timeline` have neighbours
one step and two steps apart, the speeds cross none, one or several of them in a step
and stop short of, on and past them by a half, and `Reach` (7 units) lets a position run
past both ends. In `leaderboards` three finds and two uploads let a late answer to an
earlier find set the current leaderboard between a request for another and the next.
In `buffers` four bytes hold two values of two bytes with padding or one that runs
over the end, and the alignment of 2 pads after a value of one byte.

Every property has a mutant of the code that breaks it under the run's own
configuration; these operators are marked `(Mutant)` in the modules.

`CHECK_DEADLOCK FALSE` is used for `GameLoop`, whose program ends, and for `Buffers`,
whose program ends with a fatal error where the padding of a value read is not zero.

### Disagreements between code and documents

| run | the code | the document |
|---|---|---|
| `load_unlink` | a restored instance is activated by its constructor and again by the load (`US/bufferstruct.cpp:1496`), and stays on its object's list when it is destroyed and deleted | "remove the current instance from all linked records" (`write_object_data.cpp:587`) |
| `buffer_hang` | on the last byte of a fixed buffer, off its alignment, the padding loop of `buffer_write` writes zeroes there for ever (`US/bufferstruct.cpp:1206`) | "writes padding zeroes until the seek position is aligned" (`US/buffers.h:560`) |

More were found by configurations that are kept here but are not among the
runs; TLC violates the property named when it is run by hand:

| configuration, property | the code | the document |
|---|---|---|
| `MCGameEnding.cfg` of `MCGameLoop`, `RoomEndsFirst` | one loop runs Room End and Game End of each instance in turn (`SHELLmain.cpp:126-129`) | "This must be two loops" (`SHELLmain.cpp:123-124`) |
| `MCLoadClears.cfg` of `MCSaveLoad`, `ListsCleared` | the load looks for the deactivated instances on the instance list, and they stay (`US/bufferstruct.cpp:1484`) | "clears the active and inactive instance lists to avoid issues with clashing object IDs" (`US/buffers.h:680`) |
| `MCLoadInactive.cfg` of `MCSaveLoad`, `LoadReadsIndex` | the loop over saved inactive instances reads the object index one byte early and calls through the `NULL` it gets (`US/bufferstruct.cpp:1502-1504`) | "deserializes each object by reading its object index" (`US/buffers.h:680-681`) |
| `MCLoadIds.cfg` of `MCSaveLoad`, `UniqueIds` | `instance_create_id` sets `maxid` to the id and not past it (`US/Instances/instance_create.h:73`), so the next `instance_create` reuses it | the id is "assumed to have been checked for conflict" (`write_object_data.cpp:633`) |
| `MCDepthAgain.cfg` of `MCDepthDraw`, `LayerKnown` | a request left by the last instance of an id moves the node of the next, whose `rval` stays that of its object (`US/Object_Tiers/graphics_object.cpp:69`) | "Local value is valid, use it." (the same line) |
| `MCBufferPoke.cfg` of `MCBuffers`, `PokeAborted` | a poke past the end of a wrapping buffer goes round (`US/bufferstruct.cpp:1195`) | "for any of the four possible types, the write is aborted" (`US/buffers.h:541-542`) |
| `MCBufferLong.cfg` of `MCBuffers`, `WrapsLonger` | a value longer than a wrapping buffer is laid down shifted, unless its length is a multiple of the buffer's: four bytes at offset 0 of a buffer of three leave 2, 3, 4 and not 4, 2, 3 (`US/bufferstruct.cpp:287-289`) | "just find out the subset of the bytes that we will be writing" (`US/bufferstruct.cpp:285-286`) |
| `MCTimelineIndex.cfg` of `MCTimeline`, `TriggersPassed` | a moment's script that sets another timeline makes the scripts of the moments after it be looked up in that one (`US/Object_Tiers/timelines_object.cpp:86`) | "Now, trigger each moment that we've passed." (line 84) |
| `MCUploadAnswered.cfg` of `MCLeaderboards`, `UploadAnswered` | an upload that fails posts no event (`gc_leaderboards_score_uploaded_cookies.cpp:44-56`) | "success -> Will be 1 if the post succeeded, 0 failed." (`leaderboards.h:186`) |

Two were met without a model of their own: the guard of `instance_change_inst` does not stop a Destroy event
that changes its own instance (`instance_create.h:25`), and after a stall of
two seconds the timer's offset advances by one only, because the difference is
clamped first (`PFmain.cpp:125-126`).

## 4. Fairness

`GameLoop` assumes `WF_vars(Engine)`: the main loop and the loops it calls go on
and every event of the game returns. The code justifies the first (nothing in
those loops waits), and nothing can promise the second, which is therefore the
model's explicit assumption. The game itself owes nothing: no fairness on `Game`.
`game_live` bounds what a step can make and activate: an event that deactivates an instance and activates
it again puts it at the end of the very list that the event loop is on, which a game can do for ever, and
then no room is ever entered. So its game creates (and each id has two generations a step) but does not activate.
`FrameTimer` assumes that time passes (`Tick`) and that the two calls of the main
loop are made. `FramesKeepComing` asks for the focus, without which `gameWait`
holds the game up on purpose.
`Timeline` assumes `WF_vars(Engine)` as `GameLoop` does: the walk and the events go on.
`MomentsRecur` is about a game that from some time on only lets the engine work,
which its premise says (`<>[][Engine]_vars`). `Leaderboards` assumes `WF_vars(MainLoop)`: the
events of a step and every Steam event return; nothing is assumed of Steam, nor of
the game's calls. `Buffers` assumes that a call which has begun goes on
(`WF_vars(Step)`): nothing in it waits.

## 5. What is proved

TLAPS checks every proof module to the last leaf.

**`InstIterProofs`** needs only `MaxNode \in Nat`; the sets of cursors are
arbitrary, so the theorems hold for any number of nested loops.

* `TypeCorrect`, `AlwaysWellLinked`, `CountCorrect`, `RegisteredSafe`,
  `WalksComplete`: `Spec => []P` for `TypeOK`, `WellLinked`, `CountMatches`,
  `NextStepLive` and `SurvivorsVisited`.
* `Refinement`: `Spec => ImplementsTraversal`, that is, every step is a step of
  `Traversal` with `live <- linked`, `pos <- cur`, or a stutter.

None of these invariants is inductive alone. The invariant `IInv` adds
`ForwardOnly`: an unlinked node still points forward and over no linked node,
which is why a cursor that stands on it finds the way back; and `ScopeClosed`:
the nodes that were linked at some time during a walk are closed under `next`,
and from each of them the chain leads on to all that is still due. The former
carries `RegisteredSafe` (the repair of the one stale pointer keeps it live), the
latter the completeness of walks by bare pointer, which nothing repairs. The proof that
`IInv` is preserved has a part for each action; `Unlink` is the long one.

**`FrameTimerProofs`** uses `TimerAssumption` (at least one unit in a second, the
limit at most a second, positive speeds).

* `ClocksCorrect` (`TypeOK`) and `PaceKept` (`NotTooFast`) hold for every stall,
  every set of speeds and every change of speed. `PaceKept` needs the
  strengthening that in the wait `frames < speed` and `speed <= top`: the sleep catches every frame
  but one of the second's share.
* `CatchupLimited` (`AtMostBehind`) and `OffsetKeepsUp` (`OffsetAdvanced`) need
  `NoLongStall`, a stall shorter than a second, and the strengthening
  `behind < Second + idle`. Without `NoLongStall` the second is false, as said
  above.

The arithmetic is in `ShareOfSecond`, about the integer division behind
`needed_mcs`.

**`TimelineProofs`** uses `TimelineAssumption` (timelines have moments, which are whole
steps).

* `TypeCorrect` (`TypeOK`) and `WalkExact` (`PassedExactly`), for all timelines,
  moments, speeds and positions the game may set.

The invariant says of the loop, in each direction (`Forward`, `Backward`): where
the walk has come to and what is left of the speed sum up to where the step
leads, `position + speed = from + rate`; what has been passed is what lies
behind; and `next` is the first moment ahead. Each is disturbed by the
assignment that uses up `timeline_speed`, and together they survive it.

**`LeaderboardsProofs`** uses `LeaderboardsAssumption` (the invalid handle is no
name; the bounds on the ids are numbers).

* `TypeCorrect` (`TypeOK`).
* `CookiesKept` (`CookieWaits`) is inductive as it stands.
* `RightLeaderboardAlways` (`RightLeaderboard`) and `AnsweredOnceAlways` (`AnsweredOnce`) need
  `Numbered`: every id in a cookie, an open call or an event is below its array's
  size, so that a new request is none of them; and `Typed`. They hold for
  careless games too: the thread that waits for its own mutex posts nothing.

**`GameLoopProofs`** uses `RoomsAssumption` (rooms and ids are numbers, there is a first
room, a room has finitely many instances, and there are finitely many generations to
tell instances of one id apart).

* `TypeCorrect` (`TypeOK`), `UniqueIdsAlways`, `NothingDeletedInUseAlways`, `CreateComesFirst` (`CreateFirst`)
  and `LeavesPromptlyAlways`, for any rooms, instances placed in them and number of
  event lists.

None of these is inductive. `LoopsOver` and `WalksOver` say that what a loop holds is
empty outside that loop: without them a room could be entered while an iterator still
points into the last one's list. `OnePlace` keeps `dispose_destroyed_instances`
away from who is active; `DyingInGame` says that Destroy events run within the game's code only, so that
no loop of the engine goes on and nothing is deleted under one; `Begun` says where instances have had their Create
events, which while `gotome` runs them is a matter of the vector's index; `OneLate`
that the one late event is the one that runs. What the game can do is first
brought under a few effects (lemma `GameEffect`), and
`PopulateEffect` sums up a change of room. `CreateComesFirst` is about the events that the engine
brings about. A Destroy event that the game brings about between the making of a room's instances and their
Create events (in the pre-creation code, or in the Create event of one of them) does come before the Create event of the instance destroyed,
and the theorem says that no other does.

**`InstanceSystemProofs`** uses `KindsAssumption` (object indices are numbers, an
object has ancestors among the objects, the bounds are numbers) and, in every
theorem, `Careful`: the game does not deactivate or change a `self` that is no longer
active or is being destroyed. Without it `NoDoubleUnlink` and `UniqueIds` are false,
as TLC shows. An instance of any object may be destroyed, changed or deactivated, in
events nested to any depth (`MaxStack` is not used).

* `TypeCorrect` (`TypeOK`), `InOnePlace` (`OnePlace`), `RollsCorrect` (`RollsAgree`),
  `IdsUnique` (`UniqueIds`), `UnlinkedOnce` (`NoDoubleUnlink`), `FramesValid`
  (`StackValid`) and `ChangeIsOwn` (the action property `ChangeReachesNew`).

They rest on one invariant, `IInv`, which TLC has checked on the instance of the run
`instances`. `Registered` is about the registries: types, ids below `maxid`, one
place for every instance, rolls and counts, unique ids. `Nested` is about the
call stack. It says of every frame what `StackValid` says (`Fits`), and of every
`instance_change` in progress (`Pending`) that the frame above it is the loop that destroys the one
instance with its id (`Awaits`), and that once that loop has returned no instance alive
has the id. This is why the constructor's alias meets no conflict although the Destroy
event may create, deactivate, activate and change others; that no two changes in
progress are of one id comes from `Careful`. `RoomLeft` says that the bound on
constructions always lets a change finish. The lemmas about the registries
(`DeactivateKeeps`, `ActivateKeeps`, `ConstructKeeps`, `UnlinkKeeps`) and about the stack
(`SaneTold`, `SanePush`, `SaneChange`, `SanePop`, `SaneVisit`, `SaneOnward`) meet in one lemma for each
action. `Told` is the least that a loop in progress is to know of a step: its
place stays, and what it has yet to visit is active.

**`DepthDrawProofs`** uses `DepthAssumption` (ids are natural numbers, depths negative
ones, so that a sentinel is none of the nodes) and `Careful`: no instance starts with an id
whose change of depth waits. Without it `LayerKnown` is false, as
`MCDepthAgain.cfg` shows. Instances may be deactivated and destroyed while a change of their depth
waits, and their ids used again once it no longer does.

* `DrawnOnce` (`AllDrawnOnce`), `LayerIsKnown` (`LayerKnown`) and `DrawnAsSet` (the action
  property `DrawnAtDepth`), for any ids, objects and depths.

The invariant says pointer by pointer what the list of every layer is (`Linked`):
the nodes of the instances whose *home* it is, in the order in which they were
allocated. The home of an instance is the layer its request names first until the
request is applied, and the layer of its depth after that and without one
(`Homes`); `Requests` keeps the second half of a request equal to the depth. `AddedKeeps` and `SplicedKeeps`
are about one list, `LayersAdded` and `LayersSpliced` about all of them, `Taken` and `Put` about an instance that moves.
`ChainIs` leads from the pointers to what the loop over a layer comes to: `Chain` is a recursive
function, whose existence and values up to `MaxNode` are found by least counterexample.

**`BuffersProofs`** uses `BuffersAssumption` (sizes and alignments are at least 1, values
are sequences of at least one byte).

* `Invariance`, `ReadBack` (`ReadsBack`) and `WrapsRound` (`WrapsAround`), for any number
  of buffers, any sizes, types and alignments, and values of any widths.

`ReadsBack` looks at one read; what makes it true is the whole history of the buffer. The
invariant says it of each buffer that is not deleted (`Kept`): the values of its tape are
laid in it (`Laid`), each on the first aligned offset after the one before it, with zeros
between; while values are added the seek position is among the zeros that will precede
the next one, and those before it have been written; while they are read it is between the end of the last one
read and the start of the next. `Kept` survives `WriteByte` and `ReadByte` in the padding
loops (`KeptPadWrite`, `KeptPadRead`: the byte skipped is a zero), the rest of a call
(`KeptFinishWrite`, `KeptFinishRead`) and a seek to the start; a growing buffer keeps its bytes
(`LaidGrown`). That a tape still being written may not fit its buffer any more, which the
next value then finds out, is `Fits`. `OneHandle` leads from one buffer to all of them.

`WrapsAround`, which is about values no longer than the buffer, does not depend on the history: `BlockIsBytewise` compares the split copy of
`write_to_buffer` with the calls of `WriteByte`, of which each puts its byte at
(offset + k) % size (`BytewiseSteps`). The ends of the values and the calls
of `WriteByte` are recursive functions; that they exist and what they give at each
number is found by least counterexample (`CountUp`, `StepwiseExists`).

**Only model-checked:** `LoadBringsBack` of `SaveLoad`, and all liveness
(`SwitchCarriedOut`, `EndsWhenAsked`, `FramesKeepComing`, `MomentsRecur`,
`PostedReported`): liveness under fairness and `ENABLED` are beyond this prover, and so are the induction theorems of the library and `RECURSIVE` operators.
Where a set has to be counted out, as in `EnumerationExists` (a finite set of
numbers has an ascending sequence), the least counterexample replaces the induction.
No module uses `RECURSIVE`, so that proofs can be added anywhere.

## 6. What is left

In order of importance:

1. `SaveLoad`: a proof of `LoadBringsBack` from the invariant of `InstanceSystemProofs`
   for the steps of a load.
2. `instance_list` as an *ordered* linked list (`link_instance` inserts in
   the middle), with loops that run over it as ids are added below and above,
   which `GameLoop` takes for granted.
3. `GameLoop` with `window_update` (a nested event loop) and the `room_goto` a load
   ends with.
4. The strings, copies and fills of buffers; the data structures' id counters.

## 7. Running

    tlc -workers 2 -config MCInstIter.cfg MCInstIter.tla
    tlapm InstIterProofs.tla

and likewise for the other pairs that `PROJECT.json` lists under `runs` and
`theorems`.
