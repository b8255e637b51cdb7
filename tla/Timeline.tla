------------------------------ MODULE Timeline ------------------------------
(***************************************************************************)
(* The timeline of one instance (timelines_object.cpp): advanced before    *)
(* its Step event, looped before its End Step event (events.ey), and set   *)
(* by the game in any of its events and in the moments' own scripts        *)
(* (actions.h).                                                            *)
(*                                                                         *)
(* Positions and speeds are fractions of a step of the game: whole numbers *)
(* of units, Unit of which are one step.  A moment is the time it is for.  *)
(***************************************************************************)
EXTENDS Integers, Sequences, Functions

CONSTANTS Timelines,  \* timeline indices
          Moments,    \* Moments[t]: the times of timeline t's moments
          Unit,       \* units in a step of the game
          Speeds,     \* timeline_speed as the game sets it
          Positions,  \* timeline_position as the game sets it
          Reach       \* bound on how far a timeline runs on past its ends

ASSUME TimelineAssumption ==
  /\ Timelines \subseteq Nat
  /\ Moments \in [Timelines -> SUBSET Nat] /\ \A t \in Timelines : Moments[t] # {}
  /\ Unit \in Nat \ {0} /\ \A t \in Timelines : \A m \in Moments[t] : m % Unit = 0
  /\ Speeds \subseteq Int /\ Positions \subseteq Int /\ Reach \in Nat

NoTimeline == -1
End == -1   \* the iterators past either end of a moments map

VARIABLES pc,       \* "step": before the Step event; "walk": the loop of
                    \* advance_curr_timeline; "scripts": a moment's script;
                    \* "endstep": before the End Step event
          index, running, speed, position, loop,  \* timeline_index and so on
          next,     \* the walk's iterator over the moments map
          passed,   \* moment_ids
          nth,      \* how many of their scripts have been called
          walked,   \* history: the timeline, and
          from,     \* history: the position and
          rate      \* history: the speed that the walk started with

settings == <<index, running, speed, position, loop>>
history  == <<walked, from, rate>>
vars     == <<pc, settings, next, passed, nth, history>>

\* object_locals' constructor; the game sets the rest in its Create event.
Init == /\ pc = "step"
        /\ index = NoTimeline /\ running = FALSE /\ speed = Unit /\ position = 0 /\ loop = FALSE
        /\ next = End /\ passed = <<>> /\ nth = 0
        /\ walked = NoTimeline /\ from = 0 /\ rate = 0

Floor(p) == Unit * (p \div Unit)
Ceil(p)  == -Floor(-p)

\* The ends of a set of moments on which an iterator may stand.
Lowest(S)  == IF S = {} THEN {End} ELSE {m \in S : \A k \in S : m <= k}
Highest(S) == IF S = {} THEN {End} ELSE {m \in S : \A k \in S : k <= m}

InReach == position \in -Reach .. Reach

-----------------------------------------------------------------------------
(* advance_curr_timeline and loop_curr_timeline. *)

\* The Step event's constant: is there a timeline, and does it run?
NoAdvance ==
  /\ pc = "step"
  /\ ~running \/ speed = 0 \/ index \notin Timelines
  /\ pc' = "endstep"
  /\ UNCHANGED <<settings, next, passed, nth, history>>

\* (Mutant) The moment before a fractional position is found again.
StartWalk_Floor ==
  /\ pc = "step" /\ running /\ speed # 0 /\ index \in Timelines
  /\ InReach \/ loop
  /\ next' \in IF speed > 0 THEN Lowest({m \in Moments[index] : m >= Floor(position)})
                            ELSE Highest({m \in Moments[index] : m <= Floor(position)})
  /\ pc' = "walk"
  /\ passed' = <<>> /\ nth' = 0
  /\ walked' = index /\ from' = position /\ rate' = speed
  /\ UNCHANGED settings

\* lower_bound(ceil(timeline_position)) forwards; backwards the reverse
\* iterator of upper_bound(floor(timeline_position)).
StartWalk ==
  /\ pc = "step" /\ running /\ speed # 0 /\ index \in Timelines
  /\ InReach \/ loop
  /\ next' \in IF speed > 0 THEN Lowest({m \in Moments[index] : m >= Ceil(position)})
                            ELSE Highest({m \in Moments[index] : m <= Floor(position)})
  /\ pc' = "walk"
  /\ passed' = <<>> /\ nth' = 0
  /\ walked' = index /\ from' = position /\ rate' = speed
  /\ UNCHANGED settings

\* "Landing exactly on the next moment will actually trigger it next turn."
Lands == \/ next = End
         \/ speed > 0 /\ position + speed <= next
         \/ speed < 0 /\ position + speed >= next

\* The walk passes a moment: position goes to it, and what that takes is taken
\* off timeline_speed itself.
PassMoment ==
  /\ pc = "walk" /\ ~Lands
  /\ speed' = speed - (next - position)
  /\ position' = next
  /\ passed' = Append(passed, next)
  /\ next' \in IF speed > 0 THEN Lowest({m \in Moments[index] : m > next})
                            ELSE Highest({m \in Moments[index] : m < next})
  /\ UNCHANGED <<pc, index, running, loop, nth, history>>

\* The rest of the way, and then the scripts.
FinishWalk ==
  /\ pc = "walk" /\ Lands
  /\ position' = position + speed
  /\ pc' = "scripts"
  /\ UNCHANGED <<index, running, speed, loop, next, passed, nth, history>>

\* timeline_call_moment_script(timeline_index, moment) of the next moment passed.
CallNext ==
  /\ pc = "scripts" /\ nth < Len(passed)
  /\ nth' = nth + 1
  /\ UNCHANGED <<pc, settings, next, passed, history>>

\* After the last of them the Step event follows.
LeaveWalk ==
  /\ pc = "scripts" /\ nth = Len(passed)
  /\ pc' = "endstep"
  /\ next' = End /\ passed' = <<>> /\ nth' = 0
  /\ walked' = NoTimeline /\ from' = 0 /\ rate' = 0
  /\ UNCHANGED settings

\* (Mutant) Standing on the last moment counts as past it.
LoopTimeline_AtLast ==
  /\ pc = "endstep"
  /\ pc' = "step"
  /\ IF running /\ loop /\ speed # 0 /\ index \in Timelines
     THEN \E last \in Highest(Moments[index]) :
            position' = IF speed > 0 /\ position >= last THEN 0 ELSE
                        IF speed < 0 /\ position < 0 THEN last ELSE position
     ELSE UNCHANGED position
  /\ UNCHANGED <<index, running, speed, loop, next, passed, nth, history>>

\* The End Step event's constant: loop_curr_timeline.
LoopTimeline ==
  /\ pc = "endstep"
  /\ pc' = "step"
  /\ IF running /\ loop /\ speed # 0 /\ index \in Timelines
     THEN \E last \in Highest(Moments[index]) :
            position' = IF speed > 0 /\ position > last THEN 0 ELSE
                        IF speed < 0 /\ position < 0 THEN last ELSE position
     ELSE UNCHANGED position
  /\ UNCHANGED <<index, running, speed, loop, next, passed, nth, history>>

Engine == \/ NoAdvance \/ StartWalk \/ PassMoment \/ FinishWalk \/ CallNext \/ LeaveWalk
          \/ LoopTimeline

-----------------------------------------------------------------------------
(* What the game does, in any event and in a moment's script. *)

action_set_timeline ==
  /\ index' \in Timelines \cup {NoTimeline}
  /\ position' \in Positions
  /\ running' \in BOOLEAN /\ loop' \in BOOLEAN
  /\ UNCHANGED speed

action_set_timeline_position ==
  /\ position' \in Positions
  /\ UNCHANGED <<index, running, speed, loop>>

action_set_timeline_speed ==
  /\ InReach
  /\ speed' \in Speeds
  /\ UNCHANGED <<index, running, position, loop>>

\* action_timeline_start and action_timeline_pause
action_timeline_start ==
  /\ InReach
  /\ running' = ~running
  /\ UNCHANGED <<index, speed, position, loop>>

action_timeline_stop ==
  /\ running' = FALSE
  /\ position' = 0
  /\ UNCHANGED <<index, speed, loop>>

Game ==
  /\ pc # "walk" /\ (pc = "scripts" => nth > 0)
  /\ \/ action_set_timeline \/ action_set_timeline_position
     \/ action_set_timeline_speed \/ action_timeline_start \/ action_timeline_stop
  /\ UNCHANGED <<pc, next, passed, nth, history>>

Next == Engine \/ Game

\* The main loop goes on, and every script returns.
Spec == Init /\ [][Next]_vars /\ WF_vars(Engine)

-----------------------------------------------------------------------------
\* Every variable keeps its type.
TypeOK ==
  /\ pc \in {"step", "walk", "scripts", "endstep"}
  /\ index \in Timelines \cup {NoTimeline}
  /\ running \in BOOLEAN /\ loop \in BOOLEAN
  /\ speed \in Int /\ position \in Int
  /\ next \in Nat \cup {End}
  /\ passed \in Seq(Nat) /\ nth \in Nat
  /\ walked \in Timelines \cup {NoTimeline} /\ from \in Int /\ rate \in Int

\* The moments from "from" on, and before it comes to "from + rate".
Due == {m \in IF walked \in Timelines THEN Moments[walked] ELSE {} :
          \/ from <= m /\ m < from + rate
          \/ from + rate < m /\ m <= from}

\* The walk of advance_curr_timeline passes each moment that the step crosses,
\* no other, and none twice, in the order of its direction, for all that it
\* uses up timeline_speed and rounds to whole moments.
PassedExactly ==
  pc = "scripts" =>
    /\ Range(passed) = Due
    /\ \A i, j \in DOMAIN passed :
         i < j => IF rate > 0 THEN passed[i] < passed[j] ELSE passed[i] > passed[j]

\* A moment's script is called.
Called(t, m) == pc = "scripts" /\ nth > 0 /\ index = t /\ passed[nth] = m

\* A looping timeline that the game leaves alone comes back to each of its
\* moments for ever: the loop loses none at either end (loop_curr_timeline: "If
\* ==, it will trigger on the next time tick"), and using up timeline_speed never
\* brings it to a stop or turns it round.
MomentsRecur ==
  \A t \in Timelines :
    <>[][Engine]_vars /\ <>[](running /\ loop /\ speed # 0 /\ index = t)
      => \A m \in Moments[t] : []<>Called(t, m)

\* "Now, trigger each moment that we've passed." (advance_curr_timeline): what is
\* called is a moment of the timeline that was walked.
TriggersPassed == [][pc = "scripts" /\ nth' > nth => index = walked]_vars
=============================================================================
