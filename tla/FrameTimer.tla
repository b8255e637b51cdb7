----------------------------- MODULE FrameTimer -----------------------------
(***************************************************************************)
(* How the main loop keeps to the room speed: updateTimer and gameWait of  *)
(* PFmain.cpp.  Time is counted in units of which catchup_limit_ms is      *)
(* Catchup and one second is Second; what the code reads are differences   *)
(* from the current time to timer_offset and to timer_offset_slowing, and  *)
(* those are the state.  delta_time and current_time are left out, and     *)
(* so is a room speed of 0, at which updateTimer never sleeps.             *)
(***************************************************************************)
EXTENDS Integers

CONSTANTS Second,   \* units in a second
          Catchup,  \* units in catchup_limit_ms
          Speeds,   \* the room speeds in use, frames a second
          Stall     \* bound on the units between two calls of updateTimer

ASSUME TimerAssumption == /\ Second \in Nat \ {0} /\ Catchup \in 0 .. Second
                          /\ Speeds \subseteq Nat \ {0}
                          /\ Stall \in Nat \ {0}

VARIABLES pc,       \* "timer": about to call updateTimer; "wait": gameWait is next
          behind,   \* now - timer_offset
          slowed,   \* now - timer_offset_slowing
          idle,     \* units since updateTimer was last called
          frames,   \* frames_count
          fps,      \* fps
          speed,    \* current_room_speed
          focused,  \* game_window_focused; freezeOnLoseFocus is set
          paused,   \* pausedSteps
          top       \* history: the highest room speed since the second began

vars == <<pc, behind, slowed, idle, frames, fps, speed, focused, paused, top>>

Init == /\ pc = "timer"
        /\ behind = 0 /\ slowed = 0 /\ idle = 0
        /\ frames = 0 /\ fps = 0
        /\ speed \in Speeds
        /\ focused = TRUE /\ paused = 0
        /\ top = speed

\* clamp(difference, 0, 1000000)
Clamp(x) == IF x < 0 THEN 0 ELSE IF x > Second THEN Second ELSE x

Tick == /\ pc = "timer" /\ idle < Stall
        /\ idle' = idle + 1
        /\ behind' = behind + 1
        /\ slowed' = slowed + 1
        /\ UNCHANGED <<pc, frames, fps, speed, focused, paused, top>>

\* What is left of the second, and what the frames still to come need of it.
Remaining(s) == Second - Clamp(s)
Needed(n)    == (Second * (speed - n)) \div speed

\* (Mutant) Only more than a second is rounded down to a second.
Elapsed_Late == Second * ((Clamp(behind) - 1) \div Second)

\* What offset_modulus_one_second adds to timer_offset: the clamped difference
\* in whole seconds.
Elapsed == Second * (Clamp(behind) \div Second)

\* (Mutants) No limit on catching up; what remains of the second is not counted.
Advance_NoLimit(n, s) == 0
Advance_AllNeeded(n, s) ==
  IF Needed(n) > Remaining(s) + Catchup THEN Needed(n) - Catchup ELSE 0

\* How far increase_offset_slowing advances timer_offset_slowing.
Advance(n, s) ==
  IF Needed(n) > Remaining(s) + Catchup THEN Needed(n) - (Remaining(s) + Catchup) ELSE 0

\* (Mutants) There is no sleep; frames_count is not reset with the second.
UpdateTimer_NoSleep ==
  /\ pc = "timer"
  /\ idle' = 0
  /\ LET over == Clamp(behind) >= Second
         n == IF over THEN 0 ELSE frames
         b == behind - Elapsed
         s == IF over THEN b ELSE slowed
     IN  /\ behind' = b
         /\ frames' = n
         /\ fps' = IF over THEN frames ELSE fps
         /\ top' = IF over THEN speed ELSE top
         /\ slowed' = s - Advance(n, s)
         /\ pc' = "wait"
  /\ UNCHANGED <<speed, focused, paused>>
UpdateTimer_FramesKept ==
  /\ pc = "timer"
  /\ idle' = 0
  /\ LET over == Clamp(behind) >= Second
         b == behind - Elapsed
         s == IF over THEN b ELSE slowed
     IN  /\ behind' = b
         /\ frames' = frames
         /\ fps' = IF over THEN frames ELSE fps
         /\ top' = IF over THEN speed ELSE top
         /\ slowed' = s - Advance(frames, s)
         /\ pc' = IF Remaining(slowed') > Needed(frames) THEN "timer" ELSE "wait"
  /\ UNCHANGED <<speed, focused, paused>>

\* updateTimer: a new second, the limit on catching up, and whether to sleep.
UpdateTimer ==
  /\ pc = "timer"
  /\ idle' = 0
  /\ LET over == Clamp(behind) >= Second
         n == IF over THEN 0 ELSE frames
         b == behind - Elapsed
         s == IF over THEN b ELSE slowed
     IN  /\ behind' = b
         /\ frames' = n
         /\ fps' = IF over THEN frames ELSE fps
         /\ top' = IF over THEN speed ELSE top
         /\ slowed' = s - Advance(n, s)
         /\ pc' = IF Remaining(slowed') > Needed(n) THEN "timer" ELSE "wait"
  /\ UNCHANGED <<speed, focused, paused>>

\* gameWait: one more step without the focus and then none; else a frame, at
\* the end of which the game may have set the room's speed.
GameWait ==
  /\ pc = "wait"
  /\ pc' = "timer"
  /\ IF focused \/ paused < 1
     THEN /\ frames' = frames + 1
          /\ paused' = IF focused THEN paused ELSE paused + 1
          /\ speed' \in Speeds
          /\ top' = IF speed' > top THEN speed' ELSE top
     ELSE UNCHANGED <<frames, paused, speed, top>>
  /\ UNCHANGED <<behind, slowed, idle, fps, focused>>

\* platform_focus_gained, platform_focus_lost
FocusChange ==
  /\ pc = "wait"
  /\ focused' = ~focused
  /\ paused' = IF focused THEN paused ELSE 0
  /\ UNCHANGED <<pc, behind, slowed, idle, frames, fps, speed, top>>

Next == Tick \/ UpdateTimer \/ GameWait \/ FocusChange

\* Time passes and the main loop goes on.
Spec == Init /\ [][Next]_vars /\ WF_vars(Tick) /\ WF_vars(UpdateTimer) /\ WF_vars(GameWait)

-----------------------------------------------------------------------------
\* Every variable keeps its type; no clock runs ahead of the present.
TypeOK == /\ pc \in {"timer", "wait"}
          /\ behind \in Nat /\ slowed \in Nat /\ slowed <= behind
          /\ idle \in 0 .. Stall
          /\ frames \in Nat /\ fps \in Nat
          /\ {speed, top} \subseteq Speeds
          /\ focused \in BOOLEAN /\ paused \in 0 .. 1

\* No second has more frames than the highest room speed in force in it, for all
\* that the two offsets move apart and the speed changes (updateTimer).
NotTooFast == frames <= top

\* "we are only at most catchup_limit ms behind" (updateTimer): when a frame is
\* let through, the frames to come need no more than is left and that much.
AtMostBehind == pc = "wait" => Needed(frames) <= Remaining(slowed) + Catchup

\* "advance offset by difference in seconds, rounded down" (updateTimer): after
\* it less than a second is left between the offset and the present.
OffsetAdvanced == [][UpdateTimer => behind' < Second]_vars

\* The frame limiter never starves a game that keeps the focus, whatever the two
\* offsets and the changes of speed have come to (updateTimer, gameWait).
FramesKeepComing == <>[]focused => []<>(pc = "wait" /\ focused)
=============================================================================
