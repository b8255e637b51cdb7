--------------------------- MODULE FrameTimerProofs ---------------------------
(***************************************************************************)
(* Proofs about FrameTimer, for every length of the second, every limit on *)
(* catching up and every set of room speeds.                               *)
(***************************************************************************)
EXTENDS FrameTimer, TLAPS

\* A second shared among v frames: what v - n frames need is never more than the
\* second, and nothing once n frames have gone.
LEMMA ShareOfSecond ==
  ASSUME NEW v \in Nat \ {0}, NEW n \in Nat
  PROVE  /\ (Second * (v - n)) \div v \in Int
         /\ (Second * (v - n)) \div v <= Second
         /\ n >= v => (Second * (v - n)) \div v <= 0
<1> DEFINE a == Second * (v - n)
           q == a \div v
<1>0. Second \in Nat
  BY TimerAssumption
<1>1. a \in Int
  BY <1>0
<1>2. q \in Int /\ q * v <= a /\ a < (q + 1) * v
  BY <1>1, SMTT(30)
<1>3. a <= Second * v
  BY <1>0, SMTT(30)
<1>4. n >= v => a <= 0
  BY <1>0, SMTT(30)
<1> HIDE DEF a, q
<1>5. q <= Second
  BY <1>0, <1>1, <1>2, <1>3, SMTT(30)
<1>6. n >= v => q <= 0
  BY <1>1, <1>2, <1>4, SMTT(30)
<1> QED
  BY <1>2, <1>5, <1>6 DEF q, a

\* needed_mcs, for a frame count of the current second.
LEMMA NeededBound ==
  ASSUME TypeOK, NEW n \in Nat
  PROVE  /\ Needed(n) \in Int /\ Needed(n) <= Second
         /\ n >= speed => Needed(n) <= 0
<1>1. speed \in Nat \ {0}
  BY TimerAssumption DEF TypeOK
<1> QED
  BY <1>1, ShareOfSecond DEF Needed

\* offset_modulus_one_second takes a whole second off what is behind, once the
\* second is over.
LEMMA ElapsedValue ==
  ASSUME TypeOK
  PROVE  Elapsed = IF behind >= Second THEN Second ELSE 0
<1>1. Second \in Nat \ {0} /\ behind \in Nat
  BY TimerAssumption DEF TypeOK
<1>2. CASE behind >= Second
  <2>1. Clamp(behind) = Second
    BY <1>1, <1>2 DEF Clamp
  <2>2. Second \div Second = 1
    BY <1>1, SMTT(30)
  <2> QED
    BY <1>1, <1>2, <2>1, <2>2 DEF Elapsed
<1>3. CASE behind < Second
  <2>1. Clamp(behind) = behind
    BY <1>1, <1>3 DEF Clamp
  <2>2. behind \div Second = 0
    BY <1>1, <1>3, SMTT(30)
  <2> QED
    BY <1>1, <1>3, <2>1, <2>2 DEF Elapsed
<1> QED
  BY <1>1, <1>2, <1>3

\* What a call of updateTimer does: a new second or not, and then how far
\* timer_offset_slowing is advanced.
LEMMA TimerStep ==
  ASSUME TypeOK, UpdateTimer
  PROVE  /\ frames' \in {0, frames} /\ frames' \in Nat
         /\ fps' \in {fps, frames}
         /\ behind' = IF behind >= Second THEN behind - Second ELSE behind
         /\ behind >= Second => frames' = 0
         /\ \E s \in Nat : s <= behind' /\ slowed' = s - Advance(frames', s)
         /\ pc' \in {"timer", "wait"}
         /\ pc' = "wait" => Remaining(slowed') <= Needed(frames')
         /\ idle' = 0
         /\ top' = IF behind >= Second THEN speed ELSE top
         /\ UNCHANGED <<speed, focused, paused>>
<1> DEFINE over == Clamp(behind) >= Second
           n == IF over THEN 0 ELSE frames
           b == behind - Elapsed
           s == IF over THEN b ELSE slowed
<1>1. Second \in Nat \ {0} /\ behind \in Nat /\ slowed \in Nat /\ slowed <= behind
      /\ frames \in Nat
  BY TimerAssumption DEF TypeOK
<1>2. over <=> behind >= Second
  BY <1>1 DEF Clamp
<1>3. b = IF behind >= Second THEN behind - Second ELSE behind
  BY <1>1, ElapsedValue
<1>4. s \in Nat /\ s <= b
  BY <1>1, <1>2, <1>3
<1>5. /\ behind' = b /\ frames' = n /\ slowed' = s - Advance(n, s)
      /\ fps' = IF over THEN frames ELSE fps
      /\ pc' = IF Remaining(slowed') > Needed(n) THEN "timer" ELSE "wait"
      /\ idle' = 0
      /\ top' = IF over THEN speed ELSE top
      /\ UNCHANGED <<speed, focused, paused>>
  BY DEF UpdateTimer
<1>6. n \in {0, frames} /\ n \in Nat /\ (behind >= Second => n = 0)
  BY <1>1, <1>2
<1> HIDE DEF n, b, s, over
<1>7. n \in Nat /\ Needed(n) \in Int
  BY <1>6, NeededBound
<1>8. \E t \in Nat : t <= behind' /\ slowed' = t - Advance(frames', t)
  BY <1>4, <1>5
<1>9. slowed' \in Int
  <2>1. Advance(n, s) \in Int
    BY <1>4, <1>7, TimerAssumption DEF Advance, Remaining, Clamp
  <2> QED
    BY <1>4, <1>5, <2>1
<1>10. pc' = "wait" => Remaining(slowed') <= Needed(n)
  BY <1>1, <1>5, <1>7, <1>9 DEF Remaining, Clamp
<1>11. pc' \in {"timer", "wait"}
  BY <1>5
<1>12. fps' \in {fps, frames}
  BY <1>5
<1>13. top' = IF behind >= Second THEN speed ELSE top
  BY <1>2, <1>5
<1> QED
  BY <1>3, <1>5, <1>6, <1>8, <1>10, <1>11, <1>12, <1>13

\* How far timer_offset_slowing is advanced: to where the frames to come need
\* the limit more than remains, and no further than the present.
LEMMA AdvanceBound ==
  ASSUME TypeOK, NEW n \in Nat, NEW s \in Nat
  PROVE  /\ Advance(n, s) \in Nat
         /\ Advance(n, s) <= s
         /\ s < Second => Needed(n) <= Remaining(s - Advance(n, s)) + Catchup
<1>1. Second \in Nat \ {0} /\ Catchup \in Nat /\ Catchup <= Second
  BY TimerAssumption
<1>2. Needed(n) \in Int /\ Needed(n) <= Second
  BY NeededBound
<1> QED
  BY <1>1, <1>2 DEF Advance, Remaining, Clamp

-----------------------------------------------------------------------------
\* The type invariant is inductive, whatever the stall.
LEMMA TypeInductive == TypeOK /\ [Next]_vars => TypeOK'
<1> SUFFICES ASSUME TypeOK, [Next]_vars
             PROVE  TypeOK'
  OBVIOUS
<1>1. CASE Tick
  BY <1>1, TimerAssumption DEF TypeOK, Tick
<1>2. CASE UpdateTimer
  <2>1. PICK s \in Nat : s <= behind' /\ slowed' = s - Advance(frames', s)
    BY <1>2, TimerStep
  <2>2. frames' \in Nat /\ fps' \in Nat /\ pc' \in {"timer", "wait"}
        /\ idle' \in 0 .. Stall
    BY <1>2, TimerStep, TimerAssumption DEF TypeOK
  <2>3. behind' \in Nat
    <3>1. behind' = IF behind >= Second THEN behind - Second ELSE behind
      BY <1>2, TimerStep
    <3> QED
      BY <3>1, TimerAssumption DEF TypeOK
  <2>4. Advance(frames', s) \in Nat /\ Advance(frames', s) <= s
    BY <2>2, AdvanceBound
  <2>5. slowed' \in Nat /\ slowed' <= behind'
    BY <2>1, <2>3, <2>4
  <2>6. UNCHANGED <<speed, focused, paused>> /\ top' \in {speed, top}
    BY <1>2, TimerStep
  <2> QED
    BY <2>2, <2>3, <2>5, <2>6 DEF TypeOK
<1>3. CASE GameWait
  <2>1. speed' \in Speeds /\ top' \in Speeds
    BY <1>3 DEF TypeOK, GameWait
  <2> QED
    BY <1>3, <2>1 DEF TypeOK, GameWait
<1>4. CASE FocusChange
  BY <1>4 DEF TypeOK, FocusChange
<1>5. CASE UNCHANGED vars
  BY <1>5 DEF TypeOK, vars
<1> QED
  BY <1>1, <1>2, <1>3, <1>4, <1>5 DEF Next

\* The program starts in a state of the right types.
LEMMA TypeInitial == Init => TypeOK
  BY TimerAssumption DEF Init, TypeOK

\* No clock runs ahead of the present, and every variable keeps its type, for
\* every stall of the program (updateTimer, gameWait).
THEOREM ClocksCorrect == Spec => []TypeOK
  BY TypeInitial, TypeInductive, PTL DEF Spec

\* Strengthening of NotTooFast: a frame is let through only while the second has
\* frames left at the present speed, which is one of those the second has had.
Paced == NotTooFast /\ speed <= top /\ (pc = "wait" => frames < speed)

\* Something remains of a second that is not over.
LEMMA SecondLeft ==
  ASSUME NEW x \in Nat, x < Second
  PROVE  Remaining(x) \in Int /\ Remaining(x) > 0
  BY TimerAssumption DEF Remaining, Clamp

\* A frame let through is one of the second's share: the sleep catches all others.
LEMMA FrameLeft ==
  ASSUME TypeOK, UpdateTimer, pc' = "wait"
  PROVE  frames' < speed
<1>1. PICK s \in Nat : s <= behind' /\ slowed' = s - Advance(frames', s)
  BY TimerStep
<1>2. /\ frames' \in Nat /\ UNCHANGED speed
      /\ Remaining(slowed') <= Needed(frames')
      /\ behind' = IF behind >= Second THEN behind - Second ELSE behind
      /\ behind >= Second => frames' = 0
  BY TimerStep
<1>3. Advance(frames', s) \in Nat /\ Advance(frames', s) <= s
  BY <1>2, AdvanceBound
<1>4. /\ Second \in Nat \ {0} /\ speed \in Nat \ {0} /\ behind \in Nat
      /\ slowed' \in Nat /\ slowed' <= behind'
  <2>1. /\ Second \in Nat \ {0} /\ speed \in Nat \ {0} /\ behind \in Nat
    BY TimerAssumption DEF TypeOK
  <2>2. behind' \in Nat
    BY <1>2, <2>1
  <2> QED
    BY <1>1, <1>3, <2>1, <2>2
<1>5. CASE behind >= Second
  BY <1>2, <1>4, <1>5
<1>6. CASE behind < Second
  <2>1. Remaining(slowed') > 0
    <3>1. behind' = behind
      BY <1>2, <1>4, <1>6
    <3>2. slowed' < Second
      BY <1>4, <1>6, <3>1
    <3> QED
      BY <1>4, <3>2, SecondLeft
  <2>2. Needed(frames') \in Int /\ (frames' >= speed => Needed(frames') <= 0)
    BY <1>2, NeededBound
  <2>3. Remaining(slowed') \in Int
    BY <1>4 DEF Remaining, Clamp
  <2> QED
    BY <1>2, <1>4, <2>1, <2>2, <2>3
<1> QED
  BY <1>4, <1>5, <1>6

\* No step lets a frame too many through.
LEMMA PacedInductive == TypeOK /\ Paced /\ [Next]_vars => Paced'
<1> SUFFICES ASSUME TypeOK, Paced, [Next]_vars
             PROVE  Paced'
  OBVIOUS
<1> USE TimerAssumption
<1>1. CASE Tick
  BY <1>1 DEF Paced, NotTooFast, Tick
<1>2. CASE UpdateTimer
  <2>1. /\ frames' \in {0, frames} /\ (behind >= Second => frames' = 0)
        /\ top' = IF behind >= Second THEN speed ELSE top
        /\ UNCHANGED speed
    BY <1>2, TimerStep
  <2>2. speed \in Nat \ {0} /\ top \in Nat
    BY DEF TypeOK
  <2>3. NotTooFast' /\ speed' <= top'
    BY <2>1, <2>2 DEF Paced, NotTooFast
  <2>4. pc' = "wait" => frames' < speed'
    BY <1>2, <2>1, FrameLeft
  <2> QED
    BY <2>3, <2>4 DEF Paced
<1>3. CASE GameWait
  <2>1. /\ pc = "wait" /\ pc' = "timer"
        /\ \/ /\ frames' = frames + 1 /\ speed' \in Speeds
              /\ top' = IF speed' > top THEN speed' ELSE top
           \/ UNCHANGED <<frames, speed, top>>
    BY <1>3 DEF GameWait
  <2>2. frames < speed /\ speed <= top /\ frames <= top
    BY <2>1 DEF Paced, NotTooFast
  <2>3. frames \in Nat /\ top \in Nat /\ speed \in Nat /\ (speed' \in Speeds => speed' \in Nat)
    BY DEF TypeOK
  <2> QED
    BY <2>1, <2>2, <2>3 DEF Paced, NotTooFast
<1>4. CASE FocusChange
  BY <1>4 DEF Paced, NotTooFast, FocusChange
<1>5. CASE UNCHANGED vars
  BY <1>5 DEF Paced, NotTooFast, vars
<1> QED
  BY <1>1, <1>2, <1>3, <1>4, <1>5 DEF Next

\* No second has more frames than the highest room speed in force in it, for every
\* stall and every sequence of speeds (updateTimer, set_room_speed).
THEOREM PaceKept == Spec => []NotTooFast
<1>1. Init => Paced
  BY TimerAssumption DEF Init, Paced, NotTooFast
<1>2. Paced => NotTooFast
  BY DEF Paced
<1> QED
  BY <1>1, <1>2, ClocksCorrect, PacedInductive, PTL DEF Spec

-----------------------------------------------------------------------------
\* The program is never held up for a second between two calls of updateTimer.
NoLongStall == Stall < Second

\* Strengthening of AtMostBehind: what is behind has been a second's rest since
\* updateTimer was last called.
Followed == AtMostBehind /\ behind < Second + idle

\* No step leaves the offsets a second or the limit behind.
LEMMA FollowedInductive ==
  ASSUME NoLongStall
  PROVE  TypeOK /\ Followed /\ [Next]_vars
           => Followed' /\ (UpdateTimer => behind' < Second)
<1> SUFFICES ASSUME TypeOK, Followed, [Next]_vars
             PROVE  Followed' /\ (UpdateTimer => behind' < Second)
  OBVIOUS
<1> USE TimerAssumption
<1>1. ASSUME UpdateTimer
      PROVE  Followed' /\ behind' < Second
  <2>1. PICK s \in Nat : s <= behind' /\ slowed' = s - Advance(frames', s)
    BY <1>1, TimerStep
  <2>2. /\ behind' = IF behind >= Second THEN behind - Second ELSE behind
        /\ idle' = 0 /\ frames' \in Nat /\ UNCHANGED speed
    BY <1>1, TimerStep
  <2>3. behind' < Second
    BY <2>2 DEF Followed, TypeOK, NoLongStall
  <2>4. s < Second
    BY <2>1, <2>2, <2>3 DEF TypeOK
  <2>5. Needed(frames') <= Remaining(slowed') + Catchup
    BY <2>1, <2>2, <2>4, AdvanceBound
  <2>6. AtMostBehind'
    BY <2>2, <2>5 DEF AtMostBehind, Needed, Remaining, Clamp
  <2> QED
    BY <2>2, <2>3, <2>6 DEF Followed
<1>2. CASE Tick
  BY <1>1, <1>2 DEF Followed, AtMostBehind, TypeOK, Tick
<1>3. CASE GameWait
  BY <1>1, <1>3 DEF Followed, AtMostBehind, GameWait
<1>4. CASE FocusChange
  BY <1>1, <1>4 DEF Followed, AtMostBehind, Needed, Remaining, Clamp, FocusChange
<1>5. CASE UNCHANGED vars
  BY <1>1, <1>5 DEF Followed, AtMostBehind, Needed, Remaining, Clamp, vars
<1> QED
  BY <1>1, <1>2, <1>3, <1>4, <1>5 DEF Next

\* At the start nothing is behind.
LEMMA FollowedInitial == Init => Followed
  BY TimerAssumption DEF Init, Followed, AtMostBehind

\* Without a stall of a second, a frame is let through only when the frames to
\* come need at most the limit on catching up more than remains (updateTimer).
THEOREM CatchupLimited ==
  ASSUME NoLongStall
  PROVE  Spec => []AtMostBehind
<1>1. Followed => AtMostBehind
  BY DEF Followed
<1> QED
  BY <1>1, ClocksCorrect, FollowedInitial, FollowedInductive, PTL DEF Spec

\* Without a stall of a second, updateTimer leaves less than a second between
\* the offset and the present (offset_modulus_one_second).
THEOREM OffsetKeepsUp ==
  ASSUME NoLongStall
  PROVE  Spec => OffsetAdvanced
<1>1. TypeOK /\ Followed /\ [Next]_vars => [UpdateTimer => behind' < Second]_vars
  BY FollowedInductive
<1> QED
  BY <1>1, ClocksCorrect, FollowedInitial, FollowedInductive, PTL
  DEF Spec, OffsetAdvanced
===============================================================================
