---------------------------- MODULE TimelineProofs ----------------------------
(***************************************************************************)
(* Proofs about Timeline, for all timelines, moments, speeds and           *)
(* positions.                                                              *)
(***************************************************************************)
EXTENDS Timeline, TLAPS

\* A whole step is up to a position just when it is up to the position rounded down.
LEMMA RoundingDown ==
  ASSUME NEW n \in Int, NEW k \in Int
  PROVE  /\ Floor(n) \in Int
         /\ Unit * k <= Floor(n) <=> Unit * k <= n
<1> DEFINE d == n \div Unit
<1>0. Unit \in Nat \ {0}
  BY TimelineAssumption
<1>1. d \in Int /\ Unit * d <= n /\ n < Unit * d + Unit
  BY <1>0, SMTT(30)
<1>2. Floor(n) = Unit * d
  BY DEF Floor
<1> HIDE DEF d
<1>3. k <= d => Unit * k <= Unit * d
  BY <1>0, <1>1, SMTT(30)
<1>4. k >= d + 1 => Unit * k >= Unit * (d + 1)
  BY <1>0, <1>1, SMTT(30)
<1>5. Unit * (d + 1) = Unit * d + Unit
  BY <1>0, <1>1, SMTT(30)
<1>6. Unit * k \in Int /\ Unit * d \in Int
  BY <1>0, <1>1
<1> QED
  BY <1>0, <1>1, <1>2, <1>3, <1>4, <1>5, <1>6

\* A moment, which is at a whole step, is from a position on just when it is from
\* the position rounded up on, and back from it just when from the one rounded down.
LEMMA Rounding ==
  ASSUME NEW t \in Timelines, NEW m \in Moments[t], NEW p \in Int
  PROVE  /\ m >= Ceil(p) <=> m >= p
         /\ m <= Floor(p) <=> m <= p
<1>0. Unit \in Nat \ {0} /\ m \in Nat /\ m % Unit = 0
  BY TimelineAssumption
<1>1. PICK q \in Int : m = Unit * q
  <2>1. m = (Unit * (m \div Unit)) + (m % Unit) /\ m \div Unit \in Int
    BY <1>0, SMTT(30)
  <2> QED
    BY <1>0, <2>1
<1>2. m <= Floor(p) <=> m <= p
  BY <1>1, RoundingDown
<1>3. -m = Unit * (-q)
  BY <1>0, <1>1, SMTT(30)
<1>4. Floor(-p) \in Int /\ (-m <= Floor(-p) <=> -m <= -p)
  BY <1>1, <1>3, RoundingDown
<1>5. m >= Ceil(p) <=> m >= p
  BY <1>0, <1>4 DEF Ceil
<1> QED
  BY <1>2, <1>5

\* Range after one more moment.
LEMMA RangeAppend ==
  ASSUME NEW s \in Seq(Nat), NEW m \in Nat
  PROVE  /\ Append(s, m) \in Seq(Nat)
         /\ Range(Append(s, m)) = Range(s) \cup {m}
         /\ \A i \in DOMAIN Append(s, m) :
              /\ i \in DOMAIN s => Append(s, m)[i] = s[i]
              /\ i \notin DOMAIN s => i = Len(s) + 1 /\ Append(s, m)[i] = m
         /\ \A i \in DOMAIN s : i \in DOMAIN Append(s, m) /\ i <= Len(s) /\ s[i] \in Range(s)
<1>1. /\ Append(s, m) \in Seq(Nat) /\ Len(s) \in Nat
      /\ DOMAIN s = 1 .. Len(s) /\ DOMAIN Append(s, m) = 1 .. Len(s) + 1
      /\ \A i \in 1 .. Len(s) : Append(s, m)[i] = s[i]
      /\ Append(s, m)[Len(s) + 1] = m
  OBVIOUS
<1>2. Range(Append(s, m)) \subseteq Range(s) \cup {m}
  BY <1>1 DEF Range
<1>3. Range(s) \cup {m} \subseteq Range(Append(s, m))
  <2>1. m \in Range(Append(s, m))
    <3>1. Len(s) + 1 \in DOMAIN Append(s, m)
      BY <1>1
    <3> QED
      BY <1>1, <3>1 DEF Range
  <2>2. ASSUME NEW i \in DOMAIN s PROVE s[i] \in Range(Append(s, m))
    <3>1. i \in DOMAIN Append(s, m) /\ Append(s, m)[i] = s[i]
      BY <1>1
    <3> QED
      BY <3>1 DEF Range
  <2> QED
    BY <2>1, <2>2 DEF Range
<1>4. \A i \in DOMAIN s : s[i] \in Range(s)
  BY DEF Range
<1> QED
  BY <1>1, <1>2, <1>3, <1>4

\* An iterator stands on a moment of the set, or past its end.
LEMMA IteratorType ==
  ASSUME NEW t \in Timelines, NEW S \in SUBSET Moments[t], NEW n,
         n \in Lowest(S) \/ n \in Highest(S)
  PROVE  n \in Nat \cup {End}
BY TimelineAssumption DEF Lowest, Highest

-----------------------------------------------------------------------------
(* Types. *)

\* The part of the type that is about flags.
Flags == running \in BOOLEAN /\ loop \in BOOLEAN

\* The rest of it.
Values ==
  /\ pc \in {"step", "walk", "scripts", "endstep"}
  /\ index \in Timelines \cup {NoTimeline}
  /\ speed \in Int /\ position \in Int
  /\ next \in Nat \cup {End}
  /\ passed \in Seq(Nat) /\ nth \in Nat
  /\ walked \in Timelines \cup {NoTimeline} /\ from \in Int /\ rate \in Int

\* The type is its two parts.
LEMMA TypeParts == TypeOK <=> Flags /\ Values
BY Zenon DEF TypeOK, Flags, Values

\* The initial states are of the type.
LEMMA TypeInit == Init => TypeOK
<1> SUFFICES ASSUME Init PROVE Flags /\ Values
  BY TypeParts
<1>1. Flags
  BY Zenon DEF Init, Flags
<1>2. Values
  BY TimelineAssumption DEF Init, Values, NoTimeline, End
<1> QED
  BY <1>1, <1>2

\* Every step keeps the flags.
LEMMA FlagsNext ==
  ASSUME Flags, [Next]_vars
  PROVE  Flags'
BY Zenon DEF Flags, Next, Engine, Game, NoAdvance, StartWalk, PassMoment, FinishWalk,
             CallNext, LeaveWalk, LoopTimeline, action_set_timeline,
             action_set_timeline_position, action_set_timeline_speed,
             action_timeline_start, action_timeline_stop, vars, settings

\* A walk is over the moments of a timeline.
HasTimeline == pc = "walk" => index \in Timelines

\* Every step keeps the rest of the type.
LEMMA ValuesNext ==
  ASSUME Values, HasTimeline, [Next]_vars
  PROVE  Values' /\ HasTimeline'
<1> USE TimelineAssumption DEF Values, HasTimeline, settings, history
<1>1. CASE NoAdvance
  BY <1>1 DEF NoAdvance
<1>2. CASE StartWalk
  <2>1. next' \in Nat \cup {End}
    <3> DEFINE S == {m \in Moments[index] : m >= Ceil(position)}
               T == {m \in Moments[index] : m <= Floor(position)}
    <3>1. next' \in Lowest(S) \/ next' \in Highest(T)
      BY <1>2 DEF StartWalk
    <3>2. S \in SUBSET Moments[index] /\ T \in SUBSET Moments[index]
      OBVIOUS
    <3> HIDE DEF S, T
    <3> QED
      BY <1>2, <3>1, <3>2, IteratorType DEF StartWalk
  <2> QED
    BY <1>2, <2>1 DEF StartWalk
<1>3. CASE PassMoment
  <2>1. next \in Nat /\ index \in Timelines
    BY <1>3 DEF PassMoment, Lands
  <2>2. next' \in Nat \cup {End}
    <3> DEFINE S == {m \in Moments[index] : m > next}
               T == {m \in Moments[index] : m < next}
    <3>1. next' \in Lowest(S) \/ next' \in Highest(T)
      BY <1>3 DEF PassMoment
    <3>2. S \in SUBSET Moments[index] /\ T \in SUBSET Moments[index]
      OBVIOUS
    <3> HIDE DEF S, T
    <3> QED
      BY <2>1, <3>1, <3>2, IteratorType
  <2>3. Append(passed, next) \in Seq(Nat)
    BY <2>1, RangeAppend
  <2> QED
    BY <1>3, <2>1, <2>2, <2>3 DEF PassMoment
<1>4. CASE FinishWalk
  BY <1>4 DEF FinishWalk
<1>5. CASE CallNext
  BY <1>5 DEF CallNext
<1>6. CASE LeaveWalk
  BY <1>6 DEF LeaveWalk, NoTimeline, End
<1>7. CASE LoopTimeline
  <2>1. position' \in Int
    <3>1. CASE running /\ loop /\ speed # 0 /\ index \in Timelines
      <4>1. PICK last \in Highest(Moments[index]) : position' \in {0, last, position}
        BY <1>7, <3>1 DEF LoopTimeline
      <4>2. last \in Nat \cup {End}
        BY <3>1, <4>1, IteratorType
      <4> QED
        BY <4>1, <4>2 DEF End
    <3>2. CASE ~(running /\ loop /\ speed # 0 /\ index \in Timelines)
      BY <1>7, <3>2 DEF LoopTimeline
    <3> QED
      BY <3>1, <3>2
  <2> QED
    BY <1>7, <2>1 DEF LoopTimeline
<1>8. CASE Game
  <2>1. pc # "walk" /\ UNCHANGED <<pc, next, passed, nth, walked, from, rate>>
    BY <1>8 DEF Game
  <2>2. index' \in Timelines \cup {NoTimeline} /\ speed' \in Int /\ position' \in Int
    <3>1. CASE action_set_timeline
      BY <3>1 DEF action_set_timeline
    <3>2. CASE action_set_timeline_position
      BY <3>2 DEF action_set_timeline_position
    <3>3. CASE action_set_timeline_speed
      BY <3>3 DEF action_set_timeline_speed
    <3>4. CASE action_timeline_start
      BY <3>4 DEF action_timeline_start
    <3>5. CASE action_timeline_stop
      BY <3>5 DEF action_timeline_stop
    <3> QED
      BY <1>8, <3>1, <3>2, <3>3, <3>4, <3>5 DEF Game
  <2> QED
    BY <2>1, <2>2
<1>9. CASE UNCHANGED vars
  BY <1>9 DEF vars
<1> QED
  BY <1>1, <1>2, <1>3, <1>4, <1>5, <1>6, <1>7, <1>8, <1>9 DEF Next, Engine

\* The settings of a timeline, the walk over its moments and the scripts still
\* to be called keep their types, for all timelines and whatever the game sets
\* (advance_curr_timeline, loop_curr_timeline, action_set_timeline).
THEOREM TypeCorrect == Spec => []TypeOK
<1>1. Init => TypeOK /\ HasTimeline
  BY TypeInit DEF Init, HasTimeline
<1>2. TypeOK /\ HasTimeline /\ [Next]_vars => TypeOK' /\ HasTimeline'
  <2> SUFFICES ASSUME TypeOK, HasTimeline, [Next]_vars PROVE TypeOK' /\ HasTimeline'
    OBVIOUS
  <2>1. Flags' /\ Values' /\ HasTimeline'
    BY TypeParts, FlagsNext, ValuesNext
  <2> QED
    BY <2>1, Zenon DEF TypeOK, Flags, Values
<1> QED
  BY <1>1, <1>2, PTL DEF Spec

-----------------------------------------------------------------------------
(* The walk. *)

\* Moments passed so far, and the one the iterator stands on, when the walk goes
\* forwards: all of them from "from" on that come before it.
Forward ==
  /\ speed > 0 /\ from <= position
  /\ next # End => next \in Moments[walked] /\ position <= next
  /\ Range(passed) = {m \in Moments[walked] : from <= m /\ (next = End \/ m < next)}
  /\ \A m \in Range(passed) : m <= position
  /\ \A i, j \in DOMAIN passed : i < j => passed[i] < passed[j]

\* The same when it goes backwards.
Backward ==
  /\ speed < 0 /\ position <= from
  /\ next # End => next \in Moments[walked] /\ next <= position
  /\ Range(passed) = {m \in Moments[walked] : m <= from /\ (next = End \/ next < m)}
  /\ \A m \in Range(passed) : position <= m
  /\ \A i, j \in DOMAIN passed : i < j => passed[i] > passed[j]

\* What position has gained, timeline_speed has lost.
Walking ==
  pc = "walk" =>
    /\ walked \in Timelines /\ index = walked
    /\ position + speed = from + rate
    /\ (rate > 0 /\ Forward) \/ (rate < 0 /\ Backward)

\* The invariant: of the walk, and of what it leaves to the scripts.
IInv == Walking /\ PassedExactly

\* A walk starts with nothing passed.
LEMMA WalkStarts ==
  ASSUME Values, StartWalk
  PROVE  Walking'
<1> DEFINE M == Moments[index]
<1>1. /\ index \in Timelines /\ M \subseteq Nat /\ position \in Int /\ speed \in Int
      /\ speed # 0
      /\ walked' = index /\ index' = index /\ from' = position /\ rate' = speed
      /\ position' = position /\ speed' = speed /\ passed' = <<>>
  BY TimelineAssumption DEF StartWalk, Values, settings
<1>2. \A m \in M : /\ m >= Ceil(position) <=> m >= position
                   /\ m <= Floor(position) <=> m <= position
  BY <1>1, Rounding
<1>3. Range(passed') = {} /\ DOMAIN passed' = {}
  BY <1>1 DEF Range
<1>4. CASE speed > 0
  <2>1. next' \in Lowest({m \in M : m >= position})
    <3>1. {m \in M : m >= Ceil(position)} = {m \in M : m >= position}
      BY <1>2
    <3> QED
      BY <1>4, <3>1 DEF StartWalk
  <2>2. Forward'
    BY <1>1, <1>3, <1>4, <2>1 DEF Forward, Lowest, End
  <2> QED
    BY <1>1, <1>4, <2>2 DEF Walking
<1>5. CASE speed < 0
  <2>1. next' \in Highest({m \in M : m <= position})
    <3>1. {m \in M : m <= Floor(position)} = {m \in M : m <= position}
      BY <1>2
    <3>2. ~(speed > 0)
      BY <1>1, <1>5
    <3> QED
      BY <3>1, <3>2 DEF StartWalk
  <2>2. Backward'
    BY <1>1, <1>3, <1>5, <2>1 DEF Backward, Highest, End
  <2> QED
    BY <1>1, <1>5, <2>2 DEF Walking
<1> QED
  BY <1>1, <1>4, <1>5

\* The walk passes one more moment.
LEMMA MomentPassed ==
  ASSUME Values, Walking, PassMoment
  PROVE  Walking'
<1> DEFINE M == Moments[walked]
<1>1. /\ walked \in Timelines /\ index = walked /\ M \subseteq Nat
      /\ {position, speed, from, rate} \subseteq Int /\ passed \in Seq(Nat)
      /\ next \in M /\ next \in Nat /\ next # End
      /\ walked' = walked /\ index' = index /\ from' = from /\ rate' = rate
      /\ position' = next /\ speed' = speed - (next - position)
      /\ passed' = Append(passed, next)
      /\ position + speed = from + rate
  BY TimelineAssumption DEF PassMoment, Lands, Walking, Values, Forward, Backward, history
<1>2. /\ Range(passed') = Range(passed) \cup {next}
      /\ \A i \in DOMAIN passed' :
           /\ i \in DOMAIN passed => passed'[i] = passed[i]
           /\ i \notin DOMAIN passed => i = Len(passed) + 1 /\ passed'[i] = next
      /\ \A i \in DOMAIN passed : i \in DOMAIN passed' /\ i <= Len(passed) /\ passed[i] \in Range(passed)
      /\ DOMAIN passed' \subseteq Nat /\ Len(passed) \in Nat
  BY <1>1, RangeAppend
<1>3. position' + speed' = from' + rate'
  BY <1>1
<1>4. CASE rate > 0 /\ Forward
  <2>1. /\ position <= next /\ position + speed > next
        /\ next' \in Lowest({m \in M : m > next})
    BY <1>1, <1>4 DEF Forward, PassMoment, Lands
  <2>2. Forward'
    <3>1. speed' > 0 /\ from' <= position'
      BY <1>1, <1>4, <2>1 DEF Forward
    <3>2. next' # End => next' \in Moments[walked'] /\ position' <= next'
      BY <1>1, <2>1 DEF Lowest
    <3>3. Range(passed') = {m \in M : from <= m /\ (next' = End \/ m < next')}
      <4>1. ASSUME NEW m \in M PROVE (next' = End \/ m < next') <=> (m < next \/ m = next)
        <5> DEFINE S == {k \in M : k > next}
        <5>1. CASE S = {}
          <6>1. next' = End
            BY <2>1, <5>1 DEF Lowest
          <6>2. ~(m > next) /\ m \in Nat /\ next \in Nat
            BY <1>1, <5>1
          <6>3. m < next \/ m = next
            BY <6>2
          <6> QED
            BY <6>1, <6>3
        <5>2. CASE S # {}
          <6>1. next' \in S /\ \A k \in S : next' <= k
            BY <2>1, <5>2 DEF Lowest
          <6>2. /\ next' \in Nat /\ next' # End /\ m \in Nat /\ next \in Nat
                /\ next' > next
            BY <1>1, <6>1 DEF End
          <6>3. m > next => ~(m < next')
            <7>1. m > next => m \in S
              OBVIOUS
            <7> QED
              BY <6>1, <6>2, <7>1
          <6> QED
            BY <6>2, <6>3
        <5> QED
          BY <5>1, <5>2
      <4>2. Range(passed) = {m \in M : from <= m /\ m < next}
        BY <1>1, <1>4 DEF Forward
      <4>3. from <= next
        BY <1>1, <1>4, <2>1 DEF Forward
      <4> QED
        BY <1>1, <1>2, <4>1, <4>2, <4>3
    <3>4. \A m \in Range(passed') : m <= position'
      BY <1>1, <1>2, <1>4, <2>1 DEF Forward
    <3>5. ASSUME NEW i \in DOMAIN passed', NEW j \in DOMAIN passed', i < j
          PROVE  passed'[i] < passed'[j]
      <4>1. \A m \in Range(passed) : m < next
        BY <1>1, <1>4 DEF Forward
      <4>2. i \in DOMAIN passed
        BY <1>2, <3>5
      <4>3. CASE j \in DOMAIN passed
        BY <1>2, <1>4, <3>5, <4>2, <4>3 DEF Forward
      <4>4. CASE j \notin DOMAIN passed
        BY <1>2, <4>1, <4>2, <4>4
      <4> QED
        BY <4>3, <4>4
    <3> QED
      BY <1>1, <3>1, <3>2, <3>3, <3>4, <3>5 DEF Forward
  <2> QED
    BY <1>1, <1>3, <1>4, <2>2 DEF Walking
<1>5. CASE rate < 0 /\ Backward
  <2>1. /\ next <= position /\ position + speed < next
        /\ next' \in Highest({m \in M : m < next})
    BY <1>1, <1>5 DEF Backward, PassMoment, Lands
  <2>2. Backward'
    <3>1. speed' < 0 /\ position' <= from'
      BY <1>1, <1>5, <2>1 DEF Backward
    <3>2. next' # End => next' \in Moments[walked'] /\ next' <= position'
      BY <1>1, <2>1 DEF Highest
    <3>3. Range(passed') = {m \in M : m <= from /\ (next' = End \/ next' < m)}
      <4>1. ASSUME NEW m \in M PROVE (next' = End \/ next' < m) <=> (next < m \/ m = next)
        <5> DEFINE S == {k \in M : k < next}
        <5>1. CASE S = {}
          <6>1. next' = End
            BY <2>1, <5>1 DEF Highest
          <6>2. ~(m < next) /\ m \in Nat /\ next \in Nat
            BY <1>1, <5>1
          <6>3. next < m \/ m = next
            BY <6>2
          <6> QED
            BY <6>1, <6>3
        <5>2. CASE S # {}
          <6>1. next' \in S /\ \A k \in S : k <= next'
            BY <2>1, <5>2 DEF Highest
          <6>2. /\ next' \in Nat /\ next' # End /\ m \in Nat /\ next \in Nat
                /\ next' < next
            BY <1>1, <6>1 DEF End
          <6>3. m < next => ~(next' < m)
            <7>1. m < next => m \in S
              OBVIOUS
            <7> QED
              BY <6>1, <6>2, <7>1
          <6> QED
            BY <6>2, <6>3
        <5> QED
          BY <5>1, <5>2
      <4>2. Range(passed) = {m \in M : m <= from /\ next < m}
        BY <1>1, <1>5 DEF Backward
      <4>3. next <= from
        BY <1>1, <1>5, <2>1 DEF Backward
      <4> QED
        BY <1>1, <1>2, <4>1, <4>2, <4>3
    <3>4. \A m \in Range(passed') : position' <= m
      BY <1>1, <1>2, <1>5, <2>1 DEF Backward
    <3>5. ASSUME NEW i \in DOMAIN passed', NEW j \in DOMAIN passed', i < j
          PROVE  passed'[i] > passed'[j]
      <4>1. \A m \in Range(passed) : m > next
        BY <1>1, <1>5 DEF Backward
      <4>2. i \in DOMAIN passed
        BY <1>2, <3>5
      <4>3. CASE j \in DOMAIN passed
        BY <1>2, <1>5, <3>5, <4>2, <4>3 DEF Backward
      <4>4. CASE j \notin DOMAIN passed
        BY <1>2, <4>1, <4>2, <4>4
      <4> QED
        BY <4>3, <4>4
    <3> QED
      BY <1>1, <3>1, <3>2, <3>3, <3>4, <3>5 DEF Backward
  <2> QED
    BY <1>1, <1>3, <1>5, <2>2 DEF Walking
<1> QED
  BY <1>4, <1>5 DEF Walking, PassMoment

\* The walk ends before the next moment.
LEMMA WalkFinished ==
  ASSUME Values, Walking, FinishWalk
  PROVE  PassedExactly'
<1> DEFINE M == Moments[walked]
<1>1. /\ walked \in Timelines /\ M \subseteq Nat
      /\ {position, speed, from, rate} \subseteq Int
      /\ position + speed = from + rate
      /\ UNCHANGED <<walked, from, rate, passed, next>>
      /\ index = walked
  BY TimelineAssumption DEF FinishWalk, Walking, Values, history
<1>2. CASE rate > 0 /\ Forward
  <2>1. next = End \/ from + rate <= next
    BY <1>1, <1>2 DEF FinishWalk, Lands, Forward
  <2>2. Range(passed) = Due
    BY <1>1, <1>2, <2>1 DEF Forward, Due
  <2> QED
    BY <1>1, <1>2, <2>2 DEF PassedExactly, Forward, Due
<1>3. CASE rate < 0 /\ Backward
  <2>1. next = End \/ from + rate >= next
    BY <1>1, <1>3 DEF FinishWalk, Lands, Backward
  <2>2. Range(passed) = Due
    BY <1>1, <1>3, <2>1 DEF Backward, Due
  <2> QED
    BY <1>1, <1>3, <2>2 DEF PassedExactly, Backward, Due
<1> QED
  BY <1>2, <1>3 DEF Walking, FinishWalk

\* Every step keeps the invariant.
LEMMA WalkNext ==
  ASSUME Values, IInv, [Next]_vars
  PROVE  IInv'
<1> USE DEF IInv
<1>1. CASE StartWalk
  BY <1>1, WalkStarts DEF StartWalk, PassedExactly
<1>2. CASE PassMoment
  BY <1>2, MomentPassed DEF PassMoment, PassedExactly
<1>3. CASE FinishWalk
  BY <1>3, WalkFinished DEF FinishWalk, Walking
<1>4. CASE NoAdvance \/ LeaveWalk \/ LoopTimeline
  BY <1>4 DEF NoAdvance, LeaveWalk, LoopTimeline, Walking, PassedExactly
<1>5. CASE CallNext \/ Game \/ UNCHANGED vars
  <2>1. pc' # "walk" \/ UNCHANGED vars
    BY <1>5 DEF CallNext, Game
  <2>2. UNCHANGED <<pc, passed, walked, from, rate>>
    BY <1>5 DEF CallNext, Game, vars, history
  <2>3. PassedExactly'
    BY <2>2 DEF PassedExactly, Due
  <2>4. Walking'
    BY <2>1 DEF Walking, Forward, Backward, vars, settings, history
  <2> QED
    BY <2>3, <2>4
<1> QED
  BY <1>1, <1>2, <1>3, <1>4, <1>5 DEF Next, Engine

\* For all timelines, speeds and positions, each step of a timeline passes just
\* the moments it crosses, in its direction's order, though it is the speed that
\* keeps count of the way left (advance_curr_timeline).
THEOREM WalkExact == Spec => []PassedExactly
<1>1. Init => IInv
  BY DEF Init, IInv, Walking, PassedExactly
<1>2. TypeOK /\ IInv /\ [Next]_vars => IInv'
  BY TypeParts, WalkNext
<1>3. IInv => PassedExactly
  BY DEF IInv
<1> QED
  BY <1>1, <1>2, <1>3, TypeCorrect, PTL DEF Spec
=============================================================================
