---------------------------- MODULE SpliceProofs ----------------------------
(***************************************************************************)
(* The watchdog's guarantees, for every deadline, check period, lateness   *)
(* and interleaving of pumps and ticks.                                    *)
(***************************************************************************)
EXTENDS Splice, TLAPS

-----------------------------------------------------------------------------
(* The inductive invariant. *)

\* The tick before the next one was due in the past, and the next is at most Late overdue.
OnSchedule == due - Period <= now /\ now <= due + Late

\* A write is owed an answer exactly while the last write is not older than every answer.
OwedRun ==
    /\ \A w \in owed : (\E x \in wrote : w <= x) /\ (\A h \in heard : h <= w)
    /\ owed = {} => \A x \in wrote : \E h \in heard : x <= h

\* Bytes the far side delivered are recorded before the pump reads again.
DeliveredIsRecorded ==
    pump["from_remote"] = "reading" /\ silent = {} => owed = {}

\* The clock stands at a moment something moved, and the deadline had not passed at the last tick.
ClockIsLive ==
    \A c \in clock :
        /\ \E t \in wrote \cup heard : c <= t
        /\ ended = Running => \A d \in Stall : due - Period < c + d

\* The clock of an unanswered run starts at most one tick after its first write...
ClockNotLate ==
    \A w \in owed :
        (\A h \in heard : h < w) =>
            /\ \A c \in clock : c <= w + Period + Late
            /\ clock = {} /\ ended = Running => due - Period <= w

\* ... and at most one tick before it.
ClockNotEarly ==
    ended = Running => \A c \in clock :
        /\ \A w \in owed :
              w <= c + Period + Late \/ \E h \in heard : w <= h + Period + Late
        /\ owed = {} => \E h \in heard : due - Period <= h

\* At the last tick the connection had not been quiet for the idle deadline.
QuietIsShort ==
    ended = Running =>
        \A d \in Idle : due - Period < Latest({0} \cup wrote \cup heard) + d

\* What the verdict of the last tick rested on.
Verdicts ==
    /\ AnswersHoldOffTheStall
    /\ StallIsEarned
    /\ StalledMeansSilentOrUnread
    /\ IdleNeverHidesAStall

Timing ==
    /\ OnSchedule
    /\ OwedRun
    /\ DeliveredIsRecorded
    /\ ClockIsLive
    /\ ClockNotLate
    /\ ClockNotEarly

IInv ==
    /\ TypeOK
    /\ Timing
    /\ QuietIsShort
    /\ Verdicts

-----------------------------------------------------------------------------
(* Lemmas about the operators. *)

\* The latest of up to three optional stamps is one of them and later than none of the others.
LEMMA LatestOfOptions ==
    ASSUME NEW R, NEW S, NEW T,
           IsOption(R, Nat), IsOption(S, Nat), IsOption(T, Nat), R \cup S \cup T # {}
    PROVE  /\ Latest(R \cup S \cup T) \in R \cup S \cup T
           /\ \A u \in R \cup S \cup T : u <= Latest(R \cup S \cup T)
<1> DEFINE All == R \cup S \cup T
<1>1. \E m \in All : \A u \in All : u <= m
  <2>1. PICK x \in All : TRUE
    OBVIOUS
  <2>2. PICK y \in All : \A r \in R : r <= y
    <3>1. CASE R = {}
      BY <3>1
    <3>2. CASE R # {}
      BY <3>2 DEF IsOption
    <3> QED BY <3>1, <3>2
  <2>3. PICK z \in All : y <= z /\ \A s \in S : s <= z
    <3>1. CASE \E s \in S : y <= s
      BY <3>1 DEF IsOption
    <3>2. CASE ~ \E s \in S : y <= s
      <4>1. y \in Nat /\ \A s \in S : s \in Nat
        BY DEF IsOption
      <4> QED BY <3>2, <4>1
    <3> QED BY <3>1, <3>2
  <2>4. \E m \in All : z <= m /\ \A t \in T : t <= m
    <3>1. CASE \E t \in T : z <= t
      BY <3>1 DEF IsOption
    <3>2. CASE ~ \E t \in T : z <= t
      <4>1. z \in Nat /\ \A t \in T : t \in Nat
        BY DEF IsOption
      <4> QED BY <3>2, <4>1
    <3> QED BY <3>1, <3>2
  <2> QED BY <2>2, <2>3, <2>4 DEF IsOption
<1> QED BY <1>1 DEF Latest

\* The check period is a positive number of milliseconds.
LEMMA PeriodIsPositive == Period \in Positive
<1>1. CASE Stall \cup Idle = {}
  BY <1>1, PeriodAssumption DEF Period
<1>2. CASE Stall \cup Idle # {}
  <2>1. \E t \in Stall \cup Idle : \A u \in Stall \cup Idle : t <= u
    <3>1. CASE Stall = {}
      <4>1. PICK i \in Idle : i \in Nat /\ \A u \in Idle : u = i
        BY <1>2, <3>1, DeadlineAssumption DEF IsOption, Positive
      <4>2. \A u \in Stall \cup Idle : u = i
        BY <3>1, <4>1
      <4> QED BY <4>1, <4>2
    <3>2. CASE Stall # {}
      <4>1. PICK s \in Stall : s \in Nat /\ \A u \in Stall : u = s
        BY <3>2, DeadlineAssumption DEF IsOption, Positive
      <4>2. CASE \E i \in Idle : i < s
        BY <4>1, <4>2, DeadlineAssumption DEF IsOption, Positive
      <4>3. CASE ~ \E i \in Idle : i < s
        BY <4>1, <4>3, DeadlineAssumption DEF IsOption, Positive
      <4> QED BY <4>2, <4>3
    <3> QED BY <3>1, <3>2
  <2>2. Shortest(Stall \cup Idle) \in Nat
    BY <2>1, DeadlineAssumption DEF Shortest, IsOption, Positive
  <2>3. Clamp(Shortest(Stall \cup Idle) \div 4) \in Positive
    BY <2>2, PeriodAssumption DEF Clamp, Positive
  <2> QED BY <1>2, <2>3 DEF Period
<1> QED BY <1>1, <1>2

\* The moment a connection last moved, counting from its beginning if it never did.
LEMMA LastMove ==
    ASSUME NEW W, NEW H, IsOption(W, Nat), IsOption(H, Nat)
    PROVE  /\ Latest({0} \cup W \cup H) \in Nat
           /\ Latest({0} \cup W \cup H) \in {0} \cup W \cup H
           /\ \A t \in W \cup H : t <= Latest({0} \cup W \cup H)
<1>1. IsOption({0}, Nat)
  BY DEF IsOption
<1>2. Latest({0} \cup W \cup H) \in {0} \cup W \cup H
  BY <1>1, LatestOfOptions
<1>3. \A t \in {0} \cup W \cup H : t <= Latest({0} \cup W \cup H)
  BY <1>1, LatestOfOptions
<1> QED BY <1>1, <1>2, <1>3 DEF IsOption

\* The stamps are optional natural numbers, none of them in the future.
LEMMA Stamps ==
    ASSUME TypeOK
    PROVE  /\ now \in Nat /\ due \in Nat
           /\ IsOption(wrote, Nat) /\ IsOption(heard, Nat)
           /\ IsOption(clock, Nat) /\ IsOption(owed, Nat)
           /\ \A t \in wrote \cup heard \cup clock \cup owed : t \in Nat /\ t <= now
<1>1. IsOption(wrote, 0..now) /\ IsOption(heard, 0..now)
  BY DEF TypeOK, Directions, wrote, heard
<1> QED BY <1>1 DEF TypeOK, IsOption, Times

-----------------------------------------------------------------------------
(* Each action preserves the invariant. *)

LEMMA InitEstablishes == Init => IInv
<1> SUFFICES ASSUME Init PROVE IInv
  OBVIOUS
<1> USE PeriodIsPositive, TimeAssumption, DeadlineAssumption
<1>1. TypeOK
  BY DEF Init, TypeOK, Directions, IsOption, Positive, Times, Running
<1>2. wrote = {} /\ heard = {}
  BY DEF Init, Directions, wrote, heard
<1>3. OnSchedule /\ OwedRun /\ DeliveredIsRecorded
  BY <1>2 DEF Init, OnSchedule, OwedRun, DeliveredIsRecorded, Positive
<1>4. ClockIsLive /\ ClockNotLate /\ ClockNotEarly
  BY <1>2 DEF Init, ClockIsLive, ClockNotLate, ClockNotEarly
<1>5. QuietIsShort
  <2>1. IsOption(wrote, Nat) /\ IsOption(heard, Nat)
    BY <1>2 DEF IsOption
  <2>2. Latest({0} \cup wrote \cup heard) \in Nat
    BY <2>1, LastMove
  <2> QED BY <2>2 DEF Init, QuietIsShort, IsOption, Positive
<1>6. Verdicts
  BY DEF Init, Verdicts, AnswersHoldOffTheStall, StallIsEarned, StalledMeansSilentOrUnread,
         IdleNeverHidesAStall, Running
<1> QED BY <1>1, <1>3, <1>4, <1>5, <1>6 DEF IInv, Timing

\* No verdict has been reached while the splice runs, so a step that leaves it running keeps them.
LEMMA RunningVerdicts == (ended # "stalled" /\ ended # "idle") => Verdicts
BY DEF Verdicts, AnswersHoldOffTheStall, StallIsEarned, StalledMeansSilentOrUnread,
       IdleNeverHidesAStall

LEMMA ReadPreserves ==
    ASSUME IInv, NEW d \in Directions, Read(d)
    PROVE  IInv'
<1> USE PeriodIsPositive, TimeAssumption DEF IInv, Timing
<1>1. TypeOK'
  BY DEF Read, TypeOK, Directions, IsOption
<1>2. /\ wrote' = wrote /\ heard' = heard /\ Period' = Period
      /\ UNCHANGED <<now, last, clock, due, ended, owed>>
  BY DEF Read, wrote, heard
<1>3. OnSchedule' /\ OwedRun'
  BY <1>2 DEF OnSchedule, OwedRun
<1>4. DeliveredIsRecorded'
  BY <1>2 DEF Read, DeliveredIsRecorded, TypeOK, Directions
<1>5. ClockIsLive' /\ ClockNotLate' /\ ClockNotEarly'
  BY <1>2 DEF ClockIsLive, ClockNotLate, ClockNotEarly
<1>6. QuietIsShort'
  BY <1>2 DEF QuietIsShort
<1>7. Verdicts'
  BY RunningVerdicts, <1>2 DEF Read, Verdicts, AnswersHoldOffTheStall, StallIsEarned,
     StalledMeansSilentOrUnread, IdleNeverHidesAStall, Running
<1> QED BY <1>1, <1>3, <1>4, <1>5, <1>6, <1>7

LEMMA RecordPreserves ==
    ASSUME IInv, NEW d \in Directions, Record(d)
    PROVE  IInv'
<1> USE PeriodIsPositive, TimeAssumption DEF IInv, Timing
<1>1. TypeOK'
  BY DEF Record, TypeOK, Directions, IsOption, FirstWriteSince, Times
<1>2. UNCHANGED <<now, clock, due, ended>> /\ ended = Running
  BY DEF Record
<1>3. now \in Nat /\ due \in Nat /\ Period \in Nat /\ Late \in Nat /\ Period >= 1
  BY DEF TypeOK, Times, Positive
<1>4. ASSUME d = "to_remote" PROVE Timing'
  <2>1. /\ wrote' = {now} /\ heard' = heard
        /\ owed' = IF owed = {} THEN {now} ELSE owed
        /\ silent' = IF silent = {} THEN {now} ELSE silent
    BY <1>4 DEF Record, wrote, heard, FirstWriteSince, TypeOK, Directions
  <2>2. (\A h \in heard : h \in Nat /\ h <= now) /\ (\A x \in wrote : x \in Nat /\ x <= now)
    BY DEF TypeOK, Directions, heard, wrote, IsOption
  <2>3. (\A w \in owed : w \in Nat /\ w <= now) /\ (\A c \in clock : c \in Nat /\ c <= now)
    BY DEF TypeOK, IsOption
  <2>4. OnSchedule'
    BY <1>2, <1>3 DEF OnSchedule
  <2>5. OwedRun'
    <3>1. CASE owed = {}
      BY <2>1, <2>2, <2>3, <3>1, <1>2, <1>3 DEF OwedRun
    <3>2. CASE owed # {}
      BY <2>1, <2>2, <2>3, <3>2, <1>2, <1>3 DEF OwedRun
    <3> QED BY <3>1, <3>2
  <2>6. DeliveredIsRecorded'
    BY <2>1 DEF DeliveredIsRecorded
  <2>7. ClockIsLive'
    BY <1>2, <1>3, <2>1, <2>3 DEF ClockIsLive
  <2>8. ClockNotLate'
    BY <1>2, <1>3, <2>1, <2>3 DEF ClockNotLate, OnSchedule
  <2>9. ClockNotEarly'
    BY <1>2, <1>3, <2>1, <2>2, <2>3 DEF ClockNotEarly, OnSchedule
  <2> QED BY <2>4, <2>5, <2>6, <2>7, <2>8, <2>9 DEF Timing
<1>5. ASSUME d = "from_remote" PROVE Timing'
  <2>1. /\ wrote' = wrote /\ heard' = {now}
        /\ owed' = {} /\ silent' = silent
        /\ pump'["from_remote"] = "reading"
    BY <1>5 DEF Record, wrote, heard, TypeOK, Directions
  <2>2. (\A h \in heard : h \in Nat /\ h <= now) /\ (\A x \in wrote : x \in Nat /\ x <= now)
    BY DEF TypeOK, Directions, heard, wrote, IsOption
  <2>3. \A c \in clock : c \in Nat /\ c <= now
    BY DEF TypeOK, IsOption
  <2>4. OnSchedule'
    BY <1>2, <1>3 DEF OnSchedule
  <2>5. OwedRun' /\ DeliveredIsRecorded'
    BY <2>1, <2>2 DEF OwedRun, DeliveredIsRecorded
  <2>6. ClockIsLive'
    BY <1>2, <1>3, <2>1, <2>3 DEF ClockIsLive
  <2>7. ClockNotLate'
    BY <2>1 DEF ClockNotLate
  <2>8. ClockNotEarly'
    BY <1>2, <1>3, <2>1 DEF ClockNotEarly, OnSchedule
  <2> QED BY <2>4, <2>5, <2>6, <2>7, <2>8 DEF Timing
<1>6. QuietIsShort'
  <2> DEFINE Moved == Latest({0} \cup wrote \cup heard)
  <2>1. Moved \in Nat /\ Moved \in {0} \cup wrote \cup heard
    BY Stamps, LastMove
  <2>2. Moved' \in Nat /\ \A t \in wrote' \cup heard' : t <= Moved'
    <3>1. IsOption(wrote', Nat) /\ IsOption(heard', Nat)
      BY <1>1 DEF TypeOK, Directions, wrote, heard, IsOption, Times
    <3> QED BY <3>1, LastMove
  <2>3. now \in wrote' \cup heard'
    BY DEF Record, TypeOK, Directions, wrote, heard
  <2>4. Moved <= now
    BY <1>3, <2>1, Stamps
  <2>5. Moved <= Moved'
    BY <1>3, <2>1, <2>2, <2>3, <2>4
  <2> QED
    BY <1>2, <1>3, <2>1, <2>2, <2>5, DeadlineAssumption DEF QuietIsShort, IsOption, Positive
<1>7. Verdicts'
  BY RunningVerdicts, <1>2 DEF Verdicts, AnswersHoldOffTheStall, StallIsEarned,
     StalledMeansSilentOrUnread, IdleNeverHidesAStall, Running
<1> QED BY <1>1, <1>4, <1>5, <1>6, <1>7 DEF Directions

LEMMA PumpEndsPreserves ==
    ASSUME IInv, NEW d \in Directions, PumpEnds(d)
    PROVE  IInv'
<1> USE DEF IInv, Timing
<1>1. /\ wrote' = wrote /\ heard' = heard /\ Period' = Period
      /\ UNCHANGED <<now, pump, last, clock, due, owed, silent>>
      /\ ended = Running /\ ended' \in {"closed", "failed"}
  BY DEF PumpEnds, wrote, heard
<1>2. TypeOK'
  BY <1>1 DEF TypeOK, Outcomes
<1>3. OnSchedule' /\ OwedRun' /\ DeliveredIsRecorded'
  BY <1>1 DEF OnSchedule, OwedRun, DeliveredIsRecorded
<1>4. ClockIsLive' /\ ClockNotLate' /\ ClockNotEarly'
  BY <1>1 DEF ClockIsLive, ClockNotLate, ClockNotEarly
<1>5. QuietIsShort'
  BY <1>1 DEF QuietIsShort, Running
<1>6. Verdicts'
  BY <1>1 DEF Verdicts, AnswersHoldOffTheStall, StallIsEarned,
     StalledMeansSilentOrUnread, IdleNeverHidesAStall
<1> QED BY <1>2, <1>3, <1>4, <1>5, <1>6

LEMMA AdvancePreserves ==
    ASSUME IInv, Advance
    PROVE  IInv'
<1> USE PeriodIsPositive, TimeAssumption DEF IInv, Timing
<1>1. /\ wrote' = wrote /\ heard' = heard /\ Period' = Period
      /\ UNCHANGED <<pump, last, clock, due, ended, owed, silent>>
      /\ now' = now + 1 /\ now < MaxTime /\ now < due + Late /\ ended = Running
  BY DEF Advance, wrote, heard
<1>2. now \in Nat /\ due \in Nat /\ Period \in Nat
  BY Stamps DEF Positive
<1>3. TypeOK'
  <2>1. 0..now \subseteq 0..now' /\ now' \in Times
    BY <1>1, <1>2 DEF Times
  <2>2. last' \in [Directions -> SUBSET (0..now')]
    BY <1>1, <2>1 DEF TypeOK
  <2>3. \A e \in Directions : IsOption(last'[e], 0..now')
    BY <1>1, <2>1 DEF TypeOK, IsOption
  <2>4. IsOption(clock', 0..now') /\ IsOption(owed', 0..now') /\ IsOption(silent', 0..now')
    BY <1>1, <2>1 DEF TypeOK, IsOption
  <2> QED BY <1>1, <2>1, <2>2, <2>3, <2>4 DEF TypeOK
<1>4. OnSchedule' /\ OwedRun' /\ DeliveredIsRecorded'
  BY <1>1, <1>2 DEF OnSchedule, OwedRun, DeliveredIsRecorded
<1>5. ClockIsLive' /\ ClockNotLate' /\ ClockNotEarly'
  BY <1>1 DEF ClockIsLive, ClockNotLate, ClockNotEarly
<1>6. QuietIsShort'
  BY <1>1 DEF QuietIsShort
<1>7. Verdicts'
  BY <1>1 DEF Verdicts, AnswersHoldOffTheStall, StallIsEarned,
     StalledMeansSilentOrUnread, IdleNeverHidesAStall, Running
<1> QED BY <1>3, <1>4, <1>5, <1>6, <1>7

\* What a tick makes of the clock while a request is outstanding: the moment it already stood at,
\* or the last write, unless an answer came later.
LEMMA ClockOfTick ==
    ASSUME TypeOK, Outstanding
    PROVE  \E c \in Nat :
              /\ ClockAfter = {c}
              /\ c \in (IF clock = {} THEN wrote ELSE clock) \cup heard
              /\ \A u \in (IF clock = {} THEN wrote ELSE clock) \cup heard : u <= c
<1> DEFINE Base == IF clock = {} THEN wrote ELSE clock
<1>1. IsOption(Base, Nat) /\ IsOption(heard, Nat) /\ IsOption({}, Nat)
  BY Stamps DEF IsOption
<1>2. Base # {}
  BY DEF Outstanding
<1>3. /\ Latest({} \cup Base \cup heard) \in {} \cup Base \cup heard
      /\ \A u \in {} \cup Base \cup heard : u <= Latest({} \cup Base \cup heard)
  BY <1>1, <1>2, LatestOfOptions
<1>4. {} \cup Base \cup heard = Base \cup heard
  OBVIOUS
<1>5. ClockAfter = {Latest(Base \cup heard)}
  BY DEF ClockAfter, UnansweredSince
<1> QED BY <1>1, <1>3, <1>4, <1>5 DEF IsOption

LEMMA TickPreserves ==
    ASSUME IInv, Tick
    PROVE  IInv'
<1> USE PeriodIsPositive, TimeAssumption DEF IInv, Timing
<1>1. /\ wrote' = wrote /\ heard' = heard /\ Period' = Period
      /\ UNCHANGED <<now, pump, last, owed, silent>>
      /\ ended = Running /\ ended' = Verdict
      /\ due <= now /\ due' = due + Period /\ clock' = ClockAfter
  BY DEF Tick, wrote, heard
<1>2. /\ now \in Nat /\ due \in Nat /\ Period \in Nat /\ Period >= 1 /\ Late \in Nat
      /\ \A t \in wrote \cup heard \cup clock \cup owed : t \in Nat /\ t <= now
  BY Stamps DEF Positive
<1>3. OnSchedule'
  BY <1>1, <1>2 DEF OnSchedule
<1>4. OwedRun' /\ DeliveredIsRecorded'
  BY <1>1 DEF OwedRun, DeliveredIsRecorded
<1> DEFINE Moved == Latest({0} \cup wrote \cup heard)
<1>5. Moved \in Nat /\ \A t \in wrote \cup heard : t <= Moved
  BY Stamps, LastMove
<1>6. /\ ended' = "idle" => \A i \in Idle : now - Moved >= i
      /\ ended' = Running => \A i \in Idle : ~ (now - Moved >= i)
  BY <1>1, DeadlineAssumption DEF Verdict, Idles, Running, IsOption
<1>7. QuietIsShort'
  <2>1. Moved' = Moved
    BY <1>1
  <2> QED
    BY <1>1, <1>2, <1>5, <1>6, <2>1, DeadlineAssumption DEF QuietIsShort, IsOption, Positive
<1>9. CASE Outstanding
  <2>1. PICK c \in Nat :
           /\ clock' = {c}
           /\ c \in (IF clock = {} THEN wrote ELSE clock) \cup heard
           /\ \A u \in (IF clock = {} THEN wrote ELSE clock) \cup heard : u <= c
    BY <1>1, <1>9, ClockOfTick
  <2>2. c <= now
    BY <1>2, <2>1
  <2>3. TypeOK'
    BY <1>1, <1>2, <2>1, <2>2 DEF TypeOK, IsOption, Verdict, Outcomes
  <2>4. PICK x \in wrote : \A h \in heard : h < x
    BY <1>9 DEF Outstanding
  <2>5. \A y \in wrote : y = x
    BY <2>4, Stamps DEF IsOption
  <2>6. owed # {}
    BY <1>2, <2>4 DEF OwedRun
  <2>7. \E t \in wrote \cup heard : c <= t
    BY <1>2, <2>1 DEF ClockIsLive
  <2>8. ended' = Running => \A d \in Stall : due < c + d
    BY <1>1, <1>2, <2>1, DeadlineAssumption DEF Verdict, Stalls, Running, IsOption, Positive
  <2>9. ClockIsLive'
    BY <1>1, <1>2, <2>1, <2>7, <2>8, DeadlineAssumption DEF ClockIsLive, IsOption, Positive
  <2>10. \A w \in owed : (\A h \in heard : h < w) => c <= w + Period + Late
    <3> SUFFICES ASSUME NEW w \in owed, \A h \in heard : h < w
                 PROVE  c <= w + Period + Late
      OBVIOUS
    <3>1. w \in Nat /\ w <= now
      BY <1>2
    <3>2. CASE clock = {}
      <4>1. due - Period <= w
        BY <1>1, <3>2 DEF ClockNotLate
      <4> QED BY <1>2, <2>2, <3>1, <4>1 DEF OnSchedule
    <3>3. CASE clock # {}
      BY <1>2, <2>1, <3>1, <3>3 DEF ClockNotLate
    <3> QED BY <3>2, <3>3
  <2>11. ClockNotLate'
    BY <1>1, <2>1, <2>10 DEF ClockNotLate
  <2>12. \A w \in owed : w <= c + Period + Late
    <3> SUFFICES ASSUME NEW w \in owed PROVE w <= c + Period + Late
      OBVIOUS
    <3>1. w \in Nat /\ w <= x
      BY <1>2, <2>5 DEF OwedRun
    <3>2. CASE clock = {}
      BY <1>2, <2>1, <2>5, <3>1, <3>2
    <3>3. CASE clock # {}
      <4>1. PICK k \in clock : k \in Nat /\ k <= c
        BY <1>2, <2>1, <3>3
      <4>2. \A h \in heard : h \in Nat /\ h <= c
        BY <1>2, <2>1
      <4>3. w <= k + Period + Late \/ \E h \in heard : w <= h + Period + Late
        BY <1>1 DEF ClockNotEarly
      <4> QED BY <1>2, <3>1, <4>1, <4>2, <4>3
    <3> QED BY <3>2, <3>3
  <2>13. ClockNotEarly'
    BY <1>1, <2>1, <2>6, <2>12 DEF ClockNotEarly
  <2>14. ended' = "stalled" =>
            /\ \A d \in Stall : now - c >= d
            /\ silent # {} \/ pump["from_remote"] = "writing"
    <3>1. ended' = "stalled" => \A d \in Stall : now - c >= d
      BY <1>1, <2>1, DeadlineAssumption DEF Verdict, Stalls, Running, IsOption
    <3>2. silent # {} \/ pump["from_remote"] = "writing"
      BY <2>6 DEF DeliveredIsRecorded, TypeOK, Directions
    <3> QED BY <3>1, <3>2
  <2>15. AnswersHoldOffTheStall'
    <3> SUFFICES ASSUME ended' = "stalled", NEW d \in Stall, NEW h \in heard
                 PROVE  now - h >= d
      BY <1>1 DEF AnswersHoldOffTheStall
    <3>1. d \in Nat /\ h \in Nat /\ h <= c
      BY <1>2, <2>1, DeadlineAssumption DEF IsOption, Positive
    <3> QED BY <1>2, <2>14, <3>1
  <2>16. StallIsEarned'
    <3> SUFFICES ASSUME ended' = "stalled", NEW d \in Stall
                 PROVE  \E w \in owed : now - w >= d - Period - Late
      BY <1>1 DEF StallIsEarned
    <3>1. PICK w \in owed : w \in Nat /\ w <= c + Period + Late
      BY <1>2, <2>6, <2>12
    <3> QED BY <1>2, <2>14, <3>1, DeadlineAssumption DEF IsOption, Positive
  <2>17. StalledMeansSilentOrUnread'
    BY <1>1, <2>14 DEF StalledMeansSilentOrUnread
  <2>18. IdleNeverHidesAStall'
    <3> SUFFICES ASSUME ended' = "idle", NEW d \in Stall, NEW i \in Idle, d <= i
                 PROVE  FALSE
      BY <1>1 DEF IdleNeverHidesAStall
    <3>1. ~ (now - c >= d)
      BY <1>1, <2>1 DEF Verdict, Stalls, Running
    <3>2. now - Moved >= i
      BY <1>5, <1>6
    <3>3. c <= Moved
      BY <1>2, <1>5, <2>7
    <3> QED BY <1>2, <1>5, <3>1, <3>2, <3>3, DeadlineAssumption DEF IsOption, Positive
  <2> QED
    BY <1>3, <1>4, <1>7, <2>3, <2>9, <2>11, <2>13, <2>15, <2>16, <2>17, <2>18 DEF Verdicts
<1>10. CASE ~ Outstanding
  <2>1. clock' = {} /\ ended' # "stalled"
    BY <1>1, <1>10 DEF ClockAfter, Verdict, Stalls, Running
  <2>2. TypeOK'
    BY <1>1, <1>2, <2>1 DEF TypeOK, IsOption, Verdict, Outcomes
  <2>3. \A w \in owed : \E h \in heard : w <= h
    <3> SUFFICES ASSUME NEW w \in owed, \A h \in heard : ~ (w <= h) PROVE FALSE
      OBVIOUS
    <3>1. PICK x \in wrote : w <= x
      BY DEF OwedRun
    <3>2. \A h \in heard : h < x
      BY <1>2, <3>1
    <3> QED BY <1>10, <3>2 DEF Outstanding
  <2>4. ClockIsLive' /\ ClockNotEarly'
    BY <2>1 DEF ClockIsLive, ClockNotEarly
  <2>5. ClockNotLate'
    BY <1>1, <1>2, <2>1, <2>3 DEF ClockNotLate
  <2>6. (AnswersHoldOffTheStall /\ StallIsEarned /\ StalledMeansSilentOrUnread)'
    BY <2>1 DEF AnswersHoldOffTheStall, StallIsEarned, StalledMeansSilentOrUnread
  <2>7. IdleNeverHidesAStall'
    BY <1>1, <2>3 DEF IdleNeverHidesAStall
  <2> QED
    BY <1>3, <1>4, <1>7, <2>2, <2>4, <2>5, <2>6, <2>7 DEF Verdicts
<1> QED BY <1>9, <1>10

-----------------------------------------------------------------------------
(* The theorems. *)

LEMMA StepPreserves == IInv /\ [Next]_vars => IInv'
<1> SUFFICES ASSUME IInv, [Next]_vars PROVE IInv'
  OBVIOUS
<1>1. CASE \E d \in Directions : Read(d)
  BY <1>1, ReadPreserves
<1>2. CASE \E d \in Directions : Record(d)
  BY <1>2, RecordPreserves
<1>3. CASE \E d \in Directions : PumpEnds(d)
  BY <1>3, PumpEndsPreserves
<1>4. CASE Tick
  BY <1>4, TickPreserves
<1>5. CASE Advance
  BY <1>5, AdvancePreserves
<1>6. CASE UNCHANGED vars
  <2>1. wrote' = wrote /\ heard' = heard /\ Period' = Period
    BY <1>6 DEF vars, wrote, heard
  <2>2. UNCHANGED <<now, pump, last, clock, due, ended, owed, silent>>
    BY <1>6 DEF vars
  <2>3. TypeOK'
    BY <2>2 DEF IInv, TypeOK
  <2>4. Timing'
    BY <2>1, <2>2 DEF IInv, Timing, OnSchedule, OwedRun, DeliveredIsRecorded, ClockIsLive,
                      ClockNotLate, ClockNotEarly
  <2>5. QuietIsShort'
    BY <2>1, <2>2 DEF IInv, QuietIsShort
  <2>6. Verdicts'
    BY <2>1, <2>2 DEF IInv, Verdicts, AnswersHoldOffTheStall, StallIsEarned,
                      StalledMeansSilentOrUnread, IdleNeverHidesAStall
  <2> QED BY <2>3, <2>4, <2>5, <2>6 DEF IInv
<1> QED BY <1>1, <1>2, <1>3, <1>4, <1>5, <1>6 DEF Next

LEMMA Invariance == Spec => []IInv
<1>1. Init => IInv
  BY InitEstablishes
<1>2. IInv /\ [Next]_vars => IInv'
  BY StepPreserves
<1> QED BY <1>1, <1>2, PTL DEF Spec

\* Every stamp of a splice is a moment of its past, for every watchdog.
THEOREM TypeCorrect == Spec => []TypeOK
<1>1. IInv => TypeOK
  BY DEF IInv
<1> QED BY <1>1, Invariance, PTL

\* What a stall verdict says, for every deadline, check period and lateness of the runtime: the last
\* answer is a whole deadline old, a write has been owed one for almost as long, and the far side
\* either delivered nothing since or is waiting for the local side to take what it did.
THEOREM StallVerdict ==
    Spec => [](AnswersHoldOffTheStall /\ StallIsEarned /\ StalledMeansSilentOrUnread)
<1>1. IInv => AnswersHoldOffTheStall /\ StallIsEarned /\ StalledMeansSilentOrUnread
  BY DEF IInv, Verdicts
<1> QED BY <1>1, Invariance, PTL

\* An answer buys the far side a whole stall deadline: nothing is closed as stalled within the
\* deadline of the last bytes that reached the wallet, for any deadlines, period and lateness.
THEOREM AnswersHoldOff == Spec => []AnswersHoldOffTheStall
<1>1. IInv => AnswersHoldOffTheStall
  BY DEF IInv, Verdicts
<1> QED BY <1>1, Invariance, PTL

\* What an idle verdict says, for every pair of deadlines of which the stall one is the shorter: the
\* silence is not an unanswered request the stall deadline should have reported.
THEOREM IdleVerdict == Spec => []IdleNeverHidesAStall
<1>1. IInv => IdleNeverHidesAStall
  BY DEF IInv, Verdicts
<1> QED BY <1>1, Invariance, PTL

LEMMA TimelyStall == IInv => StallIsTimely
<1> SUFFICES ASSUME IInv, ended = Running, NEW d \in Stall
             PROVE  /\ \A c \in clock : now < c + d + Period + Late
                    /\ \A w \in owed : Unanswered(w) =>
                          /\ \A c \in clock : c <= w + Period + Late
                          /\ now < w + d + 2 * Period + 2 * Late
  BY DEF StallIsTimely
<1>1. /\ now \in Nat /\ due \in Nat /\ Period \in Nat /\ Period >= 1 /\ Late \in Nat
      /\ d \in Nat /\ d >= 1 /\ clock \subseteq Nat /\ owed \subseteq Nat
  BY Stamps, PeriodIsPositive, TimeAssumption, DeadlineAssumption
     DEF IInv, Positive, IsOption
<1>2. now <= due + Late
  BY DEF IInv, Timing, OnSchedule
<1>3. \A c \in clock : now < c + d + Period + Late
  <2>1. \A c \in clock : due - Period < c + d
    BY DEF IInv, Timing, ClockIsLive
  <2> QED BY <1>1, <1>2, <2>1
<1>4. ASSUME NEW w \in owed, Unanswered(w)
      PROVE  /\ \A c \in clock : c <= w + Period + Late
             /\ now < w + d + 2 * Period + 2 * Late
  <2>1. \A c \in clock : c <= w + Period + Late
    BY <1>4 DEF IInv, Timing, ClockNotLate, Unanswered
  <2>2. CASE clock = {}
    <3>1. due - Period <= w
      BY <1>4, <2>2 DEF IInv, Timing, ClockNotLate, Unanswered
    <3> QED BY <1>1, <1>2, <2>1, <2>2, <3>1
  <2>3. CASE clock # {}
    <3>1. PICK c \in clock : c \in Nat
      BY <1>1, <2>3
    <3> QED BY <1>1, <1>3, <2>1, <3>1
  <2> QED BY <2>2, <2>3
<1> QED BY <1>3, <1>4

\* A wallet that keeps talking postpones the discovery of a dead stream by one check period and no
\* more, for any deadline, period and lateness, however it writes.
THEOREM StallDiscovered == Spec => []StallIsTimely
BY TimelyStall, Invariance, PTL

LEMMA TimelyIdle == IInv => IdleIsTimely
<1> SUFFICES ASSUME IInv, ended = Running, NEW d \in Idle
             PROVE  now < Latest({0} \cup wrote \cup heard) + d + Period + Late
  BY DEF IdleIsTimely
<1>1. now \in Nat /\ due \in Nat /\ Period \in Nat /\ Late \in Nat /\ d \in Nat
  BY Stamps, PeriodIsPositive, TimeAssumption, DeadlineAssumption
     DEF IInv, Positive, IsOption
<1>2. Latest({0} \cup wrote \cup heard) \in Nat
  BY Stamps, LastMove DEF IInv
<1>3. now <= due + Late /\ due - Period < Latest({0} \cup wrote \cup heard) + d
  BY DEF IInv, Timing, OnSchedule, QuietIsShort
<1> QED BY <1>1, <1>2, <1>3

\* A connection nothing moves on is let go within the idle deadline and one check period.
THEOREM IdleDiscovered == Spec => []IdleIsTimely
BY TimelyIdle, Invariance, PTL

=============================================================================
