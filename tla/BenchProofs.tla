----------------------------- MODULE BenchProofs -----------------------------
(***************************************************************************)
(* What the bench's report may be trusted for, whatever the trials, the    *)
(* attempts, the round sizes and the streak limit it is run with.          *)
(***************************************************************************)
EXTENDS Bench, DialProofs

-----------------------------------------------------------------------------
(* Claims, and the deepest round a trial may reach. *)

LEMMA ClaimsGrow ==
    ASSUME NEW m \in Nat, NEW n \in Nat, NEW width \in Nat, m <= n
    PROVE  Claimed(m, width) <= Claimed(n, width)
<1> DEFINE T == {k \in Nat : Claimed(m, width) <= Claimed(m + k, width)}
<1>1. Claimed(m, width) \in Nat
  BY ClaimsAddUp
<1>2. 0 \in T
  BY <1>1
<1>3. ASSUME NEW k \in Nat, k \in T PROVE k + 1 \in T
  <2>1. /\ Claimed(m + k, width) \in Nat
        /\ Claimed(m + k + 1, width) = Claimed(m + k, width) + width
    <3>1. m + k \in Nat
      OBVIOUS
    <3> QED BY <3>1, ClaimsAddUp
  <2>2. m + (k + 1) = m + k + 1
    OBVIOUS
  <2> QED BY <1>1, <1>3, <2>1, <2>2
<1>4. \A k \in Nat : k \in T
  <2> HIDE DEF T
  <2> QED BY <1>2, <1>3, SetInduction
<1>5. n - m \in Nat /\ m + (n - m) = n
  OBVIOUS
<1> QED BY <1>4, <1>5

Deepest(width, budget) == (budget + width - 1) \div width

LEMMA DeepestRound ==
    ASSUME NEW width \in Nat \ {0}, NEW budget \in Nat \ {0}
    PROVE  /\ Deepest(width, budget) \in Nat \ {0}
           /\ Claimed(Deepest(width, budget) - 1, width) < budget
           /\ Claimed(Deepest(width, budget), width) >= budget
<1> DEFINE a == budget + width - 1
           q == a \div width
           r == a % width
<1>1. q \in Int /\ r \in Int /\ a = width * q + r /\ 0 <= r /\ r < width
  OBVIOUS
<1>2. q >= 1
  <2>1. a >= width
    OBVIOUS
  <2> QED BY <2>1
<1>3. q \in Nat \ {0} /\ q - 1 \in Nat
  BY <1>1, <1>2
<1> DEFINE c == Claimed(q, width)
           b == Claimed(q - 1, width)
<1>4. c \in Nat /\ b \in Nat
  BY <1>3, ClaimsAddUp
<1>5. c = b + width
  <2>1. Claimed(q - 1 + 1, width) = Claimed(q - 1, width) + width
    <3> HIDE DEF q
    <3> QED BY <1>3, ClaimsAddUp
  <2>2. q - 1 + 1 = q
    <3> HIDE DEF q
    <3> QED BY <1>1
  <2> QED BY <2>1, <2>2
<1>6. width * q = c
  <2> HIDE DEF q
  <2> QED BY <1>1 DEF Claimed
<1>7. budget + width - 1 = c + r
  BY <1>1, <1>6
<1> HIDE DEF c, b, q, r
<1>8. b < budget /\ c >= budget
  BY <1>1, <1>4, <1>5, <1>7
<1> QED BY <1>3, <1>8 DEF Deepest, c, b, q

\* A round is the deepest one when it is the first to claim the whole budget.
LEMMA OnlyOneIsDeepest ==
    ASSUME NEW width \in Nat \ {0}, NEW budget \in Nat \ {0}, NEW n \in Nat \ {0},
           Claimed(n - 1, width) < budget, Claimed(n, width) >= budget
    PROVE  n = Deepest(width, budget)
<1> DEFINE m == Deepest(width, budget)
<1>1. m \in Nat \ {0} /\ Claimed(m - 1, width) < budget /\ Claimed(m, width) >= budget
  BY DeepestRound
<1> HIDE DEF m
<1>2. /\ n - 1 \in Nat /\ m - 1 \in Nat
      /\ Claimed(n - 1, width) \in Nat /\ Claimed(m - 1, width) \in Nat
      /\ Claimed(n, width) \in Nat /\ Claimed(m, width) \in Nat
  BY <1>1, ClaimsAddUp
<1>3. ~ (n <= m - 1)
  <2>1. n <= m - 1 => Claimed(n, width) <= Claimed(m - 1, width)
    BY <1>2, ClaimsGrow
  <2> QED BY <1>1, <1>2, <2>1
<1>4. ~ (m <= n - 1)
  <2>1. m <= n - 1 => Claimed(m, width) <= Claimed(n - 1, width)
    BY <1>1, <1>2, ClaimsGrow
  <2> QED BY <1>1, <1>2, <2>1
<1>5. n = m
  BY <1>1, <1>3, <1>4
<1> QED BY <1>5 DEF m

-----------------------------------------------------------------------------
(* The arms. *)

LEMMA RoundSizesAreFinite ==
    /\ IsFiniteSet(RoundSizes)
    /\ Cardinality(RoundSizes) \in Nat \ {0}
<1>1. MaxAttempts \in Int /\ RoundSizes \in SUBSET (1..MaxAttempts) /\ RoundSizes # {}
  BY AttemptsAssumption, BenchAssumption
<1>2. IsFiniteSet(1..MaxAttempts)
  BY <1>1, FS_Interval
<1>3. IsFiniteSet(RoundSizes)
  BY <1>1, <1>2, FS_Subset
<1>4. Cardinality(RoundSizes) \in Nat
  BY <1>3, FS_CardinalityType
<1>5. Cardinality(RoundSizes) # 0
  BY <1>1, <1>3, FS_EmptySet
<1> QED BY <1>3, <1>4, <1>5

LEMMA ArmsAreRoundSizes ==
    /\ arms \in Seq(RoundSizes)
    /\ Len(arms) \in Nat \ {0}
<1> DEFINE n == Cardinality(RoundSizes)
<1>1. n \in Nat \ {0} /\ ExistsBijection(1..n, RoundSizes)
  BY RoundSizesAreFinite, FS_CardinalityType
<1>2. \E f \in [1..n -> RoundSizes] : IsInjective(f)
  BY <1>1 DEF ExistsBijection, Bijection, Injection
<1>3. arms \in [1..n -> RoundSizes]
  BY <1>2 DEF arms, SetToSeq
<1> HIDE DEF n
<1>4. arms \in Seq(RoundSizes)
  BY <1>1, <1>3, SeqDef
<1>5. Len(arms) = n
  <2>1. Len(arms) \in Nat /\ DOMAIN arms = 1..Len(arms) /\ DOMAIN arms = 1..n
    BY <1>3, <1>4, LenProperties
  <2>2. n \in 1..n /\ n \in 1..Len(arms)
    BY <1>1, <2>1
  <2>3. Len(arms) \in 1..Len(arms) /\ Len(arms) \in 1..n
    BY <2>1, <2>2
  <2>4. Len(arms) \in Nat /\ n \in Nat
    BY <1>1, <2>1
  <2>5. n <= Len(arms) /\ Len(arms) <= n
    BY <2>2, <2>3, <2>4
  <2> QED BY <2>4, <2>5
<1> QED BY <1>1, <1>4, <1>5

LEMMA InTurnIsAnArm ==
    ASSUME NEW n \in Nat \ {0}
    PROVE  InTurn(n) \in RoundSizes
<1> DEFINE len == Len(arms)
           k == 1 + ((n - 1) % len)
<1>1. arms \in Seq(RoundSizes) /\ len \in Nat \ {0}
  BY ArmsAreRoundSizes
<1>2. k \in 1..len
  <2> DEFINE r == (n - 1) % len
  <2> HIDE DEF len
  <2>1. n - 1 \in Int /\ len \in Nat \ {0}
    BY <1>1
  <2>2. r \in 0..len - 1 /\ k = 1 + r
    BY <2>1
  <2> HIDE DEF r, k
  <2> QED BY <2>1, <2>2
<1>3. arms[k] \in RoundSizes
  <2> HIDE DEF k
  <2> QED BY <1>1, <1>2, ElementOfSeq
<1> QED BY <1>3 DEF InTurn

LEMMA SettingsOfAnArm ==
    ASSUME NEW size \in RoundSizes
    PROVE  /\ With(size) \in Settings /\ With(size).probe /\ With(size).attempts = Attempts
           /\ With(size).concurrency = size /\ size \in Nat \ {0}
BY BenchAssumption, AttemptsAssumption DEF With, Settings

-----------------------------------------------------------------------------
(* Trials. *)

Trial == [arm : RoundSizes, rounds : Seq(Round), answered : BOOLEAN]

\* What a trial's rounds say of it: the last one decided it, every one before it left all it opened
\* unanswered, and together they go exactly as deep as the attempts allow.
TrialOK(t) ==
    /\ t.rounds # <<>>
    /\ \A i \in 1..Len(t.rounds) :
          /\ t.rounds[i].answered <=> (i = Len(t.rounds) /\ t.answered)
          /\ t.rounds[i].answered => t.rounds[i].opened > t.rounds[i].unanswered
          /\ ~ t.rounds[i].answered => t.rounds[i].opened = t.rounds[i].unanswered
    /\ Attempted(t.rounds[1]) = RoundSize(t.arm, Attempts)
    /\ Claimed(Len(t.rounds) - 1, t.arm) < Attempts
    /\ ~ t.answered =>
          Claimed(Len(t.rounds), t.arm) >= Attempts /\ AttemptedIn(t.rounds) = Attempts

Measured == [arm |-> InTurn(number), rounds |-> rounds["trial"],
             answered |-> pc["trial"] = "returned"]

\* A dial that is resolved has run the rounds of a trial.
LEMMA RoundsOfResolved ==
    ASSUME DialInv, HistoryInv, ShapeInv, NEW d \in Dials, pc[d] \in Resolved
    PROVE  /\ rounds[d] \in Seq(Round) /\ rounds[d] # <<>>
           /\ \A i \in 1..Len(rounds[d]) :
                 /\ rounds[d][i].answered <=> (i = Len(rounds[d]) /\ pc[d] = "returned")
                 /\ rounds[d][i].answered => rounds[d][i].opened > rounds[d][i].unanswered
                 /\ ~ rounds[d][i].answered => rounds[d][i].opened = rounds[d][i].unanswered
<1> DEFINE rs == rounds[d]
           n == Len(rs)
<1>1. Typed /\ StreamsOK(d) /\ HistoryOK(d) /\ ShapeOK(d)
  BY TypedWithMutex DEF DialInv, HistoryInv, ShapeInv
<1>2. rs \in Seq(Round) /\ rs # <<>>
  BY <1>1 DEF Typed, ShapeOK, ShapeOf, Resolved
<1>3. n \in Nat \ {0} /\ n \in 1..n /\ \A i \in 1..n : rs[i] \in Round
  BY <1>2, EmptySeq, LenProperties, ElementOfSeq
<1>4. /\ \A i \in 1..n : rs[i].answered => i = n /\ pc[d] = "returned"
      /\ pc[d] = "returned" => rs[n].answered
  BY <1>1 DEF HistoryOK, HistoryOf, AnsweredLast, Resolved, Over
<1>5. \A i \in 1..n - 1 : rs[i].opened = rs[i].unanswered
  BY <1>1 DEF ShapeOK, ShapeOf, Resolved
<1>6. pc[d] = "returned" => rs[n].opened > rs[n].unanswered
  BY <1>1, <1>2, <1>4 DEF ShapeOK, ShapeOf, AnsweredLast, Resolved
<1>7. pc[d] = "gave_up" => rs[n].opened = rs[n].unanswered
  <2>1. pc[d] = "gave_up" => rs[n].opened = rs[n].unanswered + Cardinality(held[d])
    BY <1>1 DEF ShapeOK, ShapeOf, Resolved
  <2>2. pc[d] = "gave_up" => Cardinality(held[d]) = 0
    BY <1>1, FS_EmptySet DEF StreamsOK
  <2>3. rs[n].unanswered \in Nat
    BY <1>3 DEF Round
  <2> QED BY <2>1, <2>2, <2>3
<1> HIDE DEF rs, n
<1>8. ASSUME NEW i \in 1..n
      PROVE  /\ rs[i].answered <=> (i = n /\ pc[d] = "returned")
             /\ rs[i].answered => rs[i].opened > rs[i].unanswered
             /\ ~ rs[i].answered => rs[i].opened = rs[i].unanswered
  <2>1. rs[i].answered <=> (i = n /\ pc[d] = "returned")
    BY <1>4
  <2>2. rs[i].answered => rs[i].opened > rs[i].unanswered
    BY <1>4, <1>6
  <2>3. CASE i = n
    BY <1>7, <2>1, <2>2, <2>3 DEF Resolved
  <2>4. CASE i # n
    <3>1. i \in 1..n - 1
      BY <1>3, <2>4
    <3> QED BY <1>5, <2>1, <2>4, <3>1
  <2> QED BY <2>3, <2>4
<1> QED BY <1>2, <1>8 DEF rs, n

LEMMA MeasuredIsATrial ==
    ASSUME DialInv, HistoryInv, ShapeInv, NEW d \in Dials, pc[d] \in Resolved,
           NEW size \in RoundSizes, settings[d] = With(size),
           NEW t, t = [arm |-> size, rounds |-> rounds[d], answered |-> pc[d] = "returned"]
    PROVE  /\ t \in Trial /\ TrialOK(t)
           /\ OpenedIn(t) = 0 <=> Existing(d) = {}
<1> DEFINE rs == rounds[d]
           n == Len(rs)
<1>1. /\ rs \in Seq(Round) /\ rs # <<>>
      /\ \A i \in 1..n :
            /\ rs[i].answered <=> (i = n /\ pc[d] = "returned")
            /\ rs[i].answered => rs[i].opened > rs[i].unanswered
            /\ ~ rs[i].answered => rs[i].opened = rs[i].unanswered
  BY RoundsOfResolved
<1>2. BudgetOK(d) /\ HistoryOK(d) /\ ShapeOK(d)
  BY DEF DialInv, HistoryInv, ShapeInv
<1>3. Budget(d) = Attempts /\ Width(d) = size /\ size \in Nat \ {0} /\ Attempts \in Nat \ {0}
  BY SettingsOfAnArm, BenchAssumption, AttemptsAssumption DEF Budget, BudgetOf, Width, Probe
<1>4. left[d] = 0 /\ (pc[d] = "gave_up" => remaining[d] = 0)
  BY <1>2 DEF BudgetOK, Resolved
<1>5. /\ Claimed(n - 1, size) < Attempts
      /\ remaining[d] = IF Claimed(n, size) < Attempts THEN Attempts - Claimed(n, size) ELSE 0
      /\ \A i \in 1..n - 1 : Attempted(rs[i]) = size
      /\ Attempted(rs[n]) + 0 = RoundSize(size, Attempts - Claimed(n - 1, size))
  BY <1>2, <1>3, <1>4 DEF ShapeOK, ShapeOf, Resolved
<1>6. n \in Nat \ {0} /\ \A i \in 1..n : rs[i] \in Round
  BY <1>1, EmptySeq, LenProperties, ElementOfSeq
<1>7. Claimed(n, size) \in Nat /\ Claimed(n - 1, size) \in Nat
  <2> HIDE DEF n
  <2>1. n \in Nat /\ n - 1 \in Nat /\ size \in Nat
    BY <1>3, <1>6
  <2> QED BY <2>1, ClaimsAddUp
<1>8. pc[d] = "gave_up" => Claimed(n, size) >= Attempts
  <2> HIDE DEF n
  <2> QED BY <1>3, <1>4, <1>5, <1>7
<1>9. pc[d] = "gave_up" => AttemptedIn(rs) = Attempts
  <2>1. AttemptedIn(rs) + left[d] + remaining[d] = Attempts
    BY <1>2, <1>3 DEF BudgetOK, Resolved
  <2>2. AttemptedIn(rs) \in Nat
    BY <1>1, AttemptedInIsNat
  <2> HIDE DEF rs
  <2> QED BY <1>3, <1>4, <2>1, <2>2
<1>10. Attempted(rs[1]) = RoundSize(size, Attempts)
  <2>1. CASE n = 1
    <3>1. Claimed(n - 1, size) = 0
      BY <1>3, <2>1, ClaimsAddUp
    <3>2. Attempts - 0 = Attempts /\ Attempted(rs[1]) \in Nat
      BY <1>3, <1>6, <2>1, AttemptedIsNat
    <3>3. Attempted(rs[1]) + 0 = RoundSize(size, Attempts - 0)
      BY <1>5, <2>1, <3>1
    <3> QED BY <3>2, <3>3
  <2>2. CASE n # 1
    <3>1. 1 \in 1..n - 1 /\ 1 <= n - 1 /\ n - 1 \in Nat
      <4> HIDE DEF n
      <4> QED BY <1>6, <2>2
    <3>2. Attempted(rs[1]) = size
      BY <1>5, <3>1
    <3>3. Claimed(1, size) = size
      <4>1. Claimed(0 + 1, size) = Claimed(0, size) + size /\ Claimed(0, size) = 0
        BY <1>3, ClaimsAddUp
      <4> QED BY <1>3, <4>1
    <3>4. Claimed(1, size) <= Claimed(n - 1, size)
      <4> HIDE DEF n
      <4> QED BY <1>3, <3>1, ClaimsGrow
    <3>5. size < Attempts
      <4> HIDE DEF n
      <4> QED BY <1>3, <1>5, <1>7, <3>3, <3>4
    <3> QED BY <3>2, <3>5 DEF RoundSize
  <2> QED BY <2>1, <2>2
<1>11. /\ t.arm = size /\ t.rounds = rs /\ t.answered = (pc[d] = "returned")
       /\ t.answered \in BOOLEAN /\ t \in Trial
  BY <1>1 DEF Trial
<1>12. OpenedIn(t) = Cardinality(Existing(d))
  <2>1. OpenedIn(t) = CountIn(rs, "opened")
    BY <1>11 DEF OpenedIn, CountIn
  <2> QED BY <1>2, <2>1 DEF HistoryOK, HistoryOf, Resolved
<1>13. IsFiniteSet(Existing(d))
  BY AttemptsAreFinite DEF Existing
<1>14. OpenedIn(t) = 0 <=> Existing(d) = {}
  BY <1>12, <1>13, FS_EmptySet
<1>15. ~ t.answered => pc[d] = "gave_up"
  BY <1>11 DEF Resolved
<1> HIDE DEF rs
<1>16. TrialOK(t)
  BY <1>1, <1>5, <1>8, <1>9, <1>10, <1>11, <1>15 DEF TrialOK, n
<1> QED BY <1>11, <1>14, <1>16

-----------------------------------------------------------------------------
(* The inductive invariant. *)

BenchPlaces == {"next", "warming", "quiet", "measuring", "stopped", "reported"}

Resting == {"idle", "gave_up", "released"}

\* One dial at a time is under way: the one `main` waits for.
PlaceOK ==
    /\ at \in BenchPlaces
    /\ number = Len(trials) + 1
    /\ at # "measuring" => pc["trial"] \in Resting
    /\ at = "measuring" =>
          pc["trial"] \in Dialling \cup Resolved /\ settings["trial"] = With(InTurn(number))
    /\ at # "warming" => pc["warm_up"] \in Resting
    /\ at = "warming" => pc["warm_up"] \in Dialling \cup Resolved

TrialsOK ==
    /\ trials \in Seq(Trial)
    /\ \A i \in 1..Len(trials) : TrialOK(trials[i])

\* The streak counts the trials since one opened a stream, and none before the last completed it.
StreakOK ==
    /\ barren = {i \in 1..Len(trials) : OpenedIn(trials[i]) = 0}
    /\ refusing_streak \in 0..Len(trials)
    /\ Len(trials) - refusing_streak + 1..Len(trials) \subseteq barren
    /\ Len(trials) - refusing_streak \notin barren
    /\ \A i \in 1..Len(trials) - 1 : ~ NothingRegistered(i, RefusalStreakLimit)

StopOK ==
    /\ at \notin {"stopped", "reported"} => refusing_streak < RefusalStreakLimit
    /\ at = "stopped" => refusing_streak >= RefusalStreakLimit
    /\ at = "reported" => refusing_streak >= RefusalStreakLimit \/ number > Trials

BenchInv ==
    /\ DialInv /\ HistoryInv /\ ShapeInv
    /\ PlaceOK /\ TrialsOK /\ StreakOK /\ StopOK

LEMMA BothAreDials == "warm_up" \in Dials /\ "trial" \in Dials
BY BenchAssumption

\* What is kept of the dials by every step of the bench.
LEMMA DialsKept ==
    ASSUME BenchInv, NEW d \in Dials,
           \/ DialStep(d) \/ Release(d) \/ \E with \in Settings : Begin(d, with)
           \/ UNCHANGED dialVars
    PROVE  DialInv' /\ HistoryInv' /\ ShapeInv'
<1>1. DialInv /\ HistoryInv /\ ShapeInv
  BY DEF BenchInv
<1>2. CASE UNCHANGED dialVars
  BY <1>1, <1>2, StutterKeeps, HistoryOfStutter, ShapeOfStutter
<1>3. CASE DialStep(d) \/ Release(d) \/ \E with \in Settings : Begin(d, with)
  <2>1. DialInv'
    BY <1>1, <1>3, StepKeeps
  <2>2. HistoryInv'
    BY <1>1, <1>3, HistoryOfStep
  <2>3. ShapeInv'
    BY <1>1, <1>3, ShapeOfStep
  <2> QED BY <2>1, <2>2, <2>3
<1> QED BY <1>2, <1>3

\* Between two trials nothing is learnt.
LEMMA NothingLearnt ==
    ASSUME TrialsOK, StreakOK, UNCHANGED <<trials, refusing_streak, barren>>
    PROVE  TrialsOK' /\ StreakOK'
BY DEF TrialsOK, StreakOK, NothingRegistered

\* A dial that begins.
LEMMA BeginStays ==
    ASSUME DialInv, NEW d \in Dials, NEW with \in Settings, Begin(d, with)
    PROVE  /\ pc'[d] = "locking" /\ settings'[d] = with
           /\ \A e \in Dials : e # d => pc'[e] = pc[e] /\ settings'[e] = settings[e]
<1>1. Typed
  BY TypedWithMutex DEF DialInv
<1>2. pc' = [pc EXCEPT ![d] = "locking"] /\ settings' = [settings EXCEPT ![d] = with]
  BY DEF Begin, BeginRound, Move
<1> QED BY <1>1, <1>2 DEF Typed

LEMMA ReleaseStays ==
    ASSUME DialInv, NEW d \in Dials, Release(d) \/ (pc[d] = "gave_up" /\ UNCHANGED dialVars)
    PROVE  /\ pc[d] \in Resolved /\ pc'[d] \in Resting /\ settings' = settings
           /\ \A e \in Dials : e # d => pc'[e] = pc[e]
<1>1. Typed
  BY TypedWithMutex DEF DialInv
<1>2. CASE Release(d)
  <2>1. pc[d] = "returned" /\ pc' = [pc EXCEPT ![d] = "released"] /\ settings' = settings
    BY <1>2 DEF Release, Move
  <2> QED BY <1>1, <2>1 DEF Typed, Resolved, Resting
<1>3. CASE pc[d] = "gave_up" /\ UNCHANGED dialVars
  BY <1>3 DEF dialVars, Resolved, Resting
<1> QED BY <1>2, <1>3

LEMMA MarkKeeps ==
    ASSUME BenchInv, Mark
    PROVE  BenchInv'
<1>1. /\ at = "next" /\ at' = "warming" /\ Begin("warm_up", Unprobed)
      /\ UNCHANGED <<number, trials, refusing_streak, barren>>
  BY DEF Mark
<1>2. Unprobed \in Settings
  BY AttemptsAssumption DEF Unprobed, Settings
<1>3. DialInv' /\ HistoryInv' /\ ShapeInv'
  BY <1>1, <1>2, BothAreDials, DialsKept
<1>4. pc'["warm_up"] = "locking" /\ pc'["trial"] = pc["trial"]
  <2>1. DialInv
    BY DEF BenchInv
  <2> QED BY <1>1, <1>2, <2>1, BothAreDials, BeginStays
<1>5. PlaceOK'
  BY <1>1, <1>4 DEF BenchInv, PlaceOK, BenchPlaces, Dialling
<1>6. StopOK'
  BY <1>1 DEF BenchInv, StopOK
<1> QED BY <1>1, <1>3, <1>5, <1>6, NothingLearnt DEF BenchInv

LEMMA MarkedKeeps ==
    ASSUME BenchInv, Marked
    PROVE  BenchInv'
<1>1. /\ at = "warming" /\ at' = "quiet"
      /\ Release("warm_up") \/ (pc["warm_up"] = "gave_up" /\ UNCHANGED dialVars)
      /\ UNCHANGED <<number, trials, refusing_streak, barren>>
  BY DEF Marked
<1>2. DialInv' /\ HistoryInv' /\ ShapeInv'
  BY <1>1, BothAreDials, DialsKept
<1>3. pc'["warm_up"] \in Resting /\ pc'["trial"] = pc["trial"]
  <2>1. DialInv
    BY DEF BenchInv
  <2> QED BY <1>1, <2>1, BothAreDials, ReleaseStays
<1>4. PlaceOK'
  BY <1>1, <1>3 DEF BenchInv, PlaceOK, BenchPlaces
<1>5. StopOK'
  BY <1>1 DEF BenchInv, StopOK
<1> QED BY <1>1, <1>2, <1>4, <1>5, NothingLearnt DEF BenchInv

LEMMA MeasureKeeps ==
    ASSUME BenchInv, Measure
    PROVE  BenchInv'
<1>1. /\ at \in {"next", "quiet"} /\ at' = "measuring" /\ Begin("trial", With(InTurn(number)))
      /\ UNCHANGED <<number, trials, refusing_streak, barren>>
  BY DEF Measure
<1>2. With(InTurn(number)) \in Settings
  <2>1. number \in Nat \ {0}
    BY LenProperties DEF BenchInv, PlaceOK, TrialsOK
  <2> QED BY <2>1, InTurnIsAnArm, SettingsOfAnArm
<1>3. DialInv' /\ HistoryInv' /\ ShapeInv'
  BY <1>1, <1>2, BothAreDials, DialsKept
<1>4. /\ pc'["trial"] = "locking" /\ settings'["trial"] = With(InTurn(number))
      /\ pc'["warm_up"] = pc["warm_up"]
  <2>1. DialInv
    BY DEF BenchInv
  <2> QED BY <1>1, <1>2, <2>1, BothAreDials, BeginStays
<1>5. With(InTurn(number))' = With(InTurn(number))
  BY <1>1 DEF With, InTurn
<1>6. PlaceOK'
  BY <1>1, <1>4, <1>5 DEF BenchInv, PlaceOK, BenchPlaces, Dialling
<1>7. StopOK'
  BY <1>1 DEF BenchInv, StopOK
<1> QED BY <1>1, <1>3, <1>6, <1>7, NothingLearnt DEF BenchInv

LEMMA GetOnKeeps ==
    ASSUME BenchInv, GetOn
    PROVE  BenchInv'
<1>1. PICK d \in Dials : DialStep(d) /\ UNCHANGED bench
  BY DEF GetOn
<1>2. UNCHANGED <<gap, at, number, trials, refusing_streak, barren>>
  BY <1>1 DEF bench
<1>3. DialInv' /\ HistoryInv' /\ ShapeInv'
  BY <1>1, DialsKept
<1>4. /\ pc[d] \in Dialling /\ pc'[d] \in Dialling \cup Resolved /\ settings' = settings
      /\ \A e \in Dials : e # d => pc'[e] = pc[e]
  <2>1. DialInv
    BY DEF BenchInv
  <2> QED BY <1>1, <2>1, DialStepStays DEF OthersRest
<1>5. With(InTurn(number))' = With(InTurn(number))
  BY <1>2 DEF With, InTurn
<1>6. PlaceOK'
  <2>1. CASE d = "trial"
    BY <1>2, <1>4, <1>5, <2>1, BothAreDials DEF BenchInv, PlaceOK, Dialling, Resting
  <2>2. CASE d = "warm_up"
    BY <1>2, <1>4, <1>5, <2>2, BothAreDials DEF BenchInv, PlaceOK, Dialling, Resting
  <2> QED BY <2>1, <2>2, BenchAssumption
<1>7. StopOK'
  BY <1>2 DEF BenchInv, StopOK
<1> QED BY <1>2, <1>3, <1>6, <1>7, NothingLearnt DEF BenchInv

LEMMA ReportKeeps ==
    ASSUME BenchInv, Report
    PROVE  BenchInv'
<1>1. /\ \/ at = "stopped"
         \/ at = "next" /\ number > Trials
      /\ at' = "reported"
      /\ UNCHANGED <<dialVars, number, trials, refusing_streak, barren>>
  BY DEF Report
<1>2. DialInv' /\ HistoryInv' /\ ShapeInv'
  BY <1>1, BothAreDials, DialsKept
<1>3. PlaceOK' /\ StopOK'
  BY <1>1 DEF BenchInv, PlaceOK, BenchPlaces, StopOK, dialVars
<1> QED BY <1>1, <1>2, <1>3, NothingLearnt DEF BenchInv

\* A streak long enough ended with the trial that completed it.
LEMMA ShortStreak ==
    ASSUME StreakOK, TrialsOK, refusing_streak < RefusalStreakLimit
    PROVE  ~ NothingRegistered(Len(trials), RefusalStreakLimit)
<1> DEFINE n == Len(trials)
           limit == RefusalStreakLimit
<1>1. /\ n \in Nat /\ limit \in Nat /\ refusing_streak \in 0..n /\ refusing_streak < limit
      /\ n - refusing_streak \notin barren
  BY BenchAssumption, LenProperties DEF StreakOK, TrialsOK
<1> HIDE DEF n, limit
<1>2. n - refusing_streak \in n - limit + 1..n
  BY <1>1
<1> QED BY <1>1, <1>2 DEF NothingRegistered, n, limit

\* The trial that ends either opened a stream, and the streak with it, or goes on with it.
LEMMA StreakGoesOn ==
    ASSUME StreakOK, TrialsOK, refusing_streak < RefusalStreakLimit,
           NEW t \in Trial,
           trials' = Append(trials, t),
           refusing_streak' = StreakAfter(t),
           barren' = barren \cup IF OpenedIn(t) = 0 THEN {Len(trials) + 1} ELSE {}
    PROVE  StreakOK'
<1> DEFINE n == Len(trials)
           s == refusing_streak
           z == refusing_streak'
           limit == RefusalStreakLimit
<1>1. /\ n \in Nat /\ limit \in Nat \ {0} /\ s \in 0..n
      /\ barren = {i \in 1..n : OpenedIn(trials[i]) = 0}
      /\ n - s + 1..n \subseteq barren /\ n - s \notin barren
      /\ \A i \in 1..n - 1 : ~ NothingRegistered(i, limit)
  BY BenchAssumption, LenProperties DEF StreakOK, TrialsOK
<1>2. /\ Len(trials)' = n + 1 /\ trials'[n + 1] = t
      /\ \A i \in 1..n : trials'[i] = trials[i]
  BY AppendProperties DEF TrialsOK
<1>3. ~ NothingRegistered(n, limit)
  BY ShortStreak
<1>4. z = IF OpenedIn(t) = 0 THEN s + 1 ELSE 0
  BY DEF StreakAfter
<1>5. barren' = barren \cup IF OpenedIn(t) = 0 THEN {n + 1} ELSE {}
  OBVIOUS
<1> HIDE DEF n, s, z, limit
<1>6. barren' = {i \in 1..n + 1 : OpenedIn(trials'[i]) = 0}
  <2>1. ASSUME NEW i \in 1..n + 1 PROVE i \in barren' <=> OpenedIn(trials'[i]) = 0
    <3>1. CASE i = n + 1
      <4>1. n + 1 \notin barren
        BY <1>1
      <4> QED BY <1>2, <1>5, <3>1, <4>1
    <3>2. CASE i \in 1..n
      <4>1. trials'[i] = trials[i] /\ i # n + 1
        BY <1>1, <1>2, <3>2
      <4>2. i \in barren <=> OpenedIn(trials[i]) = 0
        BY <1>1, <3>2
      <4>3. i \in barren' <=> i \in barren
        BY <1>5, <4>1
      <4>4. OpenedIn(trials'[i]) = OpenedIn(trials[i])
        BY <4>1
      <4> QED BY <4>2, <4>3, <4>4
    <3>3. i = n + 1 \/ i \in 1..n
      BY <1>1
    <3> QED BY <3>1, <3>2, <3>3
  <2>2. barren' \subseteq 1..n + 1
    <3>1. barren \subseteq 1..n + 1
      BY <1>1
    <3>2. n + 1 \in 1..n + 1
      BY <1>1
    <3> QED BY <1>5, <3>1, <3>2
  <2> QED BY <2>1, <2>2
<1>7. z \in 0..n + 1
  BY <1>1, <1>4
<1>8. ASSUME NEW i \in Len(trials') - z + 1..Len(trials') PROVE i \in barren'
  <2>0. i \in n + 1 - z + 1..n + 1
    BY <1>1, <1>2, <1>7
  <2>1. CASE OpenedIn(t) = 0
    <3>1. z = s + 1 /\ n + 1 \in barren'
      BY <1>4, <1>5, <2>1
    <3>2. i \in n - s + 1..n + 1
      BY <1>1, <2>0, <3>1
    <3>3. i = n + 1 \/ i \in n - s + 1..n
      BY <1>1, <3>2
    <3> QED BY <1>1, <1>5, <3>1, <3>3
  <2>2. CASE OpenedIn(t) # 0
    BY <1>1, <1>4, <2>0, <2>2
  <2> QED BY <2>1, <2>2
<1>9. Len(trials') - z \notin barren'
  <2>0. Len(trials') = n + 1
    BY <1>2
  <2>1. CASE OpenedIn(t) = 0
    <3>1. Len(trials') - z = n - s /\ n - s # n + 1
      BY <1>1, <1>4, <2>0, <2>1
    <3> QED BY <1>1, <1>5, <2>1, <3>1
  <2>2. CASE OpenedIn(t) # 0
    <3>1. Len(trials') - z = n + 1 /\ n + 1 \notin barren
      BY <1>1, <1>4, <2>0, <2>2
    <3> QED BY <1>5, <2>2, <3>1
  <2> QED BY <2>1, <2>2
<1>10. Len(trials') = n + 1
  BY <1>2
<1>11. ASSUME NEW i \in 1..Len(trials') - 1
       PROVE  ~ (i >= limit /\ i - limit + 1..i \subseteq barren')
  <2>1. i \in 1..n
    BY <1>1, <1>10
  <2>2. ~ NothingRegistered(i, limit)
    <3>1. i = n \/ i \in 1..n - 1
      BY <1>1, <2>1
    <3> QED BY <1>1, <1>3, <3>1
  <2>3. n + 1 \notin i - limit + 1..i
    BY <1>1, <2>1
  <2>4. i - limit + 1..i \subseteq barren' => i - limit + 1..i \subseteq barren
    BY <1>5, <2>3
  <2> QED BY <2>2, <2>4 DEF NothingRegistered
<1>12. /\ barren' = {i \in 1..Len(trials') : OpenedIn(trials'[i]) = 0}
       /\ z \in 0..Len(trials')
       /\ Len(trials') - z + 1..Len(trials') \subseteq barren'
       /\ Len(trials') - z \notin barren'
  <2>1. barren' = {i \in 1..Len(trials') : OpenedIn(trials'[i]) = 0}
    BY <1>6, <1>10, Zenon
  <2>2. z \in 0..Len(trials')
    BY <1>7, <1>10, Zenon
  <2>3. Len(trials') - z + 1..Len(trials') \subseteq barren'
    BY <1>8
  <2>4. Len(trials') - z \notin barren'
    BY <1>9
  <2> QED BY <2>1, <2>2, <2>3, <2>4
<1>13. \A i \in 1..Len(trials') - 1 : ~ NothingRegistered(i, RefusalStreakLimit)'
  BY <1>11 DEF NothingRegistered, limit
<1>14. /\ (barren = {i \in 1..Len(trials) : OpenedIn(trials[i]) = 0})'
       /\ (refusing_streak \in 0..Len(trials))'
       /\ (Len(trials) - refusing_streak + 1..Len(trials) \subseteq barren)'
       /\ (Len(trials) - refusing_streak \notin barren)'
  BY <1>12 DEF z
<1> QED BY <1>13, <1>14 DEF StreakOK

LEMMA EndTrialKeeps ==
    ASSUME BenchInv, EndTrial
    PROVE  BenchInv'
<1> DEFINE t == Measured
           n == Len(trials)
<1>1. /\ at = "measuring"
      /\ Release("trial") \/ (pc["trial"] = "gave_up" /\ UNCHANGED dialVars)
      /\ refusing_streak' = StreakAfter(t)
      /\ trials' = Append(trials, t)
      /\ barren' = barren \cup IF \A s \in existed : s[1] # "trial" THEN {number} ELSE {}
      /\ at' = IF refusing_streak' >= RefusalStreakLimit THEN "stopped" ELSE "next"
      /\ number' = number + 1
  BY DEF EndTrial, Measured
<1>2. /\ DialInv /\ HistoryInv /\ ShapeInv
      /\ PlaceOK /\ TrialsOK /\ StreakOK /\ StopOK
  BY DEF BenchInv
<1>3. DialInv' /\ HistoryInv' /\ ShapeInv'
  BY <1>1, BothAreDials, DialsKept
<1>4. pc["trial"] \in Resolved /\ pc'["trial"] \in Resting /\ pc'["warm_up"] = pc["warm_up"]
  BY <1>1, <1>2, BothAreDials, ReleaseStays
<1>5. n \in Nat /\ number = n + 1
  <2>1. trials \in Seq(Trial)
    BY <1>2 DEF TrialsOK
  <2>2. n \in Nat
    BY <2>1, LenProperties
  <2>3. number = n + 1
    BY <1>2 DEF PlaceOK
  <2> QED BY <2>2, <2>3
<1>6. InTurn(number) \in RoundSizes
  BY <1>5, InTurnIsAnArm
<1>7. settings["trial"] = With(InTurn(number))
  BY <1>1, <1>2 DEF PlaceOK
<1>8. t \in Trial /\ TrialOK(t) /\ (OpenedIn(t) = 0 <=> Existing("trial") = {})
  BY <1>2, <1>4, <1>6, <1>7, BothAreDials, MeasuredIsATrial DEF Measured
<1>9. OpenedIn(t) = 0 <=> \A s \in existed : s[1] # "trial"
  <2>1. existed \subseteq Dials \X (1..MaxAttempts)
    BY <1>2, TypedWithMutex DEF DialInv, Typed, Streams
  <2>2. Existing("trial") = {} <=> \A s \in existed : s[1] # "trial"
    BY <2>1 DEF Existing
  <2> QED BY <1>8, <2>2
<1> HIDE DEF t
<1>10. /\ trials' \in Seq(Trial) /\ Len(trials') = n + 1 /\ trials'[n + 1] = t
       /\ \A i \in 1..n : trials'[i] = trials[i]
  BY <1>1, <1>2, <1>8, AppendProperties DEF TrialsOK
<1>11. TrialsOK'
  <2>1. ASSUME NEW i \in 1..n + 1 PROVE TrialOK(trials'[i])
    <3>1. i = n + 1 \/ i \in 1..n
      BY <1>5
    <3> QED BY <1>2, <1>8, <1>10, <3>1 DEF TrialsOK
  <2> QED BY <1>10, <2>1 DEF TrialsOK
<1>12. StreakOK'
  <2>1. refusing_streak < RefusalStreakLimit
    BY <1>1, <1>2 DEF StopOK
  <2>2. barren' = barren \cup IF OpenedIn(t) = 0 THEN {Len(trials) + 1} ELSE {}
    BY <1>1, <1>5, <1>9
  <2> QED BY <1>1, <1>2, <1>8, <2>1, <2>2, StreakGoesOn
<1>13. PlaceOK'
  BY <1>1, <1>2, <1>4, <1>5, <1>10 DEF PlaceOK, BenchPlaces
<1>14. StopOK'
  <2>1. refusing_streak' \in Nat /\ RefusalStreakLimit \in Nat
    BY <1>12, <1>10, <1>5, BenchAssumption DEF StreakOK
  <2> QED BY <1>1, <2>1 DEF StopOK
<1> QED BY <1>3, <1>11, <1>12, <1>13, <1>14 DEF BenchInv

LEMMA BenchInit == Init => BenchInv
<1> SUFFICES ASSUME Init PROVE BenchInv
  OBVIOUS
<1>1. /\ DialInit /\ at = "next" /\ number = 1 /\ trials = <<>> /\ refusing_streak = 0
      /\ barren = {}
  BY DEF Init
<1>2. DialInv /\ HistoryInv
  BY <1>1, InitEstablishes, HistoryOfInit
<1>3. pc["warm_up"] = "idle" /\ pc["trial"] = "idle"
  BY <1>1, BothAreDials DEF DialInit
<1>4. ShapeInv
  BY <1>1 DEF DialInit, ShapeInv, ShapeOK
<1>5. Len(trials) = 0 /\ trials \in Seq(Trial)
  BY <1>1
<1>6. PlaceOK /\ TrialsOK /\ StopOK
  BY <1>1, <1>3, <1>5, BenchAssumption DEF PlaceOK, BenchPlaces, Resting, TrialsOK, StopOK
<1>7. StreakOK
  BY <1>1, <1>5 DEF StreakOK
<1> QED BY <1>2, <1>4, <1>6, <1>7 DEF BenchInv

LEMMA BenchNextKeeps == BenchInv /\ [Next]_vars => BenchInv'
<1> SUFFICES ASSUME BenchInv, [Next]_vars PROVE BenchInv'
  OBVIOUS
<1>1. CASE Mark
  BY <1>1, MarkKeeps
<1>2. CASE Marked
  BY <1>2, MarkedKeeps
<1>3. CASE Measure
  BY <1>3, MeasureKeeps
<1>4. CASE GetOn
  BY <1>4, GetOnKeeps
<1>5. CASE EndTrial
  BY <1>5, EndTrialKeeps
<1>6. CASE Report
  BY <1>6, ReportKeeps
<1>7. CASE UNCHANGED vars
  <2>1. UNCHANGED dialVars /\ UNCHANGED <<gap, at, number, trials, refusing_streak, barren>>
    BY <1>7 DEF vars, bench
  <2>2. DialInv' /\ HistoryInv' /\ ShapeInv'
    BY <2>1, BothAreDials, DialsKept
  <2>3. PlaceOK' /\ StopOK'
    BY <2>1 DEF BenchInv, PlaceOK, StopOK, dialVars, With, InTurn
  <2> QED BY <2>1, <2>2, <2>3, NothingLearnt DEF BenchInv
<1> QED BY <1>1, <1>2, <1>3, <1>4, <1>5, <1>6, <1>7 DEF Next

LEMMA BenchInvariance == Spec => []BenchInv
<1> QED BY BenchInit, BenchNextKeeps, PTL DEF Spec

-----------------------------------------------------------------------------
(* Stopping. *)

\* A run of the bench is cut short only after REFUSAL_STREAK_LIMIT trials in a row for which the SDK
\* registered no stream, and nothing is measured after such a streak (main in bench.rs).
THEOREM StoppedForADeadClient == Spec => []StoppedExactlyForADeadClient
<1>1. BenchInv => StoppedExactlyForADeadClient
  <2> SUFFICES ASSUME BenchInv PROVE StoppedExactlyForADeadClient
    OBVIOUS
  <2> DEFINE n == Len(trials)
             limit == RefusalStreakLimit
  <2>1. /\ PlaceOK /\ StreakOK /\ StopOK /\ TrialsOK
        /\ limit \in Nat \ {0} /\ Trials \in Nat /\ n \in Nat /\ DOMAIN trials = 1..n
    BY BenchAssumption, LenProperties DEF BenchInv, TrialsOK
  <2>2. /\ refusing_streak \in 0..n
        /\ n - refusing_streak + 1..n \subseteq barren
        /\ \A i \in 1..n - 1 : ~ NothingRegistered(i, limit)
    BY <2>1 DEF StreakOK
  <2>3. /\ number = n + 1
        /\ at \notin {"stopped", "reported"} => refusing_streak < limit
        /\ at = "stopped" => refusing_streak >= limit
        /\ at = "reported" => refusing_streak >= limit \/ number > Trials
    BY <2>1 DEF PlaceOK, StopOK
  <2>4. at \notin {"stopped", "reported"} => ~ NothingRegistered(n, limit)
    BY <2>1, <2>3, ShortStreak
  <2> HIDE DEF n, limit
  <2>5. ASSUME at \in {"stopped", "reported"}, n < Trials PROVE NothingRegistered(n, limit)
    <3>1. refusing_streak >= limit
      BY <2>1, <2>3, <2>5
    <3>2. n >= limit
      BY <2>1, <2>2, <3>1
    <3>3. n - limit + 1..n \subseteq n - refusing_streak + 1..n
      BY <2>1, <2>2, <3>1
    <3> QED BY <2>2, <3>2, <3>3 DEF NothingRegistered
  <2>6. ASSUME NEW i \in 1..n, NothingRegistered(i, limit)
        PROVE  i = n /\ at \in {"stopped", "reported"}
    <3>1. i = n \/ i \in 1..n - 1
      BY <2>1
    <3> QED BY <2>2, <2>4, <2>6, <3>1
  <2> QED BY <2>1, <2>5, <2>6 DEF StoppedExactlyForADeadClient, n, limit
<1> QED BY <1>1, BenchInvariance, PTL

-----------------------------------------------------------------------------
(* The conditional rates. *)

\* Of the trials of a group, those whose deepest possible round failed are those that failed.
LEMMA OneTrialGoesAsDeepAsItMust ==
    ASSUME NEW t \in Trial, TrialOK(t)
    PROVE  LET n == Len(t.rounds)
               deepest == Deepest(t.arm, Attempts)
           IN /\ n \in Nat \ {0} /\ DOMAIN t.rounds = 1..n
              /\ n <= deepest
              /\ ~ t.answered => n = deepest
              /\ \A i \in 1..n : t.rounds[i].answered <=> (i = n /\ t.answered)
<1> DEFINE n == Len(t.rounds)
           deepest == Deepest(t.arm, Attempts)
<1>1. /\ t.rounds \in Seq(Round) /\ t.arm \in Nat \ {0} /\ Attempts \in Nat \ {0}
  <2>1. t.rounds \in Seq(Round) /\ t.arm \in RoundSizes
    BY DEF Trial
  <2>2. t.arm \in Nat \ {0}
    BY <2>1, SettingsOfAnArm
  <2>3. Attempts \in Nat \ {0}
    BY BenchAssumption, AttemptsAssumption
  <2> QED BY <2>1, <2>2, <2>3
<1>2. n \in Nat \ {0} /\ DOMAIN t.rounds = 1..n
  BY <1>1, EmptySeq, LenProperties DEF TrialOK
<1>3. /\ \A i \in 1..n : t.rounds[i].answered <=> (i = n /\ t.answered)
      /\ Claimed(n - 1, t.arm) < Attempts
      /\ ~ t.answered => Claimed(n, t.arm) >= Attempts
  BY DEF TrialOK
<1>4. /\ deepest \in Nat \ {0}
      /\ Claimed(deepest, t.arm) >= Attempts
  BY <1>1, DeepestRound
<1> HIDE DEF n, deepest
<1>5. ~ t.answered => n = deepest
  BY <1>1, <1>2, <1>3, OnlyOneIsDeepest DEF deepest
<1>6. n <= deepest
  <2>1. n - 1 \in Nat /\ Claimed(n - 1, t.arm) \in Nat /\ Claimed(deepest, t.arm) \in Nat
    <3>1. n - 1 \in Nat
      BY <1>2
    <3> QED BY <1>1, <1>4, <3>1, ClaimsAddUp
  <2>2. deepest <= n - 1 => Claimed(deepest, t.arm) <= Claimed(n - 1, t.arm)
    BY <1>1, <1>4, <2>1, ClaimsGrow
  <2> QED BY <1>1, <1>2, <1>3, <1>4, <2>1, <2>2
<1> QED BY <1>2, <1>3, <1>5, <1>6 DEF n, deepest

\* Within an arm every round but the last is followed by another exactly when it failed, so the rates
\* of the conditional column multiply from the first-round rate to the wallet-visible one
\* (conditional_rates in bench.rs).
THEOREM RatesMultiply == Spec => []ConditionalRatesMultiply
<1>1. BenchInv => ConditionalRatesMultiply
  <2> SUFFICES ASSUME BenchInv, NEW arm \in RoundSizes
               PROVE  LET group == Group(arm)
                          deepest == Deepest(arm, Attempts)
                      IN /\ Reached(group, 1) = group
                         /\ \A n \in 1..deepest - 1 : Reached(group, n + 1) = Failed(group, n)
                         /\ Cardinality(Failed(group, 1)) = FirstRoundFailures(group)
                         /\ Cardinality(Failed(group, deepest)) = VisibleFailures(group)
    BY DEF ConditionalRatesMultiply, Deepest
  <2> DEFINE group == Group(arm)
             deepest == Deepest(arm, Attempts)
             len(i) == Len(trials[i].rounds)
  <2>1. arm \in Nat \ {0} /\ Attempts \in Nat \ {0}
    BY BenchAssumption, AttemptsAssumption
  <2>2. deepest \in Nat \ {0}
    BY <2>1, DeepestRound
  <2>3. ASSUME NEW i \in group
        PROVE  /\ len(i) \in Nat \ {0} /\ DOMAIN trials[i].rounds = 1..len(i)
               /\ len(i) <= deepest
               /\ ~ trials[i].answered => len(i) = deepest
               /\ \A k \in 1..len(i) :
                     trials[i].rounds[k].answered <=> (k = len(i) /\ trials[i].answered)
               /\ trials[i].answered \in BOOLEAN
    <3>1. i \in 1..Len(trials) /\ trials[i].arm = arm
      BY LenProperties DEF BenchInv, TrialsOK, Group
    <3>2. trials[i] \in Trial /\ TrialOK(trials[i])
      BY <3>1, ElementOfSeq DEF BenchInv, TrialsOK
    <3>3. trials[i].answered \in BOOLEAN
      BY <3>2 DEF Trial
    <3> QED BY <3>1, <3>2, <3>3, OneTrialGoesAsDeepAsItMust
  <2> HIDE DEF group, deepest, len
  <2>4. ASSUME NEW n \in Nat
        PROVE  /\ Reached(group, n) = {i \in group : len(i) >= n}
               /\ Failed(group, n) = {i \in group :
                     n \in DOMAIN trials[i].rounds /\ ~ trials[i].rounds[n].answered}
    BY DEF Reached, Failed, len
  <2>5. Reached(group, 1) = group
    <3>1. Reached(group, 1) = {i \in group : len(i) >= 1}
      BY <2>4
    <3>2. \A i \in group : len(i) >= 1
      BY <2>3
    <3> QED BY <3>1, <3>2
  <2>6. ASSUME NEW n \in 1..deepest - 1 PROVE Reached(group, n + 1) = Failed(group, n)
    <3>1. n \in Nat /\ n + 1 \in Nat /\ n >= 1 /\ n < deepest
      BY <2>2
    <3>2. ASSUME NEW i \in group
          PROVE  len(i) >= n + 1
                     <=> n \in DOMAIN trials[i].rounds /\ ~ trials[i].rounds[n].answered
      <4>1. n \in DOMAIN trials[i].rounds <=> n <= len(i)
        BY <2>3, <3>1
      <4>2. n <= len(i) => (trials[i].rounds[n].answered <=> n = len(i) /\ trials[i].answered)
        BY <2>3, <3>1
      <4>3. len(i) = n => trials[i].answered
        BY <2>2, <2>3, <3>1
      <4>4. len(i) \in Nat /\ (len(i) >= n + 1 <=> n <= len(i) /\ n # len(i))
        BY <2>3, <3>1
      <4> QED BY <4>1, <4>2, <4>3, <4>4
    <3> QED BY <2>4, <3>1, <3>2
  <2>7. Failed(group, 1) = {i \in group : FirstRoundFailed(trials[i])}
    <3>1. ASSUME NEW i \in group
          PROVE  1 \in DOMAIN trials[i].rounds /\ ~ trials[i].rounds[1].answered
                     <=> FirstRoundFailed(trials[i])
      <4>1. 1 \in DOMAIN trials[i].rounds /\ trials[i].rounds # <<>>
        BY <2>3 DEF len
      <4> QED BY <4>1 DEF FirstRoundFailed
    <3> QED BY <2>4, <3>1
  <2>8. Failed(group, deepest) = {i \in group : ~ trials[i].answered}
    <3>1. ASSUME NEW i \in group
          PROVE  deepest \in DOMAIN trials[i].rounds /\ ~ trials[i].rounds[deepest].answered
                     <=> ~ trials[i].answered
      <4>1. deepest \in DOMAIN trials[i].rounds <=> deepest = len(i)
        BY <2>2, <2>3
      <4>2. deepest = len(i) => (trials[i].rounds[deepest].answered <=> trials[i].answered)
        BY <2>2, <2>3
      <4> QED BY <2>3, <4>1, <4>2
    <3> QED BY <2>2, <2>4, <3>1
  <2>9. /\ Cardinality(Failed(group, 1)) = FirstRoundFailures(group)
        /\ Cardinality(Failed(group, deepest)) = VisibleFailures(group)
    BY <2>7, <2>8 DEF FirstRoundFailures, VisibleFailures
  <2> QED BY <2>5, <2>6, <2>9 DEF group, deepest
<1> QED BY <1>1, BenchInvariance, PTL

-----------------------------------------------------------------------------
(* What a trial counts. *)

LEMMA NatSeq ==
    ASSUME NEW n \in Nat, NEW c, c = [i \in 1..n |-> c[i]], \A i \in 1..n : c[i] \in Nat
    PROVE  c \in Seq(Nat) /\ c \in Seq(Int) /\ Len(c) = n
<1>1. c \in [1..n -> Nat]
  OBVIOUS
<1>2. c \in Seq(Nat) /\ Len(c) = n
  BY <1>1
<1>3. c \in Seq(Int)
  BY <1>2, SeqMonotonic
<1> QED BY <1>2, <1>3

\* Counting one for each member of a set of places counts the set.
LEMMA TotalOfMembers ==
    ASSUME NEW n \in Nat, NEW c \in Seq(Nat), Len(c) = n, NEW G, G \subseteq 1..n,
           \A i \in 1..n : c[i] = IF i \in G THEN 1 ELSE 0
    PROVE  IsFiniteSet(G) /\ Cardinality(G) \in Nat /\ Total(c) = Cardinality(G)
<1> DEFINE S(k) == {i \in 1..k : i \in G}
<1>1. c \in Seq(Int)
  BY SeqMonotonic
<1>2. PICK f : Sums(f, c, n) /\ Total(c) = f[n] /\ f[n] \in Int
  BY <1>1, TotalIsTheLastSum
<1> DEFINE T == {k \in Nat : k <= n => IsFiniteSet(S(k)) /\ f[k] = Cardinality(S(k))}
<1>3. 0 \in T
  <2>1. S(0) = {} /\ f[0] = 0
    BY <1>2 DEF Sums
  <2> QED BY <2>1, FS_EmptySet
<1>4. ASSUME NEW k \in Nat, k \in T PROVE k + 1 \in T
  <2> SUFFICES ASSUME k + 1 <= n
               PROVE  IsFiniteSet(S(k + 1)) /\ f[k + 1] = Cardinality(S(k + 1))
    OBVIOUS
  <2>1. k + 1 \in 0..n /\ k + 1 # 0 /\ k + 1 - 1 = k /\ k <= n /\ k + 1 \in 1..n
    OBVIOUS
  <2>2. IsFiniteSet(S(k)) /\ f[k] = Cardinality(S(k)) /\ Cardinality(S(k)) \in Nat
    BY <1>4, <2>1, FS_CardinalityType
  <2>3. f[k + 1] = f[k] + c[k + 1]
    BY <1>2, <2>1 DEF Sums
  <2>4. k + 1 \notin S(k)
    OBVIOUS
  <2>5. CASE k + 1 \in G
    <3>1. S(k + 1) = S(k) \cup {k + 1}
      BY <2>5
    <3>2. c[k + 1] = 1
      BY <2>1, <2>5
    <3> HIDE DEF S
    <3>3. IsFiniteSet(S(k) \cup {k + 1}) /\ Cardinality(S(k) \cup {k + 1}) = Cardinality(S(k)) + 1
      BY <2>2, <2>4, FS_AddElement
    <3> QED BY <2>2, <2>3, <3>1, <3>2, <3>3
  <2>6. CASE k + 1 \notin G
    <3>1. S(k + 1) = S(k)
      BY <2>6
    <3>2. c[k + 1] = 0
      BY <2>1, <2>6
    <3> HIDE DEF S
    <3> QED BY <2>2, <2>3, <3>1, <3>2
  <2> QED BY <2>5, <2>6
<1>5. \A k \in Nat : k \in T
  <2> HIDE DEF T
  <2> QED BY <1>3, <1>4, SetInduction
<1>6. S(n) = G
  OBVIOUS
<1>7. IsFiniteSet(G) /\ f[n] = Cardinality(G)
  <2>1. n \in T
    BY <1>5
  <2>2. IsFiniteSet(S(n)) /\ f[n] = Cardinality(S(n))
    BY <2>1
  <2> HIDE DEF S
  <2> QED BY <1>6, <2>2
<1> QED BY <1>2, <1>7, FS_CardinalityType

\* Counts that are zero but for the last.
LEMMA TotalOfTheLast ==
    ASSUME NEW n \in Nat \ {0}, NEW c \in Seq(Nat), Len(c) = n,
           \A i \in 1..n : i # n => c[i] = 0
    PROVE  Total(c) = c[n]
<1> DEFINE z == [i \in 1..n |-> 0]
<1>1. /\ z \in Seq(Nat) /\ z \in Seq(Int) /\ Len(z) = n
      /\ \A i \in 1..n : z[i] = 0
  BY NatSeq
<1>2. c \in Seq(Int) /\ n \in 1..n /\ c[n] \in Nat
  BY SeqMonotonic, ElementOfSeq
<1> HIDE DEF z
<1>3. Total(z) = 0 /\ z[n] = 0
  BY <1>1, <1>2, PartOfTotal
<1>4. \A i \in 1..n - 1 : z[i] = c[i]
  BY <1>1
<1>5. Total(c) = Total(z) - z[n] + c[n]
  BY <1>1, <1>2, <1>4, TotalOfAnotherLast
<1> QED BY <1>2, <1>3, <1>5

LEMMA RoundAddsUp ==
    ASSUME NEW r \in Round, r.answered => r.opened > r.unanswered,
           ~ r.answered => r.opened = r.unanswered
    PROVE  /\ Cancelled(r) \in Nat
           /\ r.opened = r.unanswered + (Cancelled(r) + (IF r.answered THEN 1 ELSE 0))
<1>1. r.opened \in Nat /\ r.unanswered \in Nat /\ r.answered \in BOOLEAN
  BY DEF Round
<1> QED BY <1>1 DEF Cancelled, Saturating

\* Every stream a trial opened answered, was left unanswered or was cancelled.
LEMMA TrialAddsUp ==
    ASSUME NEW t \in Trial, TrialOK(t)
    PROVE  /\ OpenedIn(t) \in Nat /\ UnansweredIn(t) \in Nat /\ CancelledIn(t) \in Nat
           /\ OpenedIn(t) =
                  UnansweredIn(t) + (CancelledIn(t) + (IF t.answered THEN 1 ELSE 0))
<1> DEFINE rs == t.rounds
           n == Len(rs)
           a == [i \in 1..n |-> rs[i].opened]
           b == [i \in 1..n |-> rs[i].unanswered]
           c == [i \in 1..n |-> Cancelled(rs[i])]
           e == [i \in 1..n |-> IF rs[i].answered THEN 1 ELSE 0]
           x == [i \in 1..n |-> Cancelled(rs[i]) + (IF rs[i].answered THEN 1 ELSE 0)]
<1>1. rs \in Seq(Round) /\ rs # <<>> /\ t.answered \in BOOLEAN
  BY DEF Trial, TrialOK
<1>2. n \in Nat \ {0} /\ DOMAIN rs = 1..n /\ \A i \in 1..n : rs[i] \in Round
  BY <1>1, EmptySeq, LenProperties, ElementOfSeq
<1>3. ASSUME NEW i \in 1..n
      PROVE  /\ rs[i].answered <=> (i = n /\ t.answered)
             /\ rs[i].opened \in Nat /\ rs[i].unanswered \in Nat /\ Cancelled(rs[i]) \in Nat
             /\ rs[i].opened =
                    rs[i].unanswered + (Cancelled(rs[i]) + (IF rs[i].answered THEN 1 ELSE 0))
  <2>1. rs[i].opened \in Nat /\ rs[i].unanswered \in Nat
    BY <1>2 DEF Round
  <2>2. /\ rs[i].answered <=> (i = n /\ t.answered)
        /\ rs[i].answered => rs[i].opened > rs[i].unanswered
        /\ ~ rs[i].answered => rs[i].opened = rs[i].unanswered
    BY DEF TrialOK
  <2> HIDE DEF rs
  <2> QED BY <1>2, <2>1, <2>2, RoundAddsUp
<1>4. OpenedIn(t) = Total(a) /\ UnansweredIn(t) = Total(b) /\ CancelledIn(t) = Total(c)
  BY <1>2 DEF OpenedIn, UnansweredIn, CancelledIn
<1> HIDE DEF rs, n
<1>5. a \in Seq(Nat) /\ a \in Seq(Int) /\ Len(a) = n
  BY <1>2, <1>3, NatSeq
<1>6. b \in Seq(Nat) /\ b \in Seq(Int) /\ Len(b) = n
  BY <1>2, <1>3, NatSeq
<1>7. c \in Seq(Nat) /\ c \in Seq(Int) /\ Len(c) = n
  BY <1>2, <1>3, NatSeq
<1>8. e \in Seq(Nat) /\ e \in Seq(Int) /\ Len(e) = n
  BY <1>2, NatSeq
<1>9. x \in Seq(Nat) /\ x \in Seq(Int) /\ Len(x) = n
  <2>1. \A i \in 1..n : x[i] \in Nat
    BY <1>3
  <2> QED BY <1>2, <2>1, NatSeq
<1>10. ASSUME NEW i \in 1..n PROVE a[i] = b[i] + x[i] /\ x[i] = c[i] + e[i]
  <2>1. /\ a[i] = rs[i].opened /\ b[i] = rs[i].unanswered /\ c[i] = Cancelled(rs[i])
        /\ e[i] = IF rs[i].answered THEN 1 ELSE 0
        /\ x[i] = Cancelled(rs[i]) + (IF rs[i].answered THEN 1 ELSE 0)
    OBVIOUS
  <2> HIDE DEF a, b, c, e, x
  <2> QED BY <1>3, <2>1
<1>11. Total(e) = IF t.answered THEN 1 ELSE 0
  <2>1. n \in 1..n /\ (\A i \in 1..n : i # n => e[i] = 0) /\ e[n] = IF t.answered THEN 1 ELSE 0
    BY <1>2, <1>3
  <2> HIDE DEF e
  <2> QED BY <1>2, <1>8, <2>1, TotalOfTheLast
<1> HIDE DEF a, b, c, e, x
<1>12. Total(a) = Total(b) + Total(x)
  <2>1. n \in Nat /\ \A i \in 1..n : a[i] = b[i] + x[i]
    BY <1>2, <1>10
  <2> QED BY <1>5, <1>6, <1>9, <2>1, TotalsAdd
<1>13. Total(x) = Total(c) + Total(e)
  BY <1>2, <1>7, <1>8, <1>9, <1>10, TotalsAdd
<1>14. Total(a) \in Nat /\ Total(b) \in Nat /\ Total(c) \in Nat
  BY <1>5, <1>6, <1>7, TotalIsNat
<1> QED BY <1>4, <1>11, <1>12, <1>13, <1>14

-----------------------------------------------------------------------------
(* The streams of an arm. *)

LEMMA GroupIsFinite ==
    ASSUME TrialsOK, NEW arm \in RoundSizes
    PROVE  /\ Len(trials) \in Nat /\ DOMAIN trials = 1..Len(trials)
           /\ Group(arm) \subseteq 1..Len(trials) /\ IsFiniteSet(Group(arm))
           /\ \A i \in 1..Len(trials) : trials[i] \in Trial /\ TrialOK(trials[i])
<1>1. Len(trials) \in Nat /\ DOMAIN trials = 1..Len(trials)
  BY LenProperties DEF TrialsOK
<1>2. Group(arm) \subseteq 1..Len(trials)
  BY <1>1 DEF Group
<1>3. IsFiniteSet(1..Len(trials))
  BY <1>1, FS_Interval
<1>4. IsFiniteSet(Group(arm))
  BY <1>2, <1>3, FS_Subset
<1>5. \A i \in 1..Len(trials) : trials[i] \in Trial /\ TrialOK(trials[i])
  BY ElementOfSeq DEF TrialsOK
<1> QED BY <1>1, <1>2, <1>4, <1>5

\* The streams an arm opened are those that answered, one for each trial that did not fail, those left
\* unanswered and those cancelled once another answered (the report's columns in bench.rs).
THEOREM ArmsAddUp == Spec => []StreamsOfAnArmAddUp
<1>1. BenchInv => StreamsOfAnArmAddUp
  <2> SUFFICES ASSUME BenchInv, NEW arm \in RoundSizes
               PROVE  Sum(Group(arm), OpenedIn) =
                          Cardinality(Group(arm)) - VisibleFailures(Group(arm))
                              + Sum(Group(arm), UnansweredIn) + Sum(Group(arm), CancelledIn)
    BY DEF StreamsOfAnArmAddUp
  <2> DEFINE group == Group(arm)
             n == Len(trials)
             answered == {i \in group : trials[i].answered}
             failed == {i \in group : ~ trials[i].answered}
             a == [i \in 1..n |-> IF i \in group THEN OpenedIn(trials[i]) ELSE 0]
             b == [i \in 1..n |-> IF i \in group THEN UnansweredIn(trials[i]) ELSE 0]
             c == [i \in 1..n |-> IF i \in group THEN CancelledIn(trials[i]) ELSE 0]
             e == [i \in 1..n |-> IF i \in answered THEN 1 ELSE 0]
             x == [i \in 1..n |-> c[i] + e[i]]
  <2>1. /\ n \in Nat /\ DOMAIN trials = 1..n /\ group \subseteq 1..n /\ IsFiniteSet(group)
        /\ \A i \in 1..n : trials[i] \in Trial /\ TrialOK(trials[i])
    BY GroupIsFinite DEF BenchInv
  <2>2. /\ Sum(group, OpenedIn) = Total(a)
        /\ Sum(group, UnansweredIn) = Total(b)
        /\ Sum(group, CancelledIn) = Total(c)
    BY <2>1 DEF Sum
  <2>3. VisibleFailures(group) = Cardinality(failed)
    BY DEF VisibleFailures
  <2> HIDE DEF group, n
  <2>4. ASSUME NEW i \in 1..n
        PROVE  /\ OpenedIn(trials[i]) \in Nat /\ UnansweredIn(trials[i]) \in Nat
               /\ CancelledIn(trials[i]) \in Nat
               /\ OpenedIn(trials[i]) = UnansweredIn(trials[i])
                      + (CancelledIn(trials[i]) + (IF trials[i].answered THEN 1 ELSE 0))
    BY <2>1, TrialAddsUp
  <2>5. ASSUME NEW i \in 1..n
        PROVE  /\ a[i] \in Nat /\ b[i] \in Nat /\ c[i] \in Nat /\ e[i] \in Nat /\ x[i] \in Nat
               /\ a[i] = b[i] + x[i] /\ x[i] = c[i] + e[i]
    <3>1. CASE i \in group
      <4>1. e[i] = IF trials[i].answered THEN 1 ELSE 0
        BY <3>1
      <4>2. a[i] = OpenedIn(trials[i]) /\ b[i] = UnansweredIn(trials[i]) /\ c[i] = CancelledIn(trials[i])
        BY <3>1
      <4>3. x[i] = c[i] + e[i]
        OBVIOUS
      <4> HIDE DEF a, b, c, e, x
      <4> QED BY <2>4, <4>1, <4>2, <4>3
    <3>2. CASE i \notin group
      <4>1. a[i] = 0 /\ b[i] = 0 /\ c[i] = 0 /\ e[i] = 0 /\ x[i] = c[i] + e[i]
        BY <3>2
      <4> HIDE DEF a, b, c, e, x
      <4> QED BY <4>1
    <3> QED BY <3>1, <3>2
  <2>6. a \in Seq(Nat) /\ a \in Seq(Int) /\ Len(a) = n
    BY <2>1, <2>5, NatSeq
  <2>7. b \in Seq(Nat) /\ b \in Seq(Int) /\ Len(b) = n
    BY <2>1, <2>5, NatSeq
  <2>8. c \in Seq(Nat) /\ c \in Seq(Int) /\ Len(c) = n
    BY <2>1, <2>5, NatSeq
  <2>9. e \in Seq(Nat) /\ e \in Seq(Int) /\ Len(e) = n
    BY <2>1, <2>5, NatSeq
  <2>10. x \in Seq(Nat) /\ x \in Seq(Int) /\ Len(x) = n
    BY <2>1, <2>5, NatSeq
  <2>11. Total(e) = Cardinality(answered)
    <3>1. answered \subseteq 1..n /\ \A i \in 1..n : e[i] = IF i \in answered THEN 1 ELSE 0
      BY <2>1
    <3> HIDE DEF e, answered
    <3> QED BY <2>1, <2>9, <3>1, TotalOfMembers
  <2>12. /\ Cardinality(group) \in Nat /\ Cardinality(failed) \in Nat
         /\ Cardinality(answered) = Cardinality(group) - Cardinality(failed)
    <3>1. answered = group \ failed /\ group \cap failed = failed /\ failed \subseteq group
      OBVIOUS
    <3> HIDE DEF answered, failed
    <3>2. IsFiniteSet(failed)
      BY <2>1, <3>1, FS_Subset
    <3>3. Cardinality(group \ failed) = Cardinality(group) - Cardinality(group \cap failed)
      BY <2>1, FS_Difference
    <3> QED BY <2>1, <3>1, <3>2, <3>3, FS_CardinalityType
  <2> HIDE DEF a, b, c, e, x, answered, failed
  <2>13. Total(a) = Total(b) + Total(x)
    BY <2>1, <2>5, <2>6, <2>7, <2>10, TotalsAdd
  <2>14. Total(x) = Total(c) + Total(e)
    BY <2>1, <2>5, <2>8, <2>9, <2>10, TotalsAdd
  <2>15. Total(b) \in Nat /\ Total(c) \in Nat
    BY <2>7, <2>8, TotalIsNat
  <2>16. Total(a) = Cardinality(group) - Cardinality(failed) + Total(b) + Total(c)
    BY <2>11, <2>12, <2>13, <2>14, <2>15
  <2>17. Sum(group, OpenedIn) =
             Cardinality(group) - VisibleFailures(group)
                 + Sum(group, UnansweredIn) + Sum(group, CancelledIn)
    BY <2>2, <2>3, <2>16, Zenon
  <2> QED BY <2>17 DEF group
<1> QED BY <1>1, BenchInvariance, PTL

-----------------------------------------------------------------------------
(* A report that is not marked. *)

\* Every open of a trial went through or was refused.
LEMMA RefusedOfTrial ==
    ASSUME NEW t \in Trial
    PROVE  /\ RefusedIn(t) = CountIn(t.rounds, "refused") /\ RefusedIn(t) \in Nat
           /\ AttemptedIn(t.rounds) = OpenedIn(t) + RefusedIn(t)
<1>1. t.rounds \in Seq(Round)
  BY DEF Trial
<1>2. OpenedIn(t) = CountIn(t.rounds, "opened")
  BY DEF OpenedIn, CountIn
<1>3. AttemptedIn(t.rounds) = CountIn(t.rounds, "opened") + CountIn(t.rounds, "refused")
  BY <1>1, AttemptedIsOpenedOrRefused
<1>4. CountIn(t.rounds, "opened") \in Nat /\ CountIn(t.rounds, "refused") \in Nat
  BY <1>1, CountInIsNat DEF CountFields
<1> QED BY <1>2, <1>3, <1>4 DEF RefusedIn

\* A trial without a refused open that failed left every attempt unanswered, and a first round that
\* failed left all it was to open unanswered.
LEMMA TransportAlone ==
    ASSUME NEW t \in Trial, TrialOK(t), RefusedIn(t) = 0
    PROVE  /\ FirstRoundFailed(t) => t.rounds[1].unanswered = RoundSize(t.arm, Attempts)
           /\ ~ t.answered => UnansweredIn(t) = Attempts
<1> DEFINE rs == t.rounds
           n == Len(rs)
           c == [i \in DOMAIN rs |-> rs[i]["refused"]]
<1>1. rs \in Seq(Round) /\ rs # <<>>
  BY DEF Trial, TrialOK
<1>2. n \in Nat \ {0} /\ 1 \in 1..n /\ \A i \in 1..n : rs[i] \in Round
  BY <1>1, EmptySeq, LenProperties, ElementOfSeq
<1>3. \A i \in 1..n : rs[i].refused = 0
  <2>1. c \in Seq(Nat) /\ Len(c) = n /\ \A i \in 1..n : c[i] = rs[i]["refused"]
    BY <1>1, CountSeq DEF CountFields
  <2>2. Total(c) = 0
    BY RefusedOfTrial DEF CountIn
  <2> HIDE DEF c, n
  <2>3. \A i \in 1..n : c[i] <= 0 /\ c[i] \in Nat
    <3>1. \A i \in 1..n : c[i] <= Total(c)
      BY <1>2, <2>1, PartOfTotal
    <3>2. \A i \in 1..n : c[i] \in Nat
      BY <2>1, ElementOfSeq
    <3> QED BY <2>2, <3>1, <3>2
  <2> QED BY <2>1, <2>3
<1>4. ASSUME FirstRoundFailed(t) PROVE t.rounds[1].unanswered = RoundSize(t.arm, Attempts)
  <2>1. ~ rs[1].answered
    BY <1>4 DEF FirstRoundFailed
  <2>2. rs[1].opened = rs[1].unanswered
    BY <1>2, <2>1 DEF TrialOK
  <2>3. rs[1].opened + rs[1].refused = RoundSize(t.arm, Attempts)
    BY DEF TrialOK, Attempted
  <2>4. rs[1].refused = 0 /\ rs[1].opened \in Nat
    BY <1>2, <1>3 DEF Round
  <2> QED BY <2>2, <2>3, <2>4
<1>5. ASSUME ~ t.answered PROVE UnansweredIn(t) = Attempts
  <2>1. AttemptedIn(rs) = Attempts
    BY <1>5 DEF TrialOK
  <2>2. \A i \in 1..n : rs[i].opened = rs[i].unanswered
    BY <1>5 DEF TrialOK
  <2>3. UnansweredIn(t) = OpenedIn(t)
    <3>1. DOMAIN rs = 1..n
      BY <1>1, LenProperties
    <3>2. [i \in DOMAIN rs |-> rs[i].opened] = [i \in DOMAIN rs |-> rs[i].unanswered]
      BY <2>2, <3>1
    <3> QED BY <3>2 DEF UnansweredIn, OpenedIn
  <2>4. AttemptedIn(rs) = OpenedIn(t) + 0 /\ OpenedIn(t) \in Nat
    <3>1. AttemptedIn(rs) = OpenedIn(t) + RefusedIn(t)
      BY RefusedOfTrial
    <3> QED BY <3>1, TrialAddsUp
  <2> QED BY <2>1, <2>3, <2>4
<1> QED BY <1>4, <1>5

\* A report the bench does not mark INVALID says nothing of the local client: every failure in it is a
\* stream that was opened and left its probe unanswered (main's report in bench.rs).
THEOREM UnmarkedIsTheTransport == Spec => []UnmarkedReportIsTheTransport
<1>1. BenchInv => UnmarkedReportIsTheTransport
  <2> SUFFICES ASSUME BenchInv, ~ Invalid, NEW j \in DOMAIN trials
               PROVE  /\ FirstRoundFailed(trials[j]) =>
                             trials[j].rounds[1].unanswered = RoundSize(trials[j].arm, Attempts)
                      /\ ~ trials[j].answered => UnansweredIn(trials[j]) = Attempts
    BY DEF UnmarkedReportIsTheTransport
  <2> DEFINE n == Len(trials)
             c == [i \in 1..n |-> RefusedIn(trials[i])]
  <2>1. n \in Nat /\ DOMAIN trials = 1..n /\ \A i \in 1..n : trials[i] \in Trial /\ TrialOK(trials[i])
    BY LenProperties, ElementOfSeq DEF BenchInv, TrialsOK
  <2>2. Sum(DOMAIN trials, RefusedIn) = Total(c)
    <3>1. [i \in DOMAIN trials |-> IF i \in DOMAIN trials THEN RefusedIn(trials[i]) ELSE 0] = c
      BY <2>1
    <3> HIDE DEF c
    <3> QED BY <3>1 DEF Sum
  <2> HIDE DEF n
  <2>3. \A i \in 1..n : RefusedIn(trials[i]) \in Nat
    BY <2>1, RefusedOfTrial
  <2>4. c \in Seq(Nat) /\ Len(c) = n
    BY <2>1, <2>3, NatSeq
  <2>5. c[j] = RefusedIn(trials[j]) /\ j \in 1..n
    BY <2>1
  <2>6. RefusedIn(trials[j]) = 0
    <3> HIDE DEF c
    <3>1. Total(c) \in Nat /\ c[j] <= Total(c) /\ ~ (Total(c) > 0) /\ c[j] \in Nat
      BY <2>1, <2>2, <2>3, <2>4, <2>5, PartOfTotal DEF Invalid
    <3> QED BY <2>5, <3>1
  <2> QED BY <2>1, <2>5, <2>6, TransportAlone
<1> QED BY <1>1, BenchInvariance, PTL

=============================================================================
