---------------------------- MODULE StreaksProofs ---------------------------
(***************************************************************************)
(* What the streak lock buys, for any number of tasks and dials and every  *)
(* limit: the published report moves as if dials were folded one at a      *)
(* time, and the process gives itself up exactly for a dead local client.  *)
(***************************************************************************)
EXTENDS Streaks, TLAPS

-----------------------------------------------------------------------------
(* The inductive invariant. *)

\* What has been published so far of the counts behind the lock.
Published ==
    /\ lock = Nobody \/ (lock # Nobody /\ step[lock] \in {"flag", "notify"}) => gauge = dead_ends
    /\ lock = Nobody \/ (lock # Nobody /\ step[lock] = "notify") =>
           degraded = (dead_ends >= DeadEndLimit)

\* The counts are what was last settled, with one outcome folded in while somebody is folding.
Unsettled ==
    /\ settled.dead = (permit \/ main = "exiting")
    /\ lock = Nobody => settled.failed = dead_ends /\ settled.refused = refusals
    /\ lock # Nobody => \E o \in Outcomes :
           /\ refusals = IF o = "NothingOpened" THEN settled.refused + 1 ELSE 0
           /\ dead_ends = CASE o \in DeadEnds -> settled.failed + 1
                            [] o = "Answered" -> 0
                            [] o = "Unprobed" -> settled.failed

\* The refusal count is the length of the refused run the log ends with, and of no longer one.
CountedRun ==
    /\ RefusedRun(Len(log), refusals)
    /\ refusals < Len(log) => log[Len(log) - refusals] # "NothingOpened"

\* Every long run in the log has been told to the main loop, save one that is just being folded.
LongRunsAreTold ==
    \A i \in Folds :
        RefusedRun(i, RefusalLimit) =>
            \/ permit \/ main = "exiting"
            \/ lock # Nobody /\ refusals >= RefusalLimit

IInv ==
    /\ Types
    /\ LockInv
    /\ Published
    /\ Unsettled
    /\ CountedRun
    /\ LongRunsAreTold
    /\ ExitIsEarned

-----------------------------------------------------------------------------
(* Each action preserves the invariant. *)

LEMMA InitEstablishes == Init => IInv
<1> SUFFICES ASSUME Init PROVE IInv
  OBVIOUS
<1>1. Types
  <2>1. log \in Seq(Outcomes)
    BY DEF Init
  <2>2. settled \in [failed : Nat, refused : Nat, degraded : BOOLEAN, dead : BOOLEAN]
    BY DEF Init
  <2>3. degraded \in BOOLEAN /\ permit \in BOOLEAN
    BY DEF Init
  <2> QED BY <2>1, <2>2, <2>3 DEF Init, Types
<1>2. LockInv /\ Published
  <2>1. (0 >= DeadEndLimit) = FALSE
    BY StreakAssumption
  <2>2. degraded = (dead_ends >= DeadEndLimit)
    BY <2>1, Zenon DEF Init
  <2> QED BY <2>2 DEF Init, LockInv, Published
<1>3. Unsettled
  BY DEF Init, Unsettled
<1>4. CountedRun /\ LongRunsAreTold /\ ExitIsEarned
  BY DEF Init, CountedRun, RefusedRun, LongRunsAreTold, ExitIsEarned, Folds
<1> QED BY <1>1, <1>2, <1>3, <1>4 DEF IInv

\* Appending an outcome to the log leaves the runs inside it as they are.
LEMMA OlderRuns ==
    ASSUME log \in Seq(Outcomes), NEW o \in Outcomes, log' = Append(log, o),
           NEW i \in Folds, NEW n \in Nat
    PROVE  RefusedRun(i, n)' <=> RefusedRun(i, n)
<1>1. Len(log') = Len(log) + 1 /\ DOMAIN log' = 1..(Len(log) + 1) /\ DOMAIN log = 1..Len(log)
  OBVIOUS
<1>2. \A j \in 1..Len(log) : log'[j] = log[j]
  OBVIOUS
<1>3. \A j \in 1..n : (i - j + 1 \in DOMAIN log') <=> (i - j + 1 \in DOMAIN log)
  BY <1>1 DEF Folds
<1> QED BY <1>1, <1>2, <1>3 DEF RefusedRun, Folds

LEMMA CountPreserves ==
    ASSUME IInv, NEW t \in Tasks, NEW o \in Outcomes, Count(t, o)
    PROVE  IInv'
<1> USE StreakAssumption, TaskAssumption DEF IInv
<1>1. /\ lock = Nobody /\ lock' = t /\ log' = Append(log, o)
      /\ refusals' = RefusalsAfter(o) /\ dead_ends' = DeadEndsAfter(o)
      /\ step' = [step EXCEPT ![t] = "gauge"]
      /\ UNCHANGED <<gauge, degraded, permit, main, settled>>
  BY DEF Count, LockFree
<1>2. Types'
  BY <1>1 DEF Types, RefusalsAfter, DeadEndsAfter, Outcomes, DeadEnds
<1>3. LockInv' /\ Published'
  BY <1>1 DEF Types, LockInv, Published
<1>4. Unsettled'
  BY <1>1 DEF Unsettled, RefusalsAfter, DeadEndsAfter
<1>5. /\ Len(log') = Len(log) + 1 /\ Len(log) \in Nat
      /\ \A j \in 1..Len(log) : log'[j] = log[j]
      /\ log'[Len(log) + 1] = o
      /\ DOMAIN log = 1..Len(log) /\ DOMAIN log' = 1..(Len(log) + 1)
  BY <1>1 DEF Types
<1>6. CountedRun'
  <2>1. CASE o = "NothingOpened"
    <3>1. refusals' = refusals + 1 /\ refusals \in Nat
      BY <1>1, <2>1 DEF RefusalsAfter, Types
    <3>2. ASSUME NEW j \in 1..(refusals + 1)
          PROVE  /\ Len(log) + 1 - j + 1 \in DOMAIN log'
                 /\ log'[Len(log) + 1 - j + 1] = "NothingOpened"
      <4>1. CASE j = 1
        BY <1>5, <2>1, <4>1
      <4>2. CASE j # 1
        <5>1. j - 1 \in 1..refusals /\ Len(log) - (j - 1) + 1 = Len(log) + 1 - j + 1
          BY <1>5, <3>1, <4>2
        <5>2. Len(log) - (j - 1) + 1 \in 1..Len(log)
              /\ log[Len(log) - (j - 1) + 1] = "NothingOpened"
          BY <1>5, <5>1 DEF CountedRun, RefusedRun, Folds
        <5> QED BY <1>5, <5>1, <5>2
      <4> QED BY <4>1, <4>2
    <3>3. RefusedRun(Len(log), refusals)'
      BY <1>5, <3>1, <3>2 DEF RefusedRun, Folds
    <3>4. refusals' < Len(log') => log'[Len(log') - refusals'] # "NothingOpened"
      BY <1>5, <3>1 DEF CountedRun
    <3> QED BY <3>3, <3>4 DEF CountedRun
  <2>2. CASE o # "NothingOpened"
    <3>1. refusals' = 0
      BY <1>1, <2>2 DEF RefusalsAfter
    <3> QED BY <1>5, <2>2, <3>1 DEF CountedRun, RefusedRun
  <2> QED BY <2>1, <2>2
<1>7. LongRunsAreTold'
  <2> SUFFICES ASSUME NEW i \in DOMAIN log', RefusedRun(i, RefusalLimit)'
               PROVE  \/ permit \/ main = "exiting"
                      \/ refusals' >= RefusalLimit
    BY <1>1 DEF LongRunsAreTold, Folds, Types
  <2>1. CASE i \in Folds
    <3>1. RefusedRun(i, RefusalLimit)
      BY <1>1, <2>1, OlderRuns DEF Types
    <3> QED BY <1>1, <2>1, <3>1 DEF LongRunsAreTold
  <2>2. CASE i \notin Folds
    <3>1. i = Len(log) + 1
      BY <1>5, <2>2 DEF Folds
    <3>2. \A j \in 1..RefusalLimit :
             i - j + 1 \in DOMAIN log' /\ log'[i - j + 1] = "NothingOpened"
      BY DEF RefusedRun, Folds
    <3>3. o = "NothingOpened"
      <4>1. 1 \in 1..RefusalLimit /\ i - 1 + 1 = i
        BY <1>5, <3>1
      <4> QED BY <1>5, <3>1, <3>2, <4>1
    <3>4. refusals' = refusals + 1 /\ refusals \in Nat
      BY <1>1, <3>3 DEF RefusalsAfter, Types
    <3>5. ASSUME refusals + 1 < RefusalLimit PROVE FALSE
      <4>1. refusals + 2 \in 1..RefusalLimit /\ i - (refusals + 2) + 1 = Len(log) - refusals
        BY <1>5, <3>1, <3>4, <3>5
      <4>2. Len(log) - refusals \in DOMAIN log' /\ log'[Len(log) - refusals] = "NothingOpened"
        BY <3>2, <4>1
      <4>3. Len(log) - refusals \in 1..Len(log) /\ refusals < Len(log)
        BY <1>5, <3>4, <4>2
      <4> QED BY <1>5, <4>2, <4>3 DEF CountedRun
    <3> QED BY <3>4, <3>5
  <2> QED BY <2>1, <2>2
<1>8. ExitIsEarned'
  <2> SUFFICES ASSUME permit \/ main = "exiting"
               PROVE  \E i \in DOMAIN log' : RefusedRun(i, RefusalLimit)'
    BY <1>1 DEF ExitIsEarned, Folds
  <2>1. PICK i \in Folds : RefusedRun(i, RefusalLimit)
    BY DEF ExitIsEarned
  <2>2. RefusedRun(i, RefusalLimit)'
    BY <1>1, <2>1, OlderRuns DEF Types
  <2> QED BY <1>5, <2>1, <2>2 DEF Folds
<1> QED BY <1>2, <1>3, <1>4, <1>6, <1>7, <1>8

LEMMA SetGaugePreserves ==
    ASSUME IInv, NEW t \in Tasks, SetGauge(t)
    PROVE  IInv'
<1> USE StreakAssumption, TaskAssumption DEF IInv
<1>1. /\ step[t] = "gauge" /\ lock = t /\ gauge' = dead_ends
      /\ step' = [step EXCEPT ![t] = "flag"]
      /\ UNCHANGED <<lock, refusals, dead_ends, degraded, permit, main, log, settled>>
  BY DEF SetGauge, LockInv
<1>2. Types'
  BY <1>1 DEF Types
<1>3. LockInv' /\ Published'
  BY <1>1 DEF Types, LockInv, Published
<1>4. Unsettled' /\ CountedRun' /\ LongRunsAreTold' /\ ExitIsEarned'
  BY <1>1 DEF Unsettled, CountedRun, LongRunsAreTold, ExitIsEarned, RefusedRun, Folds
<1> QED BY <1>2, <1>3, <1>4

LEMMA SetFlagPreserves ==
    ASSUME IInv, NEW t \in Tasks, SetFlag(t)
    PROVE  IInv'
<1> USE StreakAssumption, TaskAssumption DEF IInv
<1>1. /\ step[t] = "flag" /\ lock = t /\ degraded' = (dead_ends >= DeadEndLimit)
      /\ step' = [step EXCEPT ![t] = "notify"]
      /\ UNCHANGED <<lock, refusals, dead_ends, gauge, permit, main, log, settled>>
  BY DEF SetFlag, LockInv, Degraded
<1>2. Types'
  <2>1. degraded' \in BOOLEAN
    BY <1>1
  <2> QED BY <1>1, <2>1 DEF Types
<1>3. LockInv'
  BY <1>1 DEF Types, LockInv
<1>4. Published'
  <2>1. gauge = dead_ends
    BY <1>1 DEF Published
  <2> QED BY <1>1, <2>1 DEF Published
<1>5. Unsettled' /\ CountedRun' /\ LongRunsAreTold' /\ ExitIsEarned'
  BY <1>1 DEF Unsettled, CountedRun, LongRunsAreTold, ExitIsEarned, RefusedRun, Folds
<1> QED BY <1>2, <1>3, <1>4, <1>5

LEMMA NotifyPreserves ==
    ASSUME IInv, NEW t \in Tasks, Notify(t)
    PROVE  IInv'
<1> USE StreakAssumption, TaskAssumption DEF IInv
<1>1. /\ step[t] = "notify" /\ lock = t /\ lock' = Nobody
      /\ permit' = (permit \/ refusals >= RefusalLimit)
      /\ step' = [step EXCEPT ![t] = "idle"]
      /\ settled' = [failed |-> gauge, refused |-> refusals, degraded |-> degraded,
                     dead |-> permit' \/ main = "exiting"]
      /\ UNCHANGED <<refusals, dead_ends, gauge, degraded, main, log>>
  BY DEF Notify, LockInv, ClientIsDead
<1>2. gauge = dead_ends /\ degraded = (dead_ends >= DeadEndLimit)
  BY <1>1 DEF Published
<1>3. Types'
  <2>1. permit' \in BOOLEAN /\ settled' \in [failed : Nat, refused : Nat, degraded : BOOLEAN,
                                            dead : BOOLEAN]
    BY <1>1 DEF Types
  <2> QED BY <1>1, <2>1 DEF Types
<1>4. LockInv'
  BY <1>1 DEF Types, LockInv
<1>5. Published'
  BY <1>1, <1>2 DEF Published
<1>6. Unsettled'
  BY <1>1, <1>2 DEF Unsettled
<1>7. CountedRun'
  BY <1>1 DEF CountedRun, RefusedRun, Folds
<1>8. LongRunsAreTold'
  BY <1>1 DEF LongRunsAreTold, RefusedRun, Folds
<1>9. ExitIsEarned'
  <2>1. CASE refusals >= RefusalLimit
    <3>1. refusals \in Nat /\ RefusedRun(Len(log), refusals) /\ Len(log) \in Nat
      BY DEF Types, CountedRun
    <3>2. RefusedRun(Len(log), RefusalLimit)
      BY <2>1, <3>1 DEF RefusedRun
    <3>3. Len(log) \in Folds
      <4>1. 1 \in 1..RefusalLimit /\ Len(log) - 1 + 1 = Len(log)
        BY <3>1
      <4> QED BY <3>2, <4>1 DEF RefusedRun
    <3> QED BY <1>1, <3>2, <3>3 DEF ExitIsEarned, RefusedRun, Folds
  <2>2. CASE ~ (refusals >= RefusalLimit)
    BY <1>1, <2>2 DEF ExitIsEarned, RefusedRun, Folds
  <2> QED BY <2>1, <2>2
<1> QED BY <1>3, <1>4, <1>5, <1>6, <1>7, <1>8, <1>9

LEMMA ExitPreserves ==
    ASSUME IInv, Exit
    PROVE  IInv'
<1> USE DEF IInv
<1>1. /\ permit /\ permit' = FALSE /\ main' = "exiting"
      /\ UNCHANGED <<lock, step, refusals, dead_ends, gauge, degraded, log, settled>>
  BY DEF Exit
<1>2. Types' /\ LockInv' /\ Published'
  BY <1>1 DEF Types, LockInv, Published
<1>3. Unsettled' /\ CountedRun' /\ LongRunsAreTold' /\ ExitIsEarned'
  BY <1>1 DEF Unsettled, CountedRun, LongRunsAreTold, ExitIsEarned, RefusedRun, Folds
<1> QED BY <1>2, <1>3

-----------------------------------------------------------------------------
(* The theorems. *)

LEMMA StepPreserves == IInv /\ [Next]_vars => IInv'
<1> SUFFICES ASSUME IInv, [Next]_vars PROVE IInv'
  OBVIOUS
<1>1. CASE \E t \in Tasks, o \in Outcomes : Count(t, o)
  BY <1>1, CountPreserves
<1>2. CASE \E t \in Tasks : SetGauge(t)
  BY <1>2, SetGaugePreserves
<1>3. CASE \E t \in Tasks : SetFlag(t)
  BY <1>3, SetFlagPreserves
<1>4. CASE \E t \in Tasks : Notify(t)
  BY <1>4, NotifyPreserves
<1>5. CASE Exit
  BY <1>5, ExitPreserves
<1>6. CASE UNCHANGED vars
  <2>1. Types' /\ LockInv' /\ Published'
    BY <1>6 DEF vars, IInv, Types, LockInv, Published
  <2>2. Unsettled'
    BY <1>6 DEF vars, IInv, Unsettled
  <2>3. CountedRun' /\ LongRunsAreTold' /\ ExitIsEarned'
    BY <1>6 DEF vars, IInv, CountedRun, LongRunsAreTold, ExitIsEarned, RefusedRun, Folds
  <2> QED BY <2>1, <2>2, <2>3 DEF IInv
<1> QED BY <1>1, <1>2, <1>3, <1>4, <1>5, <1>6 DEF Next, Publish

LEMMA Invariance == Spec => []IInv
<1>1. Init => IInv
  BY InitEstablishes
<1>2. IInv /\ [Next]_vars => IInv'
  BY StepPreserves
<1> QED BY <1>1, <1>2, PTL DEF Spec

\* The types of the counts and of what they are published through, and that one task at a time folds.
THEOREM TypeCorrect == Spec => []TypeOK
<1>1. IInv => TypeOK
  BY DEF IInv, TypeOK
<1> QED BY <1>1, Invariance, PTL

\* Every fold leaves the streak, the gauge and the health flag describing the same moment.
THEOREM FoldsLeaveThemAgreeing == Spec => []EveryFoldLeavesThemAgreeing
<1>1. IInv => EveryFoldLeavesThemAgreeing
  <2> SUFFICES ASSUME IInv, lock = Nobody
               PROVE  gauge = dead_ends /\ degraded = (gauge >= DeadEndLimit)
    BY DEF EveryFoldLeavesThemAgreeing
  <2>1. gauge = dead_ends /\ degraded = (dead_ends >= DeadEndLimit)
    BY DEF IInv, Published
  <2> QED BY <2>1
<1> QED BY <1>1, Invariance, PTL

\* The process gives itself up only after RefusalLimit dials in a row opened nothing.
THEOREM ExitOnlyForADeadClient == Spec => []ExitIsEarned
<1>1. IInv => ExitIsEarned
  BY DEF IInv
<1> QED BY <1>1, Invariance, PTL

\* Once RefusalLimit dials in a row opened nothing, the main loop has been told.
THEOREM EveryDeadClientIsReported == Spec => []DeadClientIsReported
<1>1. IInv => DeadClientIsReported
  BY DEF IInv, LongRunsAreTold, DeadClientIsReported
<1> QED BY <1>1, Invariance, PTL

LEMMA InitIsAtomic == Init => Atomic!Init
BY DEF Init, Atomic!Init

\* The step that releases the lock is a fold of the abstract report; no other step changes it.
LEMMA StepIsAtomic == IInv /\ [Next]_vars => [Atomic!Next]_(Atomic!report)
<1> SUFFICES ASSUME IInv, [Next]_vars, settled' # settled
             PROVE  Atomic!Next
  BY DEF Atomic!report
<1>1. PICK t \in Tasks : Notify(t)
  BY DEF Next, vars, Publish, Count, SetGauge, SetFlag, Exit
<1>2. /\ lock = t /\ lock # Nobody /\ step[lock] = "notify"
      /\ settled' = [failed |-> gauge, refused |-> refusals, degraded |-> degraded,
                     dead |-> permit' \/ main = "exiting"]
      /\ permit' = (permit \/ refusals >= RefusalLimit)
  BY <1>1, TaskAssumption DEF Notify, IInv, LockInv, ClientIsDead
<1>3. gauge = dead_ends /\ degraded = (dead_ends >= DeadEndLimit)
  BY <1>2 DEF IInv, Published
<1>4. PICK o \in Outcomes :
        /\ refusals = IF o = "NothingOpened" THEN settled.refused + 1 ELSE 0
        /\ dead_ends = CASE o \in DeadEnds -> settled.failed + 1
                         [] o = "Answered" -> 0
                         [] o = "Unprobed" -> settled.failed
  BY <1>2 DEF IInv, Unsettled
<1>5. settled'.failed = dead_ends /\ settled'.refused = refusals
  BY <1>2, <1>3
<1>6. settled'.degraded = (settled'.failed >= DeadEndLimit)
  BY <1>2, <1>3, <1>5
<1>7. settled'.dead = (settled.dead \/ settled'.refused >= RefusalLimit)
  <2>1. settled.dead = (permit \/ main = "exiting")
    BY DEF IInv, Unsettled
  <2>2. settled'.dead = (permit' \/ main = "exiting")
    BY <1>2
  <2> QED BY <1>2, <1>5, <2>1, <2>2
<1>8. Atomic!Fold(o)
  BY <1>4, <1>5, <1>6, <1>7 DEF Atomic!Fold, Atomic!DeadEnds, DeadEnds
<1> QED BY <1>8 DEF Atomic!Next, Atomic!Outcomes, Outcomes

\* Concurrent folds implement the abstract report, in which dials are folded one at a time.
THEOREM FoldsRefineTheReport == Spec => FoldsAreAtomic
<1>1. Init => Atomic!Init
  BY InitIsAtomic
<1>2. IInv /\ [Next]_vars => [Atomic!Next]_(Atomic!report)
  BY StepIsAtomic
<1> QED BY <1>1, <1>2, Invariance, PTL DEF Spec, Atomic!Spec, FoldsAreAtomic

=============================================================================
