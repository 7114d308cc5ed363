-------------------------------- MODULE Bench --------------------------------
(***************************************************************************)
(* The bench (src/src/bin/bench.rs): one dial at a time against a running  *)
(* listening half, its configurations taken in turn, and a report of how   *)
(* often a first round and how often a whole dial failed.  It calls the    *)
(* same `dial` the client half does, module Dial, and drops every stream   *)
(* it is given.  Times, and what the report says of them, are left out.    *)
(***************************************************************************)
EXTENDS Dial, FiniteSets

CONSTANTS
    Trials,             \* --trials
    Attempts,           \* --attempts
    RoundSizes,         \* --concurrency, every size once
    RefusalStreakLimit  \* REFUSAL_STREAK_LIMIT

(* `dial` is called to mark time and to measure, never both at once. *)
ASSUME BenchAssumption ==
    /\ Dials = {"warm_up", "trial"}
    /\ Trials \in Nat /\ Attempts \in 1..MaxAttempts
    /\ RoundSizes # {} /\ RoundSizes \subseteq 1..MaxAttempts
    /\ RefusalStreakLimit \in Nat \ {0}

VARIABLES
    gap,                \* whether quiet gaps are under test: --gap-secs
    at,                 \* where `main` is
    number,             \* the trial under way
    trials,             \* the trials measured, in order
    refusing_streak,    \* trials in a row that opened nothing
    barren              \* history: the trials the SDK registered no stream for

bench == <<gap, at, number, trials, refusing_streak, barren>>

vars == <<dialVars, bench>>

-----------------------------------------------------------------------------
(* The configurations under test, and what a trial says of one. *)

\* An arm is a round size; with gaps under test each is tried after the same gap.
arms == SetToSeq(RoundSizes)

InTurn(n) == arms[1 + ((n - 1) % Len(arms))]

\* Trial::opened, refused_opens, unanswered, cancelled and first_round_failed.
OpenedIn(t) == Total([i \in DOMAIN t.rounds |-> t.rounds[i].opened])

\* A mutant: only the first round is asked for its refusals.
RefusedAtFirst(t) == t.rounds[1].refused

RefusedIn(t) == AttemptedIn(t.rounds) - OpenedIn(t)

UnansweredIn(t) == Total([i \in DOMAIN t.rounds |-> t.rounds[i].unanswered])

CancelledIn(t) == Total([i \in DOMAIN t.rounds |-> Cancelled(t.rounds[i])])

FirstRoundFailed(t) == t.rounds # <<>> /\ ~ t.rounds[1].answered

-----------------------------------------------------------------------------
Init ==
    /\ DialInit
    /\ gap \in BOOLEAN
    /\ at = "next"
    /\ number = 1
    /\ trials = <<>>
    /\ refusing_streak = 0
    /\ barren = {}

With(size) == [probe |-> TRUE, attempts |-> Attempts, concurrency |-> size]

(* The loop's next pass: with a gap to leave, its beginning is marked by a  *)
(* stream that is opened, announced and let go.                             *)
Mark ==
    /\ at = "next" /\ gap
    /\ number <= Trials
    /\ at' = "warming"
    /\ Begin("warm_up", Unprobed)
    /\ UNCHANGED <<gap, number, trials, refusing_streak, barren>>

Marked ==
    /\ at = "warming"
    /\ \/ Release("warm_up")
       \/ pc["warm_up"] = "gave_up" /\ UNCHANGED dialVars
    /\ at' = "quiet"
    /\ UNCHANGED <<gap, number, trials, refusing_streak, barren>>

(* The trial's own dial. *)
Measure ==
    /\ \/ at = "next" /\ ~ gap /\ number <= Trials
       \/ at = "quiet"
    /\ at' = "measuring"
    /\ Begin("trial", With(InTurn(number)))
    /\ UNCHANGED <<gap, number, trials, refusing_streak, barren>>

GetOn == \E d \in Dials : DialStep(d) /\ UNCHANGED bench

\* A mutant: one refused open is enough to count against the client.
StreakOfAnyRefusal(t) == IF RefusedIn(t) > 0 THEN refusing_streak + 1 ELSE 0

StreakAfter(t) == IF OpenedIn(t) = 0 THEN refusing_streak + 1 ELSE 0

(* The trial is over: its stream is dropped, and a client that has stopped  *)
(* opening streams ends the run.                                            *)
EndTrial ==
    LET t == [arm |-> InTurn(number), rounds |-> rounds["trial"],
              answered |-> pc["trial"] = "returned"]
    IN /\ at = "measuring"
       /\ \/ Release("trial")
          \/ pc["trial"] = "gave_up" /\ UNCHANGED dialVars
       /\ refusing_streak' = StreakAfter(t)
       /\ trials' = Append(trials, t)
       /\ barren' = barren \cup IF \A s \in existed : s[1] # "trial" THEN {number} ELSE {}
       /\ at' = IF refusing_streak' >= RefusalStreakLimit THEN "stopped" ELSE "next"
       /\ number' = number + 1
       /\ UNCHANGED gap

(* The report is printed. *)
Report ==
    /\ \/ at = "stopped"
       \/ at = "next" /\ number > Trials
    /\ at' = "reported"
    /\ UNCHANGED <<dialVars, gap, number, trials, refusing_streak, barren>>

Next == Mark \/ Marked \/ Measure \/ GetOn \/ EndTrial \/ Report

Spec == Init /\ [][Next]_vars

-----------------------------------------------------------------------------
(* The report. *)

Group(arm) == {i \in DOMAIN trials : trials[i].arm = arm}

Sum(group, Of(_)) ==
    Total([i \in DOMAIN trials |-> IF i \in group THEN Of(trials[i]) ELSE 0])

\* "INVALID: n opens were refused by the local client."
Invalid == Sum(DOMAIN trials, RefusedIn) > 0

FirstRoundFailures(group) == Cardinality({i \in group : FirstRoundFailed(trials[i])})

VisibleFailures(group) == Cardinality({i \in group : ~ trials[i].answered})

\* A mutant: the round before is the one looked at.
ReachedPast(group, n) == {i \in group : Len(trials[i].rounds) > n}

\* conditional_rates: the trials that reached round n, and those of them whose round n failed.
Reached(group, n) == {i \in group : Len(trials[i].rounds) >= n}

Failed(group, n) ==
    {i \in group : n \in DOMAIN trials[i].rounds /\ ~ trials[i].rounds[n].answered}

-----------------------------------------------------------------------------
(* Properties *)

\* A report not marked invalid is about the transport alone: a first round failed when every stream it
\* opened left its probe unanswered, and a trial failed when all its attempts did.
UnmarkedReportIsTheTransport ==
    ~ Invalid => \A i \in DOMAIN trials :
        LET t == trials[i] IN
        /\ FirstRoundFailed(t) => t.rounds[1].unanswered = RoundSize(t.arm, Attempts)
        /\ ~ t.answered => UnansweredIn(t) = Attempts

\* The column of conditional rates means what it says: within an arm every round but the last is
\* followed by another exactly when it failed, so its rates multiply from the first-round rate to the
\* wallet-visible one.
ConditionalRatesMultiply ==
    \A arm \in RoundSizes :
        LET group == Group(arm)
            deepest == (Attempts + arm - 1) \div arm
        IN /\ Reached(group, 1) = group
           /\ \A n \in 1..deepest - 1 : Reached(group, n + 1) = Failed(group, n)
           /\ Cardinality(Failed(group, 1)) = FirstRoundFailures(group)
           /\ Cardinality(Failed(group, deepest)) = VisibleFailures(group)

\* The streams of an arm are all explained: what it opened is what answered, what was left unanswered
\* and what was cancelled once another answered, refused opens being none of them.
StreamsOfAnArmAddUp ==
    \A arm \in RoundSizes :
        LET group == Group(arm) IN
        Sum(group, OpenedIn) =
            Cardinality(group) - VisibleFailures(group)
                + Sum(group, UnansweredIn) + Sum(group, CancelledIn)

\* For the n trials up to i the local client never registered a stream.
NothingRegistered(i, n) ==
    i >= n /\ i - n + 1..i \subseteq barren

\* A run is cut short only for a local client that has stopped opening streams, and always for one:
\* nothing is measured after such a streak, whichever arms and warm-ups it spans.
StoppedExactlyForADeadClient ==
    /\ at \in {"stopped", "reported"} /\ Len(trials) < Trials =>
           NothingRegistered(Len(trials), RefusalStreakLimit)
    /\ \A i \in DOMAIN trials :
           NothingRegistered(i, RefusalStreakLimit) =>
               i = Len(trials) /\ at \in {"stopped", "reported"}

=============================================================================
