------------------------------- MODULE Splice -------------------------------
(***************************************************************************)
(* One spliced connection and its watchdog (src/src/splice.rs).            *)
(*                                                                         *)
(* `splice` is one task: a `select!` over two pumps and a ticker.  A pump  *)
(* reads a chunk, writes and flushes it, and only then records when its    *)
(* direction moved; the ticker evaluates the watchdog every check period.  *)
(* The three never run at the same instant, but everything can happen      *)
(* between a read and its record, and between two ticks.                   *)
(*                                                                         *)
(* An Option of the code is a set with at most one element: None is {},    *)
(* Some(t) is {t}.  Times are whole milliseconds since the splice began,   *)
(* which is the granularity of the code's own stamps.                      *)
(***************************************************************************)
EXTENDS Integers

CONSTANTS
    Stall,          \* Watchdog.stall, an option
    Idle,           \* Watchdog.idle, an option
    Floor,          \* FLOOR of check_period
    Ceiling,        \* CEILING of check_period
    IdlePeriod,     \* IDLE_PERIOD of check_period
    Late,           \* how late the runtime may deliver a tick
    MaxTime         \* bound: the clock of the model stops here

IsOption(S, T) == S \subseteq T /\ \A a, b \in S : a = b

Positive == Nat \ {0}

ASSUME DeadlineAssumption == IsOption(Stall, Positive) /\ IsOption(Idle, Positive)

ASSUME PeriodAssumption ==
    Floor \in Positive /\ Ceiling \in Positive /\ IdlePeriod \in Positive

ASSUME TimeAssumption == Late \in Nat /\ MaxTime \in Nat

Directions == {"to_remote", "from_remote"}

Running == "running"
Outcomes == {"closed", "stalled", "idle", "failed"}

VARIABLES
    now,        \* Instant::now() - started
    pump,       \* pump[d]: awaiting a read, or awaiting the write of a chunk it read
    last,       \* last[d]: Direction::moved_at, None until the direction moved
    clock,      \* StallClock::since_millis
    due,        \* when the ticker fires next
    ended,      \* the Ended the splice returned, or Running
    owed,       \* history: the first write recorded since the last recorded answer
    silent      \* history: the first write recorded since the far side last delivered

vars == <<now, pump, last, clock, due, ended, owed, silent>>

-----------------------------------------------------------------------------
(* The watchdog. *)

Latest(S) == CHOOSE t \in S : \A u \in S : u <= t

Shortest(S) == CHOOSE t \in S : \A u \in S : t <= u

Clamp(n) == IF n < Floor THEN Floor ELSE IF n > Ceiling THEN Ceiling ELSE n

Period ==
    IF Stall \cup Idle = {} THEN IdlePeriod ELSE Clamp(Shortest(Stall \cup Idle) \div 4)

wrote == last["to_remote"]

heard == last["from_remote"]

\* The far side was written to and has said nothing since, in whole milliseconds.
Outstanding == \E w \in wrote : \A h \in heard : h < w

\* Mutants: the clock follows the latest write; answers do not move it; it holds the deadline.
SinceLatestWrite == {Latest(wrote \cup heard)}

SinceFirstWrite == IF clock = {} THEN wrote ELSE clock

UntilDeadline == {t + d : t \in IF clock = {} THEN wrote ELSE clock, d \in Stall}

\* get_or_insert(wrote), then the later of that and the last answer.
UnansweredSince == {Latest((IF clock = {} THEN wrote ELSE clock) \cup heard)}

\* A mutant: an answer does not clear the clock.
ClockNeverCleared == IF Outstanding THEN UnansweredSince ELSE clock

\* The clock after a tick.
ClockAfter == IF Outstanding THEN UnansweredSince ELSE {}

Stalls == \E d \in Stall, t \in ClockAfter : now - t >= d

\* A mutant: a connection nothing has moved on yet is not looked at.
IdlesOnceMoved ==
    \E d \in Idle : wrote \cup heard # {} /\ now - Latest(wrote \cup heard) >= d

\* Nothing having moved at all counts from the beginning of the splice.
Idles == \E d \in Idle : now - Latest({0} \cup wrote \cup heard) >= d

\* A mutant: the idle deadline is looked at first.
IdleFirst == IF Idles THEN "idle" ELSE IF Stalls THEN "stalled" ELSE Running

\* What `tripped` returns.
Verdict == IF Stalls THEN "stalled" ELSE IF Idles THEN "idle" ELSE Running

-----------------------------------------------------------------------------
Init ==
    /\ now = 0
    /\ pump = [d \in Directions |-> "reading"]
    /\ last = [d \in Directions |-> {}]
    /\ clock = {}
    /\ due = Period
    /\ ended = Running
    /\ owed = {}
    /\ silent = {}

(* A pump's read completes with bytes. *)
Read(d) ==
    /\ ended = Running
    /\ pump[d] = "reading"
    /\ pump' = [pump EXCEPT ![d] = "writing"]
    /\ silent' = IF d = "from_remote" THEN {} ELSE silent
    /\ UNCHANGED <<now, last, clock, due, ended, owed>>

FirstWriteSince(run) == IF run = {} THEN {now} ELSE run

(* Its write_all and flush complete, and the direction is stamped. *)
Record(d) ==
    /\ ended = Running
    /\ pump[d] = "writing"
    /\ pump' = [pump EXCEPT ![d] = "reading"]
    /\ last' = [last EXCEPT ![d] = {now}]
    /\ owed' = IF d = "to_remote" THEN FirstWriteSince(owed) ELSE {}
    /\ silent' = IF d = "to_remote" THEN FirstWriteSince(silent) ELSE silent
    /\ UNCHANGED <<now, clock, due, ended>>

(* A pump returns: its reader is at the end of its stream, or a call failed. *)
PumpEnds(d) ==
    /\ ended = Running
    /\ \/ pump[d] = "reading" /\ ended' = "closed"
       \/ ended' = "failed"
    /\ UNCHANGED <<now, pump, last, clock, due, owed, silent>>

(* The ticker fires and the watchdog is evaluated.  tokio's interval keeps *)
(* its schedule: a tick delivered late does not postpone the next one.     *)
Tick ==
    /\ ended = Running
    /\ now >= due
    /\ due' = due + Period
    /\ clock' = ClockAfter
    /\ ended' = Verdict
    /\ UNCHANGED <<now, pump, last, owed, silent>>

(* Time passes, but never so far that a due tick is more than Late behind. *)
Advance ==
    /\ ended = Running
    /\ now < MaxTime
    /\ now < due + Late
    /\ now' = now + 1
    /\ UNCHANGED <<pump, last, clock, due, ended, owed, silent>>

Next ==
    \/ \E d \in Directions : Read(d) \/ Record(d) \/ PumpEnds(d)
    \/ Tick
    \/ Advance

Spec == Init /\ [][Next]_vars

-----------------------------------------------------------------------------
(* Properties *)

Times == 0..MaxTime

\* Every variable stays within its type, and every stamp within the past.
TypeOK ==
    /\ now \in Times
    /\ pump \in [Directions -> {"reading", "writing"}]
    /\ last \in [Directions -> SUBSET (0..now)]
    /\ \A d \in Directions : IsOption(last[d], 0..now)
    /\ IsOption(clock, 0..now)
    /\ due \in Nat
    /\ ended \in Outcomes \cup {Running}
    /\ IsOption(owed, 0..now)
    /\ IsOption(silent, 0..now)

\* An answer buys the far side a whole stall deadline: no splice is closed as stalled within the
\* deadline of the last bytes that reached the wallet, however late the watchdog looked, whatever
\* was written since and wherever the clock was left by an earlier run of writes.
AnswersHoldOffTheStall ==
    ended = "stalled" => \A d \in Stall, h \in heard : now - h >= d

\* A stall is earned: when one is declared a write is owed an answer, and has been for the deadline
\* less at most one check period.  (The clock starts at the answer before the write when both fell
\* between the same two ticks, which is why it is not the whole deadline.)
StallIsEarned ==
    ended = "stalled" =>
        \A d \in Stall : \E w \in owed : now - w >= d - Period - Late

\* Nothing was recorded from the far side since this write.
Unanswered(w) == \A h \in heard : h < w

\* A wallet that keeps talking postpones the discovery by one check period and no more: the clock of
\* an unanswered run starts at the latest write the first tick finds, at most a period after the
\* run's first; from the clock on, further writes change nothing and the splice is gone one period
\* after the deadline; and so it is two periods after the deadline from the first write.  Each bound
\* allows for the runtime's lateness.  (The second period is more than splice.rs:33-34 and 155-156
\* promise: see TalkingPostponesNothing.)
StallIsTimely ==
    ended = Running =>
        \A d \in Stall :
            /\ \A c \in clock : now < c + d + Period + Late
            /\ \A w \in owed : Unanswered(w) =>
                  /\ \A c \in clock : c <= w + Period + Late
                  /\ now < w + d + 2 * Period + 2 * Late

\* The only way to be declared stalled by a far side that did answer is to leave the answer unread:
\* either the far side delivered nothing since the first unanswered write, or what it delivered is
\* still being written to the local side.  (The second is more than splice.rs:45 says of it, "The far
\* side was written to and answered nothing": a wallet slow to read can have its splice closed so.)
StalledMeansSilentOrUnread ==
    ended = "stalled" => silent # {} \/ pump["from_remote"] = "writing"

\* A connection nothing moves on is let go within the idle deadline and one check period, whichever
\* direction moved last and however it is split into writes.
IdleIsTimely ==
    ended = Running =>
        \A d \in Idle : now < Latest({0} \cup wrote \cup heard) + d + Period + Late

\* With both deadlines set, the stall one no longer than the idle one, a request nothing answered is
\* reported as the stall it is and never reaped as an idle connection.
IdleNeverHidesAStall ==
    ended = "idle" =>
        \A d \in Stall, i \in Idle, w \in owed :
            d <= i => \E h \in heard : w <= h

-----------------------------------------------------------------------------
(* What the comments promise and the code does not keep. *)

\* splice.rs:9-13: the far side "was written to and has answered nothing since ... The clock runs
\* from the oldest unanswered write".  Every write recorded since the last recorded answer is
\* noticed in time.  (A write in the same millisecond as the last answer never is.)
EveryUnansweredWriteIsNoticed ==
    ended = Running =>
        \A d \in Stall, w \in owed : now < w + d + 2 * Period + 2 * Late

\* splice.rs:11-13: "The clock runs from the oldest unanswered write, so a wallet that keeps talking
\* into a dead stream ... cannot postpone the discovery", and splice.rs:155: "keeps the overshoot
\* under a quarter" of the deadline.  (The clock starts at the latest write the first tick finds.)
TalkingPostponesNothing ==
    ended = Running =>
        \A d \in Stall, w \in owed :
            Unanswered(w) => 4 * (now - (w + d)) < d

=============================================================================
