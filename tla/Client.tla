-------------------------------- MODULE Client -------------------------------
(***************************************************************************)
(* The dialling half once it serves (`main` and `carry` of                 *)
(* src/src/bin/client.rs): every wallet connection is a task that dials,   *)
(* reports what the dial cost and how it ended (ClientMetrics of           *)
(* src/src/metrics.rs, `fold` of src/src/streaks.rs, here one step as      *)
(* module Streaks shows it to be), is spliced to the stream it was given,  *)
(* and reports the end.  A shutdown lets connections finish for a grace    *)
(* and aborts the rest.                                                    *)
(*                                                                         *)
(* Tasks run on any thread and the counters are atomics nobody locks, so   *)
(* the writes of one connection have those of others, and a scrape,        *)
(* between them: each is a step of its own, but for the loop that adds a   *)
(* dial's rounds up.  What the splice does is module Splice; here it ends. *)
(***************************************************************************)
EXTENDS Dial

CONSTANTS
    Attempts,       \* --probe-attempts
    Concurrency,    \* --probe-concurrency
    RefusalLimit,   \* REFUSAL_LIMIT
    DeadEndLimit    \* DEAD_END_LIMIT

ASSUME ClientAssumption ==
    /\ Attempts \in 1..MaxAttempts /\ Concurrency \in 1..MaxAttempts
    /\ RefusalLimit \in Nat \ {0} /\ DeadEndLimit \in Nat \ {0}

VARIABLES
    no_probe,           \* --no-probe, fixed at startup
    stage,              \* stage[d]: where the connection is in `carry`, or outside it
    main,               \* the main loop: accepting, letting connections finish, or aborting those left
    metrics,            \* the ClientMetrics counters, and the connections_in_flight gauge
    failed_in_a_row,    \* Counts.dead_ends, and the gauge it is published through
    refusals,           \* Counts.refusals
    degraded,           \* Health.degraded
    dead                \* Streaks.client_is_dead was notified

streaks == <<failed_in_a_row, refusals, degraded, dead>>
clientVars == <<no_probe, stage, main, metrics, streaks>>
vars == <<dialVars, clientVars>>

\* The stages in which the in-flight guard is held, in order: dialling, the dial's streams counted, its
\* first round, how it ended; carrying; the splice over, its end counted, or nothing to carry.
InFlight == {"dialling", "costed", "weighed", "counted", "carrying", "spliced", "leaving"}
Stages == InFlight \cup {"new", "spawned", "unpolled", "arrived", "closed", "aborted"}

At(stages) == {d \in Dials : stage[d] \in stages}

-----------------------------------------------------------------------------
(* Metrics. *)

Each(rs, field) == [i \in DOMAIN rs |-> rs[i][field]]

\* A mutant: the last round is looked at.
LastRoundFailed(rs) == rs # <<>> /\ ~ rs[Len(rs)].answered

FirstRoundFailed(rs) == rs # <<>> /\ ~ rs[1].answered

\* A mutant: only the last round is reported.
DialledLast(rs) ==
    [metrics EXCEPT
        !.rounds = @ + 1,
        !.opened = @ + rs[Len(rs)].opened,
        !.refused = @ + rs[Len(rs)].refused,
        !.unanswered = @ + rs[Len(rs)].unanswered]

\* What the rounds of a dial cost.
Dialled(rs) ==
    [metrics EXCEPT
        !.rounds = @ + Len(rs),
        !.opened = @ + Total(Each(rs, "opened")),
        !.refused = @ + Total(Each(rs, "refused")),
        !.unanswered = @ + Total(Each(rs, "unanswered"))]

Raise(counter) == [metrics EXCEPT ![counter] = @ + 1]

-----------------------------------------------------------------------------
Init ==
    /\ DialInit
    /\ no_probe \in BOOLEAN
    /\ stage = [d \in Dials |-> "new"]
    /\ main = "serving"
    /\ metrics = [connections |-> 0, in_flight |-> 0, rounds |-> 0, opened |-> 0, refused |-> 0,
                  unanswered |-> 0, first_round_failures |-> 0, established |-> 0,
                  unestablished |-> 0, ended |-> 0]
    /\ failed_in_a_row = 0 /\ refusals = 0 /\ degraded = FALSE /\ dead = FALSE

Report == INSTANCE Report WITH failed <- failed_in_a_row, refused <- refusals

Enter(d, to) == stage' = [stage EXCEPT ![d] = to]

(* The wallet connects, and a task is spawned for it. *)
Accept(d) ==
    /\ main = "serving"
    /\ stage[d] = "new"
    /\ Enter(d, "spawned")
    /\ UNCHANGED <<dialVars, no_probe, main, metrics, streaks>>

(* The task is polled for the first time and counts the connection... *)
Arrive(d) ==
    /\ stage[d] = "spawned"
    /\ Enter(d, "arrived")
    /\ metrics' = Raise("connections")
    /\ UNCHANGED <<dialVars, no_probe, main, streaks>>

(* ... takes the in-flight guard and dials. *)
Call(d) ==
    /\ stage[d] = "arrived"
    /\ Enter(d, "dialling")
    /\ Begin(d, [probe |-> ~ no_probe, attempts |-> Attempts, concurrency |-> Concurrency])
    /\ metrics' = Raise("in_flight")
    /\ UNCHANGED <<no_probe, main, streaks>>

(* The dial gets on. *)
GetOn(d) == DialStep(d) /\ UNCHANGED clientVars

(* It is over, and what its rounds cost is counted... *)
CountRounds(d) ==
    /\ stage[d] = "dialling" /\ pc[d] \in Resolved
    /\ Enter(d, "costed")
    /\ metrics' = Dialled(rounds[d])
    /\ UNCHANGED <<dialVars, no_probe, main, streaks>>

(* ... then that its first round failed, if it did... *)
CountFirstRound(d) ==
    /\ stage[d] = "costed"
    /\ Enter(d, "weighed")
    /\ metrics' = IF FirstRoundFailed(rounds[d]) THEN Raise("first_round_failures") ELSE metrics
    /\ UNCHANGED <<dialVars, no_probe, main, streaks>>

(* ... then how it ended. *)
CountOutcome(d) ==
    /\ stage[d] = "weighed"
    /\ Enter(d, "counted")
    /\ metrics' = Raise(IF pc[d] = "returned" THEN "established" ELSE "unestablished")
    /\ UNCHANGED <<dialVars, no_probe, main, streaks>>

\* Without a probe nothing has come back from the far side.
OutcomeOf(d) ==
    CASE pc[d] = "returned" /\ Probe(d) -> "Answered"
      [] pc[d] = "returned" /\ ~ Probe(d) -> "Unprobed"
      [] pc[d] # "returned" /\ NothingOpened(rounds[d]) -> "NothingOpened"
      [] pc[d] # "returned" /\ ~ NothingOpened(rounds[d]) -> "NothingAnswered"

(* Both streaks are told how it ended.  A connection with a stream is       *)
(* carried, and one without is let go.                                      *)
Fold(d) ==
    /\ stage[d] = "counted"
    /\ Report!Fold(OutcomeOf(d))
    /\ Enter(d, IF pc[d] = "returned" THEN "carrying" ELSE "leaving")
    /\ UNCHANGED <<dialVars, no_probe, main, metrics>>

(* The splice over the stream ends, and drops it... *)
Finish(d) ==
    /\ stage[d] = "carrying"
    /\ Enter(d, "spliced")
    /\ Release(d)
    /\ UNCHANGED <<no_probe, main, metrics, streaks>>

(* ... and its end is counted. *)
CountEnd(d) ==
    /\ stage[d] = "spliced"
    /\ Enter(d, "leaving")
    /\ metrics' = Raise("ended")
    /\ UNCHANGED <<dialVars, no_probe, main, streaks>>

\* A mutant: the guard is leaked.
GuardKept == metrics

GuardDropped == [metrics EXCEPT !.in_flight = @ - 1]

(* The task ends, and its guard is dropped. *)
Leave(d) ==
    /\ stage[d] = "leaving"
    /\ Enter(d, "closed")
    /\ metrics' = GuardDropped
    /\ UNCHANGED <<dialVars, no_probe, main, streaks>>

(* A signal, or a local client given up on: no more connections are taken. *)
Shutdown ==
    /\ main = "serving"
    /\ main' = "draining"
    /\ UNCHANGED <<dialVars, no_probe, stage, metrics, streaks>>

(* The shutdown grace runs out and the set of tasks is dropped... *)
GraceRunsOut ==
    /\ main = "draining"
    /\ main' = "aborting"
    /\ UNCHANGED <<dialVars, no_probe, stage, metrics, streaks>>

(* ... which aborts each where it awaits, in its dial or in its splice,     *)
(* or before it ever ran.                                                   *)
Abort(d) ==
    /\ main = "aborting"
    /\ \/ stage[d] = "dialling" /\ pc[d] \in Dialling
       \/ stage[d] = "carrying"
    /\ Enter(d, "aborted")
    /\ Cancel(d) \/ CutShort(d)
    /\ metrics' = GuardDropped
    /\ UNCHANGED <<no_probe, main, streaks>>

AbortUnpolled(d) ==
    /\ main = "aborting"
    /\ stage[d] = "spawned"
    /\ Enter(d, "unpolled")
    /\ UNCHANGED <<dialVars, no_probe, main, metrics, streaks>>

(* What the task of a connection does, and what is done to it. *)
Carry(d) ==
    \/ Accept(d) \/ Arrive(d) \/ Call(d) \/ GetOn(d)
    \/ CountRounds(d) \/ CountFirstRound(d) \/ CountOutcome(d) \/ Fold(d)
    \/ Finish(d) \/ CountEnd(d) \/ Leave(d)
    \/ Abort(d) \/ AbortUnpolled(d)

Next ==
    \/ \E d \in Dials : Carry(d)
    \/ Shutdown
    \/ GraceRunsOut

Spec == Init /\ [][Next]_vars

FairSpec == Spec /\ OpensReturn

-----------------------------------------------------------------------------
(* Properties *)

\* Every variable stays within its type, and every dial keeps its place at the client's mutex.
TypeOK ==
    /\ DialTypeOK
    /\ no_probe \in BOOLEAN
    /\ stage \in [Dials -> Stages]
    /\ main \in {"serving", "draining", "aborting"}
    /\ metrics \in [{"connections", "in_flight", "rounds", "opened", "refused", "unanswered",
                     "first_round_failures", "established", "unestablished", "ended"} -> Nat]
    /\ failed_in_a_row \in Nat /\ refusals \in Nat
    /\ degraded \in BOOLEAN /\ dead \in BOOLEAN

Answered(d) == rounds[d] # <<>> /\ rounds[d][Len(rounds[d])].answered

\* The connections whose rounds were counted, whose first round was, and whose outcome was, before
\* they went on, ended or were aborted.
Outcome == At({"counted", "carrying", "spliced", "leaving", "closed"})
               \cup {d \in At({"aborted"}) : Answered(d)}
Weighed == Outcome \cup At({"weighed"})
Costed == Weighed \cup At({"costed"})

\* Whenever the endpoint is scraped, between any two writes, every wallet connection that was counted
\* is in flight, over or cut off by the shutdown, or about to be: the gauge and the counters differ
\* by the connections between their writes, on every path out of `carry`.
ConnectionsAddUp ==
    /\ metrics.in_flight = Cardinality(At(InFlight))
    /\ metrics.connections = metrics.in_flight + Cardinality(At({"arrived", "closed", "aborted"}))
    /\ metrics.established = metrics.ended
           + Cardinality({d \in At({"counted", "carrying", "spliced", "aborted"}) : Answered(d)})
    /\ metrics.unestablished = Cardinality({d \in Outcome : pc[d] = "gave_up"})

\* The pair the metrics are built on is comparable: the gap between how often a first round fails and
\* how often a wallet notices is exactly the connections a later round saved, and those whose giving
\* up is about to be counted.
RetriesExplainTheGap ==
    /\ metrics.first_round_failures - metrics.unestablished =
           Cardinality({d \in Weighed : Answered(d) /\ Len(rounds[d]) > 1})
               + Cardinality({d \in At({"weighed"}) : pc[d] = "gave_up"})
    /\ metrics.first_round_failures <= metrics.connections

\* The streams the counters do not account for are the siblings of those that answered: every other
\* stream opened was thrown away or kept, whatever a dial was doing when it was aborted.
StreamsAddUp ==
    LET kept == Cardinality({d \in Costed : Answered(d)})
        unkept == metrics.opened - metrics.unanswered - kept
    IN  /\ unkept \in 0..(Concurrency - 1) * kept
        /\ metrics.opened = Cardinality({s \in existed : s[1] \in Costed})
        /\ metrics.opened + metrics.refused <= Attempts * Cardinality(Costed)

\* The local client is given up on only for its own refusals: as many dials as the limit never had a
\* stream registered.
DeadClientWasRefused ==
    dead => Cardinality({d \in At({"leaving", "closed"}) : \A s \in existed : s[1] # d}) >= RefusalLimit

-----------------------------------------------------------------------------
(* What a comment promises and the code does not keep. *)

\* metrics.rs:111: first_round_failures counts "Connections whose first round of streams all went
\* unanswered", so never one whose first round had no stream to go unanswered.
FirstRoundFailuresWentUnanswered ==
    metrics.first_round_failures <=
        Cardinality({d \in Dials : rounds[d] # <<>> /\ rounds[d][1].unanswered > 0})

=============================================================================
