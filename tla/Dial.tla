-------------------------------- MODULE Dial --------------------------------
(***************************************************************************)
(* Dialling (src/src/dial.rs): what a caller of `dial` starts, and what    *)
(* becomes of the stream it is given.  Modules Client and Bench are the    *)
(* two programs that call it.                                              *)
(*                                                                         *)
(* All dials share one mixnet client behind a tokio mutex.  A dial runs    *)
(* rounds: it opens the round's streams one by one, each under the lock,   *)
(* then probes them together with the lock free and keeps the first that   *)
(* answers.  Other dials, the far side's replies, the probe deadlines and  *)
(* a caller that is aborted happen at every await.                         *)
(***************************************************************************)
EXTENDS Integers, Sequences, SequencesExt

CONSTANTS
    Dials,          \* the callers of `dial`, with one call each at a time
    MaxAttempts     \* bound: the attempts a caller may ask for

ASSUME AttemptsAssumption == MaxAttempts \in Nat \ {0}

\* DialSettings, with the ProbeSettings in it: without a probe, the other two say nothing.
Settings == [probe : BOOLEAN, attempts : 1..MaxAttempts, concurrency : 1..MaxAttempts]

\* A dial's streams are numbered by the attempt that opened them.
Streams == Dials \X (1..MaxAttempts)

VARIABLES
    pc,         \* pc[d]: where the dial is, and then what its caller did with it
    settings,   \* settings[d]: what it was called with
    remaining,  \* remaining[d]: attempts no round has claimed yet
    left,       \* left[d]: opens this round still has to run
    rounds,     \* rounds[d]: the Rounds run so far, the current one last
    held,       \* held[d]: the streams the dial owns, or the one it returned
    queue,      \* who holds the client's mutex, first, and who waits for it in order
    live,       \* the streams the SDK has registered
    reply,      \* reply[s]: what the far side sent on a stream; an echo is remembered when it is dropped
    existed     \* history: the streams the SDK ever registered for the dial

dialVars == <<pc, settings, remaining, left, rounds, held, queue, live, reply, existed>>

Dialling == {"locking", "opening", "probing"}
Resolved == {"returned", "gave_up"}
Over == {"released", "cancelled", "cut_short"}

Unprobed == [probe |-> FALSE, attempts |-> 1, concurrency |-> 1]

Probe(d) == settings[d].probe

\* Without a probe one attempt is made.
BudgetOf(s) == IF s.probe THEN s.attempts ELSE 1

Budget(d) == BudgetOf(settings[d])

Width(d) == IF Probe(d) THEN settings[d].concurrency ELSE 1

-----------------------------------------------------------------------------
(* Rounds. *)

Fresh == [opened |-> 0, refused |-> 0, unanswered |-> 0, answered |-> FALSE]

\* A mutant: the last round is not cut to what is left of the budget.
WholeRound(width, budget) == width

RoundSize(width, budget) == IF width < budget THEN width ELSE budget
Attempted(r) == r.opened + r.refused

\* Streams abandoned without a verdict, with the code's saturating subtractions.
Saturating(n) == IF n < 0 THEN 0 ELSE n

Cancelled(r) ==
    Saturating(Saturating(r.opened - r.unanswered) - (IF r.answered THEN 1 ELSE 0))

\* A mutant: a refused open is a stream that did not answer.
RefusedIsUnanswered(r) == [r EXCEPT !.unanswered = @ + 1]

RefusedOne(r) == [r EXCEPT !.refused = @ + 1]

\* A mutant: judged by the last round alone.
LastOpenedNothing(rs) == rs[Len(rs)].opened = 0

NothingOpened(rs) == \A i \in DOMAIN rs : rs[i].opened = 0

\* The current round of a dial with one of its counts raised.
Amend(d, r) == [rounds[d] EXCEPT ![Len(rounds[d])] = r]

Current(d) == rounds[d][Len(rounds[d])]

Total(counts) ==
    LET sum[n \in 0..Len(counts)] == IF n = 0 THEN 0 ELSE sum[n - 1] + counts[n]
    IN sum[Len(counts)]

AttemptedIn(rs) == Total([i \in DOMAIN rs |-> Attempted(rs[i])])

-----------------------------------------------------------------------------
DialInit ==
    /\ pc = [d \in Dials |-> "idle"]
    /\ settings = [d \in Dials |-> Unprobed]
    /\ remaining = [d \in Dials |-> 0]
    /\ left = [d \in Dials |-> 0]
    /\ rounds = [d \in Dials |-> <<>>]
    /\ held = [d \in Dials |-> {}]
    /\ queue = <<>>
    /\ live = {}
    /\ reply = [s \in Streams |-> "none"]
    /\ existed = {}

Move(d, to) == pc' = [pc EXCEPT ![d] = to]

(* A round begins: its size comes out of the budget and it asks for the lock. *)
BeginRound(d, width, budget, q, rs) ==
    LET size == RoundSize(width, budget) IN
    /\ Move(d, "locking")
    /\ remaining' = [remaining EXCEPT ![d] = budget - size]
    /\ left' = [left EXCEPT ![d] = size]
    /\ rounds' = [rounds EXCEPT ![d] = Append(rs, Fresh)]
    /\ queue' = Append(q, d)

(* What a dial does once it holds the streams h, with opens left to run in  *)
(* this round: open the next, probe what it has, run another round, give up. *)
Proceed(d, q, rs, h, opens) ==
    /\ held' = [held EXCEPT ![d] = h]
    /\ \/ /\ opens > 0
          /\ Move(d, "locking")
          /\ left' = [left EXCEPT ![d] = opens]
          /\ rounds' = [rounds EXCEPT ![d] = rs]
          /\ queue' = Append(q, d)
          /\ UNCHANGED remaining
       \/ /\ opens = 0 /\ h # {}
          /\ Move(d, "probing")
          /\ left' = [left EXCEPT ![d] = 0]
          /\ rounds' = [rounds EXCEPT ![d] = rs]
          /\ queue' = q
          /\ UNCHANGED remaining
       \/ /\ opens = 0 /\ h = {} /\ remaining[d] > 0
          /\ BeginRound(d, Width(d), remaining[d], q, rs)
       \/ /\ opens = 0 /\ h = {} /\ remaining[d] = 0
          /\ Move(d, "gave_up")
          /\ left' = [left EXCEPT ![d] = 0]
          /\ rounds' = [rounds EXCEPT ![d] = rs]
          /\ queue' = q
          /\ UNCHANGED remaining

(* dial(client, server, with) is called, for streams of its own. *)
Begin(d, with) ==
    /\ pc[d] \in {"idle", "gave_up", "released"}
    /\ settings' = [settings EXCEPT ![d] = with]
    /\ BeginRound(d, IF with.probe THEN with.concurrency ELSE 1, BudgetOf(with), queue, <<>>)
    /\ reply' = [s \in Streams |-> IF s[1] = d THEN "none" ELSE reply[s]]
    /\ existed' = {s \in existed : s[1] # d}
    /\ UNCHANGED <<held, live>>

(* The mutex is granted in the order it was asked for. *)
Lock(d) ==
    /\ pc[d] = "locking"
    /\ Head(queue) = d
    /\ Move(d, "opening")
    /\ UNCHANGED <<settings, remaining, left, rounds, held, queue, live, reply, existed>>

NextAttempt(d) == Budget(d) - remaining[d] - left[d] + 1

\* A mutant: the guard is never dropped.
HeldOn == queue

Unlocked == Tail(queue)

(* The SDK opens a stream, and the lock is released. *)
Open(d) ==
    LET k == NextAttempt(d) IN
    /\ pc[d] = "opening"
    /\ live' = live \cup {<<d, k>>}
    /\ existed' = existed \cup {<<d, k>>}
    /\ Proceed(d, Unlocked, Amend(d, [Current(d) EXCEPT !.opened = @ + 1]),
               held[d] \cup {k}, left[d] - 1)
    /\ UNCHANGED <<settings, reply>>

(* The SDK refuses, and the lock is released. *)
RefuseOpen(d) ==
    /\ pc[d] = "opening"
    /\ Proceed(d, Unlocked, Amend(d, RefusedOne(Current(d))), held[d], left[d] - 1)
    /\ UNCHANGED <<settings, live, reply, existed>>

(* The far side's bytes arrive on a stream: the probe's own header, or      *)
(* anything else.  On a stream already dropped they go nowhere.             *)
Reply(d, k, what) ==
    /\ Probe(d)
    /\ pc[d] = "probing" /\ k \in held[d]
    /\ reply[<<d, k>>] = "none"
    /\ reply' = [reply EXCEPT ![<<d, k>>] = what]
    /\ UNCHANGED <<pc, settings, remaining, left, rounds, held, queue, live, existed>>

\* The probe's header came back with the token it carried; without a probe, the announcement was
\* written.
Proven(d, k) == Probe(d) => reply[<<d, k>>] = "own"

\* The round returns one stream and drops the rest, which deregisters them.
LiveAfterAnswer(d, k) == live \ {<<d, j>> : j \in held[d] \ {k}}

(* A stream answers first: it is returned and its siblings are cancelled. *)
Answer(d, k) ==
    /\ pc[d] = "probing" /\ k \in held[d]
    /\ Proven(d, k)
    /\ Move(d, "returned")
    /\ rounds' = [rounds EXCEPT ![d] = Amend(d, [Current(d) EXCEPT !.answered = TRUE])]
    /\ held' = [held EXCEPT ![d] = {k}]
    /\ live' = LiveAfterAnswer(d, k)
    /\ UNCHANGED <<settings, remaining, left, queue, reply, existed>>

\* A mutant: the deadline is looked at before what came back.
DeadlineFirst(d, k) == TRUE

\* tokio's timeout polls the read before the deadline, so an echo that is there is never missed.
Unproven(d, k) == reply[<<d, k>>] # "own"

\* What came back goes with the stream, but for the memory of an echo that was there.
Remembered(what) == IF what = "own" THEN "own" ELSE "none"

(* A probe ends without an answer: the deadline passed, what came back was  *)
(* not its header, or the stream broke.  The stream is dropped.             *)
Discard(d, k) ==
    /\ pc[d] = "probing" /\ k \in held[d]
    /\ Unproven(d, k)
    /\ live' = live \ {<<d, k>>}
    /\ Proceed(d, queue, Amend(d, [Current(d) EXCEPT !.unanswered = @ + 1]), held[d] \ {k}, 0)
    /\ reply' = [reply EXCEPT ![<<d, k>>] = Remembered(@)]
    /\ UNCHANGED <<settings, existed>>

Owned(d) == {<<d, k>> : k \in held[d]}

(* The caller is done with the stream it was returned, and drops it. *)
Release(d) ==
    /\ pc[d] = "returned"
    /\ Move(d, "released")
    /\ held' = [held EXCEPT ![d] = {}]
    /\ live' = live \ Owned(d)
    /\ UNCHANGED <<settings, remaining, left, rounds, queue, reply, existed>>

\* A dial that is dropped while it holds the mutex or waits for it gives its place up.
Without(d) ==
    IF \E i \in DOMAIN queue : queue[i] = d
    THEN RemoveAt(queue, CHOOSE i \in DOMAIN queue : queue[i] = d)
    ELSE queue

\* A mutant: a task that is aborted leaves its streams registered.
LiveAsBefore(d) == live

\* Dropping the dial drops the streams it was probing, or the one it returned.
LiveWithout(d) == live \ Owned(d)

\* The caller's task is aborted where it awaits.
Dropped(d, to) ==
    /\ Move(d, to)
    /\ held' = [held EXCEPT ![d] = {}]
    /\ queue' = Without(d)
    /\ UNCHANGED <<settings, remaining, left, rounds, reply>>

(* It is dropped with all its streams... *)
Cancel(d) ==
    /\ pc[d] \in Dialling \cup {"returned"}
    /\ Dropped(d, "cancelled")
    /\ live' = LiveWithout(d)
    /\ UNCHANGED existed

(* ... but open_stream, cut short, may have registered one nobody owns. *)
CutShort(d) ==
    /\ pc[d] = "opening"
    /\ Dropped(d, "cut_short")
    /\ live' = LiveWithout(d) \cup {<<d, NextAttempt(d)>>}
    /\ existed' = existed \cup {<<d, NextAttempt(d)>>}

(* What a dial does of itself, and what the far side does to it. *)
DialStep(d) ==
    \/ Lock(d) \/ Open(d) \/ RefuseOpen(d)
    \/ \E k \in 1..MaxAttempts :
          Answer(d, k) \/ Discard(d, k) \/ \E what \in {"own", "other"} : Reply(d, k, what)

(* Any number of callers, each doing with its dial whatever it may. *)
DialNext ==
    \E d \in Dials :
        DialStep(d) \/ Release(d) \/ Cancel(d) \/ CutShort(d) \/ \E with \in Settings : Begin(d, with)

DialSpec == DialInit /\ [][DialNext]_dialVars

(* The mutex is handed on and open_stream, which only queues a message,     *)
(* returns.                                                                 *)
OpensReturn ==
    \A d \in Dials : WF_dialVars(Lock(d)) /\ WF_dialVars(Open(d) \/ RefuseOpen(d))

(* Every probe ends by its deadline at the latest. *)
ProbesEnd ==
    \A d \in Dials : WF_dialVars(\E k \in 1..MaxAttempts : Answer(d, k) \/ Discard(d, k))

-----------------------------------------------------------------------------
(* Properties of every dial, whoever called it. *)

\* Every variable stays within its type, and the mutex is never lost: it is wanted once by every dial
\* that is opening, held by the one at the front, and by nobody who is probing, resolved or aborted.
DialTypeOK ==
    /\ pc \in [Dials -> {"idle"} \cup Dialling \cup Resolved \cup Over]
    /\ settings \in [Dials -> Settings]
    /\ remaining \in [Dials -> 0..MaxAttempts]
    /\ left \in [Dials -> 0..MaxAttempts]
    /\ rounds \in [Dials -> Seq([opened : Nat, refused : Nat, unanswered : Nat,
                                 answered : BOOLEAN])]
    /\ held \in [Dials -> SUBSET (1..MaxAttempts)]
    /\ queue \in Seq(Dials)
    /\ \A i, j \in DOMAIN queue : queue[i] = queue[j] => i = j
    /\ \A d \in Dials :
          /\ pc[d] \in {"locking", "opening"} <=> \E i \in DOMAIN queue : queue[i] = d
          /\ pc[d] = "opening" => Head(queue) = d
    /\ live \subseteq Streams
    /\ existed \subseteq Streams
    /\ reply \in [Streams -> {"none", "own", "other"}]

\* The one stream of a dial that was aborted while it opened it.
Orphan(s) == pc[s[1]] = "cut_short" /\ s[2] = NextAttempt(s[1])

\* Streams cost reply blocks and a task on the far side, so none is left behind: every registered
\* stream is owned by a dial that still needs it or returned it, whatever was answered, discarded,
\* released or aborted, and a dial that is over owns none.  The one exception is the stream that was
\* being opened when its dial was aborted (dial.rs:189-191: open_stream is not cancel safe): one per
\* such dial, and none it had opened before.
StreamsAccountedFor ==
    /\ \A s \in live : s[2] \in held[s[1]] \/ Orphan(s)
    /\ \A d \in Dials :
          /\ Owned(d) \subseteq live
          /\ pc[d] = "returned" => \E k \in held[d] : held[d] = {k}
          /\ pc[d] \in {"idle", "gave_up"} \cup Over => held[d] = {}

\* The attempt budget is spent exactly: every open tried, every one this round still has to run and
\* every one no round has claimed add up to it, and a dial gives up only when all are spent.
BudgetIsSpentExactly ==
    \A d \in Dials : pc[d] # "idle" =>
        /\ AttemptedIn(rounds[d]) + left[d] + remaining[d] = Budget(d)
        /\ AttemptedIn(rounds[d]) + left[d] <= Budget(d)
        /\ pc[d] = "gave_up" => AttemptedIn(rounds[d]) = Budget(d)
        /\ \A i \in DOMAIN rounds[d] : Attempted(rounds[d][i]) <= Width(d)

\* The verdict follows the echo, whatever order deadlines and replies arrive in: the stream that is
\* returned carried the probe's own header back, and a dial never gives up on one that did.
VerdictFollowsTheEcho ==
    \A d \in Dials :
        /\ pc[d] = "returned" /\ Probe(d) => \A k \in held[d] : reply[<<d, k>>] = "own"
        /\ pc[d] = "gave_up" => \A k \in 1..MaxAttempts : reply[<<d, k>>] # "own"

\* Once every probe ends by its deadline every dial ends, with a stream or without, whatever the other
\* dials and the far side do.
EveryDialEnds == ProbesEnd => \A d \in Dials : pc[d] \in Dialling ~> pc[d] \notin Dialling

\* Waiting for an answer never holds up another dial: its opens go through even when no probe ever
\* ends, because the lock is held for the open alone.
OpensDoNotWaitForProbes ==
    \A d \in Dials :
        pc[d] \in {"locking", "opening"} ~> pc[d] \notin {"locking", "opening"}

=============================================================================
