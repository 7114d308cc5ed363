# A verified model of lwd-mixnet-proxy

TLA+ modules that model the proxy's own logic, TLC configurations that check
them on small instances, and theorems TLAPS proves for every value of the
constants. `PROJECT.json` ties every definition to the lines it translates.

The program is two processes with a mixnet between them:

    wallet --TCP--> client half --mixnet--> server half --TCP--> lightwalletd

Neither reads what it carries. What they add is deadlines: a mixnet stream may
lose its first payload without telling either end and never signals a close, so
streams are probed before a wallet gets one, replaced when they do not answer,
and torn down when they stop answering.

## 1. Inventory

| Component | State | Operations | What makes it hard | What makes it correct |
|---|---|---|---|---|
| `splice.rs` one connection | the two directions' stamps, the stall clock, the ticker's schedule | two pumps that read, write and then record; a tick that evaluates the watchdog | everything may happen between a read and its record and between two ticks; stamps are whole milliseconds | a dead far side is noticed within a bound however much the wallet talks; a live one is never blamed; a quiet connection is reaped in time, and never when it was a stall |
| `dial.rs` establishing | the attempt budget, the current round, the streams held; the client mutex shared by all dials | open one by one under the mutex, probe together, keep the first that answers, retry, give up | echoes, deadlines and refusals in any order; `open_stream` is not cancel safe; aborts at every await | the verdict follows the echo; no stream is left behind but the one an abort cuts short; the budget is spent exactly; one dial never holds up another |
| `handshake.rs` | a token per probe | `probe`, `announce`, `accept` | deadline against a late echo; bytes that are nobody's header; a header that overtakes the `Open` of its stream and is lost | a kept stream carried its own header back, and so lost nothing; the upstream is reached by no other |
| `streaks.rs` what is said about dials | two counts behind a lock, the gauge, the health flag, a notification | `fold`, once per dial | folds on any thread, published in several writes | what is published is what folding one at a time would publish; the process ends itself for a dead local client and nothing else |
| `metrics.rs` | counters, in-flight gauges with guards | one method per event | two rates that must come off the same dial; guards on every path out | the gap between the rates is what retrying saved; the counters of each stage add up to the stage before |
| `health.rs` | startup state, degraded flag | `advance_to`, `set_degraded` | written and read on different threads, atom by atom | nobody is told a half is ready before it is |
| `bin/client.rs` | the set of connections | come up, accept, pause, carry, drain, exit | signal, dead client and connections race; accepts that keep failing | a shutdown ends; a dead client ends the process, with an error |
| `bin/server.rs` | the set of streams, the semaphore | accept, `serve`, drain, wait for a gateway | a cap that is the only defence; streams that say nothing | no permit is lost; the upstream is touched only for requests |
| `endpoint.rs` | its open connections | answers `/metrics` and `/health` | status, state and flag of one answer are read apart, while the half comes up | an answer's status and body do not contradict each other towards ready |
| `shutdown.rs` | none | resolves on a signal | handlers exist only from the first poll | a signal drains any half that holds a connection |
| `bin/bench.rs` | trials, refusal streak | warm up, dial, record; report | one broken client reads as a broken network; trials that follow each other on one client | the report says when it is not about the transport; its rates multiply; the run stops for a dead client and nothing else |
| the mixnet SDK | registered streams | open, deliver, drop | external: reorders and drops, never reports | modelled by what the code must survive of it |

How they interact: the client's main loop spawns one task per wallet connection
(`carry`), which calls `dial`, reports it to `metrics` and `streaks`, and hands
the stream to `splice`. All tasks share the SDK client behind a tokio mutex.
`streaks` writes to `metrics` and `health` and notifies the main loop. The
server's main loop spawns one task per accepted stream (`serve`), which calls
`handshake::accept`, waits for a request, connects to the upstream and calls
the same `splice`. The endpoint reads the registry and the health without a lock.

## 2. Modules

**`Splice`** - one call of `splice`. `Read(d)`, `Record(d)` and `PumpEnds(d)` are
a pump (read; write, flush and stamp; return), `Tick` is the select arm that
calls `tripped`, `Advance` is time. `UnansweredSince`, `ClockAfter`, `Stalls`,
`Idles` and `Verdict` are `tripped` branch by branch, and `Period` is
`check_period`. An `Option` is a set of at most one element. `owed` and
`silent` are history: what the code should have noticed, kept apart from what it
notices. Bytes are abstracted to whether and when a direction moved.

**`Dial`** - `dial` and `run_round`, for any number of callers with one call each
at a time. A dial is at one `pc`: `locking` (queued on the mutex), `opening`
(awaiting `open_stream` with the lock held), `probing` (awaiting the
`FuturesUnordered`, or the announcement), then `returned` or `gave_up`.
Everything the code runs between two awaits is one action: `Proceed` is what
follows an open or a discarded probe (next open, probe, next round, give up).
What a caller does is `Begin` (a call, with settings of its own), `Release` (the
stream it was given is dropped) and, when its task is aborted where it awaits, `Cancel`
(everything it holds is dropped) or, on an open, `CutShort` (which registers the one stream being opened
and leaves it without an owner; those opened before it are dropped all the same). The properties of any
dial are stated here and checked under the callers below.

**`Client`** extends `Dial` with `main` and `carry` of the client binary. A
connection's `stage` says where `carry` is, one stage per write of a counter, because the counters are
atomics nobody locks and a scrape or another connection comes between any two: `Accept` spawns the
task, `Arrive` counts it and `Call` takes the in-flight guard and dials, `GetOn` is its dial,
`CountRounds`, `CountFirstRound` and `CountOutcome` are `established` or `gave_up`, `Fold` says how it
ended, which is one step of `Report`, since `Streaks` shows it may be taken as one, `Finish` is the end
of the splice, `CountEnd` its count and `Leave` the guard's drop. Only the loop that adds a
dial's rounds to the counters (`metrics.rs:198-206`) is one step. `Shutdown` is the main loop leaving
its select, `GraceRunsOut` the end of `drain`, `Abort` a task dropped in its dial or its splice,
`AbortUnpolled` one that never ran.

**`Bench`** extends `Dial` with two callers, `warm_up` and `trial`, that
never dial at once. `Mark`, `Marked`, `Measure`, `EndTrial` and `Report` are
the passes of `main`'s loop; `arms` and `InTurn` say whose turn it is,
`OpenedIn` to `FirstRoundFailed` are the methods of `Trial`, and `Invalid`,
`Group`, `Reached` and `Failed` what `report` and `conditional_rates` count.

**`Conduit`** and **`Tunnel`** - `Conduit` is what both halves promise one wallet
connection: requests reach the upstream, and answers the wallet, in order, once,
with nothing left out before what arrived, until the connection ends. `Tunnel` is how:
the dialling half (`OpenStream` to `SpliceEnds`) and the listening half
(`Introduce` to `ConnectFails`), with a queue each way per stream, and a
mixnet that delivers in order (`Introduce`, `FirstRequest`, `CarryRequest`,
`Keep`, `TakeAnswer`), late, or never, and whose `Overtake` is the failure
the handshake exists for: the header arrives before the `Open`, is discarded, and
what follows is held for ever. Rounds are of one stream (siblings
probed together are `Dial`'s), a chunk is read and written in one step, and a dropped stream goes on being delivered to the
other side, which is what no close means. `TunnelIsAConduit` maps what the
upstream received and answered on the stream it heard from (`Served`) to
`Conduit.through` and `answered`: serving two streams would repeat or reorder it, and
that there is only one is `OnlyTheKeptStreamIsServed`.

**`Report`** and **`Streaks`** - `Report` is the promise: one dial at a time moves
the run of failures, the flag and the decision to exit. `Streaks` is the code:
`Count` takes the lock, `SetGauge`, `SetFlag` and `Notify` are the writes `fold`
publishes in, each its own step because readers take no lock, and `Exit` is the
main loop noticing the notification. `settled` records what was published when
the lock was last released; `FoldsAreAtomic` maps it to `Report`.

**`Serve`** - all streams of a server half: `Admit` and `Refuse`
are the accept arm with and without a permit; `ReadHeader`, `Echo` and `Reject`
are `handshake::accept`; `ReadRequest`, `NoRequest`, `Unreachable`, `Connect`,
`WriteOpening`, `OpeningFails`, `Carry` and `Finish` are the rest of `serve`;
`Shutdown` begins the drain, which is over (`Drained`) when every stream finished or
`GraceRunsOut`, and `Stop` aborts what is left. The dialler's bytes (`Dial`,
`Introduce`, `Send`) arrive at any time, also before the listener is ready to
read them.

**`Lifecycle`** - either half as a process. `main` runs from `BindEndpoint` to
`Announce` (what `main` does up to `Serving`), `FirstPass` registers the signal
handlers, then the loop's arms: `Accept`, `AcceptFails` and its `PauseEnds`,
`StopAsked`, `GiveUpOnTheClient`, `ListenerCloses`; `Leave` is the end of
`drain`, once the tasks are over or `GraceRunsOut`. What a task does is `Client`'s and `Serve`'s; here it runs, ends, and its
`Fold` raises the flag and the notification. A `/health` request is three steps,
`ChooseStatus`, `NameState` and `Reply`, one per atomic read.

**`SpliceProofs`**, **`StreaksProofs`**, **`ServeProofs`**, **`DialProofs`**,
**`ClientProofs`**, **`LifecycleProofs`**, **`TunnelProofs`**, **`BenchProofs`** -
the theorems of section 4. `ClientProofs` and `BenchProofs` extend `DialProofs` as
their modules extend `Dial`.

## 3. Runs

| Run | Instance | Shows |
|---|---|---|
| `splice` | stall 9 ms, idle 10, period 2, ticks up to 1 late, clock to 17 | a stall is declared in time, never early, never against an answer that reached the wallet and never as idleness; an abandoned connection is let go in time |
| `splice_talk` | stall 9, period 2, punctual | finding: a wallet that writes again before the first tick postpones the discovery beyond a quarter of the deadline |
| `splice_ties` | stall 5, period 2, punctual | finding: a write in the millisecond of the last answer is never noticed |
| `client` | 2 connections, 3 attempts, 2 at once, limits 2 and 1, with the probe and without | streams, budget, verdicts, mutex, blame, and the counters between any two of their writes, under every interleaving; opens go through although no probe is promised to end, and every dial ends if probes do |
| `client_refused` | 2 connections, 1 attempt | finding: a refused first round counts as unanswered |
| `bench` | 3 trials of 3 attempts, rounds of 1 and 2, streak limit 2, with gaps and without | the report is about what it says and its rates and stream counts add up, the run stops exactly for a dead client |
| `tunnel` | 3 streams to try, 2 requests answered in 2 chunks, with the probe and without | both halves are one ordinary connection; a probed stream lost nothing, and no other reaches the upstream; something comes back or the connection is closed |
| `tunnel_waits` | 1 stream, 1 request, 2 chunks | finding: after half an answer no deadline of this program ends the wallet's wait |
| `streaks_folds` | 2 tasks, 6 dials, the code's limits 5 and 3 | concurrent folds publish what single ones would; the exit is earned and taken |
| `serve` | 3 streams, 2 permits, 2 chunks | permits, guard, gate to the upstream and counters on every path; silent streams are let go |
| `serve_bytes` | 2 streams | finding: the first chunk is not counted |
| `lifecycle` | either half, 2 tasks, 1 supervisor | never ready too early, always ends when it must, with the exit code that says why |

*Why the bounds are enough.* A deadline of 9 against a period of 2 and a lateness
of 1 leaves room for an answered run, a tick that misses it, and a second run
that times out; `MaxTime` is past the last moment anything can be declared for
the first write, and the theorems remove the bound. One run has both deadlines, as the test of
`splice.rs:338-341` has and neither half (each sets one): every verdict is then reached in one
instance, the stall one unhindered because it is the shorter, and the theorems hold for every
combination. Three attempts at two a
round make a full round, a cut one and the retry between them; two connections
make every hand-over of the mutex and every order of their reports, and limits
of 2 and 1 let both streaks reach theirs. In the bench three trials are two
of one arm around one of the other, room for a streak of two and for one that is
broken, and rounds of two in a budget of three have a last round that is cut. Six dials hold
a whole run of five refusals and one dial after it. Three streams for two permits
make one refused, and two chunks tell the opening chunk from the spliced ones.
In the tunnel three streams are one dropped early, one dropped with its header still under
way and one kept; of two requests one opens the stream and one follows; two chunks
are an answer that can arrive in part.
Two tasks make a drain that is partly over, and supervisors do not affect each other.
`MaxAttempts`, `MaxFolds`, `MaxChunks`, `MaxSent`, `MaxTasks`, `MaxTime` and `Requests` are the only bounds the code
does not have; `AnswerLen` is how long an answer is, in chunks.

Every configuration sets `CHECK_DEADLOCK FALSE`, because each system really
stops: a splice returns, every dial is over, no fold is left, the process has exited, the report is printed.

*Fairness.* `Dial`: the mutex is handed on (tokio's is fair) and `open_stream`,
which only queues a message, returns; that a probe ends by its deadline is a premise
of `EveryDialEnds` alone, so that `OpensDoNotWaitForProbes` does without. Nothing is
asked of the far side. `Client` asks for no more than that. `Tunnel`: the timers of both halves fire (probe, stall,
handshake, first request, idle; the last may be taken as always running out because requests
and answers are finitely many), and opening or writing a stream only queues a message. Nothing is
promised of the mixnet, the wallet, the upstream or connecting to it. `Streaks`: `fold` never awaits, so a thread that entered
it leaves it, and a notified main loop is polled. `Serve`: deadlines pass on the
header and on the first request, the echo only queues a message, the main loop
takes what it is handed. Nothing is promised of the grace, of
connecting to the upstream, of writing to it, or of a splice ending, which is why
`SilentStreamsAreLetGo` stops at the request. That a drain ends because its timeout does is
`StopRequestsEnd` of `Lifecycle`, for either half. `Lifecycle`: the timers (gateway wait, pause,
grace) run out, and `select!`, which picks at random among the arms that are ready,
takes one that is ready again and again: strong fairness, without which a signal
could lose to failing accepts for ever. `Splice` needs none: "in time" is
an invariant over a clock that cannot pass a due tick by more than `Late`.

*Findings.* The five violation runs each quote the comment or the option's help that the code departs
from, and a decision record with it. `StallIsTimely` is what holds where `TalkingPostponesNothing` does not: the clock starts
at most one period after the first unanswered write, and nothing moves it after that. `RequestsEnd` is what
holds of the sentence `DeadlinesEndTheWait` refutes: the watchdog sees to it that *something* comes
back, not that it is the answer, and it excepts the writes `splice_ties` is about. The wait of
`tunnel_waits` is not for ever: the SDK sweeps a stream it has heard nothing on for half an hour
(`docs/measurements/2026-09-02-keepalive.md:71-74`), which ends the splice. That sweep is the SDK's and no
deadline of this program, so `Tunnel` has no action for it and the run says only that no deadline ends the wait.
More departures were seen and are not kept as runs: `Stalled` is also said of a far side whose answer
is still being written to a wallet slow to read (`splice.rs:45`; `StalledMeansSilentOrUnread`
is what holds); a stream the SDK refuses for a warm-up does not mark the bench's report invalid, although
`bench.rs:27` has any refusal do so (the trials measured are not affected, which is
`UnmarkedReportIsTheTransport`); a stall may be
counted from an answer up to a period before the first write of the run
(`splice.rs:136`, towards closing early, and the slack in
`StallIsEarned`); bytes of the far side read before a request and written
after it pass for its answer (`splice.rs:229`); and a scrape between two writes
of one fold reads a gauge and a flag that disagree, which `streaks.rs:80`
denies and the header of the same file admits; and `health.rs:22` has a
serving half accept connections, while a supervisor whose connection to the endpoint
is already open is told `serving` all through the drain.

## 4. Proofs

Every safety invariant of the passing runs and both refinements are proved for every
value of the constants. The invariants of each module follow, with what had to be
added to make them inductive.

`SpliceProofs` (every deadline, period, lateness and time bound): `TypeCorrect`,
`StallVerdict`, `AnswersHoldOff`, `IdleVerdict`, `StallDiscovered`, `IdleDiscovered`. The
inductive invariant is `TypeOK /\ Timing /\ QuietIsShort /\ Verdicts`. A verdict
is about the past, so what it rested on must be carried from one tick to the
next: `OnSchedule` (the last tick was `Period` ago and the next at most `Late`
overdue), `OwedRun` (what is owed, in terms of the stamps), `ClockIsLive`,
`ClockNotLate` and `ClockNotEarly` (the clock is within one tick of the first
write of the run, either side, or at a later answer), and `DeliveredIsRecorded`
(an answer is either recorded or in the pump's hands). `StallIsTimely` follows
from `ClockNotLate` and `ClockIsLive`; it is not inductive without them, because a
clock that a tick failed to set looks like one that need not be.
`IdleNeverHidesAStall` speaks of both deadlines set at once, which neither
half does today and `Watchdog` allows.

`StreaksProofs` (any number of tasks, dials and any limits): `TypeCorrect`,
`FoldsLeaveThemAgreeing`, `ExitOnlyForADeadClient`, `EveryDeadClientIsReported`,
`FoldsRefineTheReport`. The invariant says who is inside `fold` (`LockInv`), how
far it has published (`Published`), that the counts are the settled report with
at most one outcome folded in (`Unsettled`), and that the refusal count is the
length of the refused run the log ends with (`CountedRun`, `LongRunsAreTold`).
The refinement needs `Unsettled`: the releasing step must name the outcome that
was folded.

`ServeProofs` (any finite set of streams, any cap): `TypeCorrect`,
`CapacityKept`, `GaugeHonest`, `UpstreamGuarded` and `StagesAddUp`. The counting facts are
carried by cardinality lemmas on the set of streams at a place as one of them
moves in, out or, in the abort, all do. `UpstreamOnlyForRequests` speaks of
`touched`, which a stream never leaves, so it needs `StageOK`: what a stream must
have been through (a header read, a tunnel's header, nothing carried yet) by
where it is now. `CountersAddUp` is about streams that are still on their way too, so
`CountsInv` counts, per stage, those that have not reached the next counter.

`DialProofs` (any callers, any settings, other dials at every step): `TheMutexIsNeverLost`,
`EveryStreamHasAnOwner`, `TheBudgetIsSpent`, `TheEchoDecides`, `RoundsTellTheStreams` and
`RoundsFillTheBudget`. `DialInv` is the types with the mutex (its queue holds each dial
that wants it once, and its head alone is opening), that a registered stream no dial holds is the
one an abort cut short (`Orphan`), `StreamsOK` (what a dial holds, by where it awaits), `BudgetOK`
and `EchoOK`. Two more invariants say what is in
`outcome.rounds`: `HistoryInv` ties the records of past rounds to the streams that
existed, and `ShapeInv` that each round but the last was full and unanswered. Both speak of
sums over a sequence that grows at its end and whose last element changes. `Sum` is a fold,
and the theorems about folds are out of the prover's reach, so `SumsExist`
and `SumsAgree` show by induction over a *set* of naturals (`SetInduction`, from the
well-foundedness of `<`) that running sums exist and are determined by what they add;
`TotalOfOneMore`, `TotalOfAnotherLast`, `TotalsAdd` and `PartOfTotal` are all the rest uses of it.

`ClientProofs` (any set of connections): first that every step of `Client` is a step of
`Dial` or leaves the dials alone, so the theorems of `DialProofs` hold of it
(`ClientStreamsHaveOwners`, `ClientSpendsItsBudget`, `ClientTrustsTheEcho`), with its own
`ClientKeepsItsTypes`. Then `ConnectionCountersAddUp`, `TheGapIsTheRetries`,
`StreamCountersAddUp` and `OnlyRefusalsKill`, which hold between any two writes of the counters: a counter is raised steps
after what it reports happened, so `ClientInv` says per connection what its dial must have left behind by the stage it
is at (`PlaceOK`), and per counter which connections it has counted already. A step moves one connection, so each counter
must follow the sets that connection enters and leaves (`CountersFollow`, `RetriesFollow`, `RefusalsFollow`), and
`CountersStayRight` does the counting once for all steps.

`BenchProofs` (any number of trials, any arms, any limit): `StoppedForADeadClient`,
`RatesMultiply`, `ArmsAddUp` and `UnmarkedIsTheTransport`. `BenchInv` adds to the three
invariants of `Dial` what a recorded trial may be (`TrialsOK`), that the streak is the number of
refused trials the record ends with (`StreakOK`), and where in its loop `main` is (`PlaceOK`,
`StopOK`). The rates multiply because a trial of an arm goes one round deeper exactly when the round
before failed and the budget has a round left: `ShapeInv` gives each trial's depth
(`DeepestRound`, `OneTrialGoesAsDeepAsItMust`), and the deepest round, which may be cut, is the same
for all trials of an arm.

`TunnelProofs` (any number of attempts, requests and chunks): `ProbeFindsAWholeStream`,
`OneStreamIsServed` and `TunnelRefinesAConduit`. The invariant follows what is in each queue
(`UplinkOK`: the header and the chunks that were sent after it, consecutively, up to the last one
sent; `DownlinkOK`: the chunks of the answer not yet taken) and what each stage of the listening
half implies about the dialling half (`StageOK`). Every step then maps to one
of `Conduit` or to a stutter, which rests on `OnlyTheKeptStreamIsServed`: what an
upstream heard, it heard on `cur`.

`LifecycleProofs` (either half, any supervisors, any number of tasks): `ReadyMeansServing` and
`TheExitCodeIsTrue`. `/health` is read in three steps while startup goes on, so the invariant
keeps what each read implies of the state now (`ReadsHold`), which holds because the state never
goes back; `ReasonKept` carries why the loop was left to the exit code that says so.

Assumptions are those declared with the constants: deadlines and periods are
positive (`Watchdog`'s are `Duration`s of at least a second, the periods are
constants of the code), the limits are positive, no task is called `nobody`, the
streams are finitely many, a dial has at least one attempt and at least one stream a round
(both are `NonZeroU32` in `DialSettings`), the bench's two dials are `warm_up` and `trial` and it is given
at least one round size.

*Model-checked only.* All liveness (`EveryDialEnds`, `OpensDoNotWaitForProbes`, `RequestsEnd`,
`DeadClientEndsTheProcess`, `SilentStreamsAreLetGo`,
`StartupEnds`, `StopRequestsEnd`), which the prover does not reach; and the five findings, which are
counterexamples.

## 5. Not modelled

Bytes and the wire format, beyond the headers the code tells apart; a poisoned
streak lock, which nothing in `fold` can cause; relaxed memory ordering on the
stamps (one task reads and writes them) and on the health flag (written under
the lock); the SDK's own half-hour sweep of silent streams, which is what ends what no deadline of this program does; `/metrics` and the
endpoint's other replies, which change nothing; `SIGKILL`; durations, and so the
establishment histogram and the bench's percentiles; the bench's spread within a round and its
prediction for independent streams, which are arithmetic over what `Bench` has; a round
size given to it twice; the dialling half's byte counter; the SDK's reorder buffer running
over, after which it skips frames (`Tunnel` delivers in order or not at all); what an upstream
does with a request beyond answering it.

## 6. Plan

Done: `Splice`, `Dial`, `Client`, `Bench`, `Report`, `Streaks`, `Serve`, `Conduit`, `Tunnel`,
`Lifecycle`, and the proofs of all their safety properties. Next, most important first:

1. Action properties worth a theorem: a stream once dropped is never held again, a counter never
   goes down, a report once settled is not settled differently.
2. That `Client`'s `Fold`, taken as one step, is `Report`'s step under `Client`'s own variables: the
   refinement `StreaksProofs` proves is the justification, and the composition is in prose.
3. The long proofs of `DialProofs` and `BenchProofs`: leaves that several steps repeat become lemmas.
