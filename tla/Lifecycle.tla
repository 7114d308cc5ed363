------------------------------ MODULE Lifecycle -----------------------------
(***************************************************************************)
(* The life of one half as a process: coming up, serving, draining and     *)
(* exiting (`main` and `drain` of src/src/bin/client.rs and of             *)
(* src/src/bin/server.rs), with what a supervisor is told of it meanwhile  *)
(* (src/src/health.rs, src/src/endpoint.rs) and the signals that end it    *)
(* (src/src/shutdown.rs).                                                  *)
(*                                                                         *)
(* What a connection or a stream does is Dial's and Serve's: here one is a *)
(* task that runs, and reports what Streaks makes of its dial.  The        *)
(* endpoint answers on threads of its own and reads the health atom by     *)
(* atom, so a request is three steps among those of the main loop.         *)
(***************************************************************************)
EXTENDS Integers

CONSTANTS
    Supervisors,    \* who asks for /health, one request at a time
    MaxTasks        \* bound: the connections or streams in flight

ASSUME LifecycleAssumption == MaxTasks \in Nat

Starting == 0
Registered == 1
Serving == 2

VARIABLES
    half,       \* which of the two programs was started
    main,       \* where `main` is
    state,      \* Health.state
    degraded,   \* Health.degraded
    endpoint,   \* the endpoint's accept loop
    asked,      \* a signal was delivered to a process that handles it
    dead,       \* Streaks.client_is_dead was notified
    running,    \* the tasks of the JoinSet that have not finished
    leaving,    \* what `main` returns once the drain is over
    exit,       \* how the process ended
    call,       \* call[p]: p's connection to the endpoint and what its request has read
    answer      \* answer[p]: the last answer p was given

vars == <<half, main, state, degraded, endpoint, asked, dead, running, leaving, exit, call, answer>>
process == <<half, main, state, degraded, endpoint, asked, dead, running, leaving, exit>>

NoCall == [at |-> "none", ready |-> FALSE, body |-> Starting]
NoAnswer == [ready |-> FALSE, body |-> Starting, degraded |-> FALSE]

StartingUp == {"binding", "connecting", "registered", "bound", "ready"}
Loop == {"serving", "pausing"}
Draining == {"draining", "overdue"}

Init ==
    /\ half \in {"dialling", "listening"}
    /\ main = "binding"
    /\ state = Starting
    /\ degraded = FALSE
    /\ endpoint = "off"
    /\ asked = FALSE
    /\ dead = FALSE
    /\ running = 0
    /\ leaving = "none"
    /\ exit = "none"
    /\ call = [p \in Supervisors |-> NoCall]
    /\ answer = [p \in Supervisors |-> NoAnswer]

\* The process is gone, and with it its tasks, its endpoint and the requests under way.
Exit(how) ==
    /\ main' = "exited"
    /\ exit' = how
    /\ running' = 0
    /\ endpoint' = "off"
    /\ call' = [p \in Supervisors |-> NoCall]
    /\ UNCHANGED <<half, state, degraded, asked, dead, leaving, answer>>

-----------------------------------------------------------------------------
(* Coming up. *)

\* advance_to: states only ever move forward.
AdvanceTo(to) == state' = IF to > state THEN to ELSE state

(* The endpoint is bound first, if it was asked for at all. *)
BindEndpoint ==
    /\ main = "binding"
    /\ main' = "connecting"
    /\ endpoint' \in {"off", "up"}
    /\ UNCHANGED <<half, state, degraded, asked, dead, running, leaving, exit, call, answer>>

EndpointPortTaken == main = "binding" /\ Exit("failed")

(* A gateway is found and registered with... *)
Connect ==
    /\ main = "connecting"
    /\ main' = "registered"
    /\ AdvanceTo(Registered)
    /\ UNCHANGED <<half, degraded, endpoint, asked, dead, running, leaving, exit, call, answer>>

(* ... or not. *)
ConnectFails == main = "connecting" /\ Exit("failed")

\* A mutant: the wait is left to the SDK.
WaitIsTheSDKs == FALSE

\* Only the listening half, which may wait for the gateway it is registered with, bounds the wait.
WaitIsBounded == half = "listening"

GatewayWaitOver == main = "connecting" /\ WaitIsBounded /\ Exit("failed")

(* The local listener is bound, or the stream listener taken. *)
BindLocal ==
    /\ main = "registered"
    /\ main' = "bound"
    /\ UNCHANGED <<half, state, degraded, endpoint, asked, dead, running, leaving, exit, call, answer>>

BindFails == main = "registered" /\ Exit("failed")

Announce ==
    /\ main = "bound"
    /\ main' = "ready"
    /\ AdvanceTo(Serving)
    /\ UNCHANGED <<half, degraded, endpoint, asked, dead, running, leaving, exit, call, answer>>

(* The first pass of the loop polls `requested`, which registers the        *)
(* handlers: until then a signal kills the process, or is missed by one     *)
(* that runs as a container's first.                                        *)
FirstPass ==
    /\ main = "ready"
    /\ main' = "serving"
    /\ UNCHANGED <<half, state, degraded, endpoint, asked, dead, running, leaving, exit, call, answer>>

KilledEarly == main \in StartingUp /\ Exit("killed")

-----------------------------------------------------------------------------
(* Serving. *)

Accept ==
    /\ main = "serving"
    /\ running < MaxTasks
    /\ running' = running + 1
    /\ UNCHANGED <<half, main, state, degraded, endpoint, asked, dead, leaving, exit, call, answer>>

(* A wallet's connection was not accepted: the dialling half waits inside   *)
(* the loop, looking at nothing else meanwhile.                             *)
AcceptFails ==
    /\ main = "serving" /\ half = "dialling"
    /\ main' = "pausing"
    /\ UNCHANGED <<half, state, degraded, endpoint, asked, dead, running, leaving, exit, call, answer>>

PauseEnds ==
    /\ main = "pausing"
    /\ main' = "serving"
    /\ UNCHANGED <<half, state, degraded, endpoint, asked, dead, running, leaving, exit, call, answer>>

TaskEnds ==
    /\ running > 0
    /\ running' = running - 1
    /\ UNCHANGED <<half, main, state, degraded, endpoint, asked, dead, leaving, exit, call, answer>>

(* A connection's dial resolves and is folded.  The client is given up on   *)
(* past a longer run of failures than the flag goes up for.                 *)
Fold ==
    /\ running > 0 /\ half = "dialling"
    /\ degraded' \in BOOLEAN
    /\ dead' \in {dead, dead \/ degraded'}
    /\ UNCHANGED <<half, main, state, endpoint, asked, running, leaving, exit, call, answer>>

Signal ==
    /\ main \in Loop \cup Draining
    /\ asked' = TRUE
    /\ UNCHANGED <<half, main, state, degraded, endpoint, dead, running, leaving, exit, call, answer>>

-----------------------------------------------------------------------------
(* Draining. *)

\* The loop is left: the endpoint is told, and the tasks are waited for.
Drain(then) ==
    /\ main = "serving"
    /\ main' = "draining"
    /\ leaving' = then
    /\ endpoint' = IF endpoint = "up" THEN "told" ELSE endpoint
    /\ UNCHANGED <<half, state, degraded, asked, dead, running, exit, call, answer>>

StopAsked == asked /\ Drain("ok")

\* A mutant: giving up on the client looks like an ordinary shutdown.
GivenUpQuietly == "ok"

GivenUp == "failed"

GiveUpOnTheClient == half = "dialling" /\ dead /\ Drain(GivenUp)

ListenerCloses == half = "listening" /\ Drain("ok")

(* The grace runs out with tasks left. *)
GraceRunsOut ==
    /\ main = "draining"
    /\ running > 0
    /\ main' = "overdue"
    /\ UNCHANGED <<half, state, degraded, endpoint, asked, dead, running, leaving, exit, call, answer>>

\* A mutant: every task is waited for, however long.
TasksAreOver == main \in Draining /\ running = 0

\* The tasks are over, or the grace is.
Drained ==
    \/ main = "draining" /\ running = 0
    \/ main = "overdue"

Leave == Drained /\ Exit(leaving)

-----------------------------------------------------------------------------
(* The endpoint. *)

\* One accepts until its loop has noticed the shutdown; a connection it accepted lives on.
CallIn(p) ==
    /\ endpoint \in {"up", "told"}
    /\ call[p].at = "none"
    /\ call' = [call EXCEPT ![p].at = "connected"]
    /\ UNCHANGED <<process, answer>>

EndpointStops ==
    /\ endpoint = "told"
    /\ endpoint' = "off"
    /\ UNCHANGED <<half, main, state, degraded, asked, dead, running, leaving, exit, call, answer>>

\* A mutant: registered is enough.
RegisteredIsReady == state >= Registered

IsReady == state = Serving

(* GET /health: the status is chosen off one read of the state... *)
ChooseStatus(p) ==
    /\ call[p].at = "connected"
    /\ call' = [call EXCEPT ![p].at = "status", ![p].ready = IsReady]
    /\ UNCHANGED <<process, answer>>

(* ... the body off another... *)
NameState(p) ==
    /\ call[p].at = "status"
    /\ call' = [call EXCEPT ![p].at = "body", ![p].body = state]
    /\ UNCHANGED <<process, answer>>

(* ... and the flag is read last. *)
Reply(p) ==
    /\ call[p].at = "body"
    /\ answer' = [answer EXCEPT ![p] = [ready |-> call[p].ready, body |-> call[p].body,
                                        degraded |-> degraded]]
    /\ call' = [call EXCEPT ![p].at = "connected"]
    /\ UNCHANGED process

HangUp(p) ==
    /\ call[p].at # "none"
    /\ call' = [call EXCEPT ![p] = NoCall]
    /\ UNCHANGED <<process, answer>>

-----------------------------------------------------------------------------
Main ==
    \/ BindEndpoint \/ EndpointPortTaken \/ Connect \/ ConnectFails \/ GatewayWaitOver
    \/ BindLocal \/ BindFails \/ Announce \/ FirstPass
    \/ Accept \/ AcceptFails \/ PauseEnds
    \/ StopAsked \/ GiveUpOnTheClient \/ ListenerCloses \/ GraceRunsOut \/ Leave

Next ==
    \/ Main
    \/ TaskEnds \/ Fold \/ Signal \/ KilledEarly \/ EndpointStops
    \/ \E p \in Supervisors :
          CallIn(p) \/ ChooseStatus(p) \/ NameState(p) \/ Reply(p) \/ HangUp(p)

Spec == Init /\ [][Next]_vars

(* The gateway wait, the pause and the grace are timers, and what runs      *)
(* between them does not block.  select! picks among the arms that are      *)
(* ready at random, so one that is ready again and again is taken.          *)
FairSpec ==
    /\ Spec
    /\ WF_vars(GatewayWaitOver)
    /\ WF_vars(BindLocal \/ BindFails)
    /\ WF_vars(Announce \/ FirstPass \/ PauseEnds)
    /\ WF_vars(GraceRunsOut)
    /\ WF_vars(Leave)
    /\ SF_vars(StopAsked)
    /\ SF_vars(GiveUpOnTheClient)

-----------------------------------------------------------------------------
(* Properties *)

\* A supervisor is told 200 only by a half whose listener is bound, in a body that says so too, although
\* status and body are read apart: the state only moves forward and the status is read first.  A half
\* that failed to come up never said it was ready.
ReadyIsNeverPremature ==
    \A p \in Supervisors : answer[p].ready =>
        /\ answer[p].body = Serving
        /\ main \in Loop \cup Draining \cup {"ready", "exited"}
        /\ state = Serving

\* The exit code tells a supervisor what a restart would do, whichever of a signal, a dead client and a
\* closed listener came first: 0 only for a half that served and was asked to stop or ran out of
\* streams, an error after serving only for a client that has to be restarted, and only a process that
\* never held a connection is cut down without a drain.
ExitTellsWhy ==
    /\ exit = "ok" => state = Serving /\ (asked \/ half = "listening")
    /\ exit = "failed" /\ state = Serving => half = "dialling" /\ dead
    /\ exit = "killed" => ~ dead /\ ~ degraded /\ ~ asked

\* A listening half does not wait for its gateway for ever: it serves or exits, whatever the network
\* does.
StartupEnds ==
    half = "listening" /\ main = "connecting" ~> main \in Loop \cup Draining \cup {"exited"}

\* Once it is asked to stop, or its local client is given up on, the process ends, whatever its
\* connections do and however often accepting fails meanwhile.
StopRequestsEnd ==
    asked \/ dead ~> main = "exited"

=============================================================================
