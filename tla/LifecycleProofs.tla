--------------------------- MODULE LifecycleProofs ---------------------------
(***************************************************************************)
(* What a supervisor may believe of a half, for any number of supervisors  *)
(* asking at once and of tasks in flight: "ready" is never said too early, *)
(* and the exit code tells why the process ended.                          *)
(***************************************************************************)
EXTENDS Lifecycle, TLAPS

-----------------------------------------------------------------------------
(* The inductive invariant. *)

States == {Starting, Registered, Serving}

Calls == [at : {"none", "connected", "status", "body"}, ready : BOOLEAN, body : States]
Answers == [ready : BOOLEAN, body : States, degraded : BOOLEAN]

TypeOK ==
    /\ half \in {"dialling", "listening"}
    /\ main \in StartingUp \cup Loop \cup Draining \cup {"exited"}
    /\ state \in States
    /\ degraded \in BOOLEAN
    /\ endpoint \in {"off", "up", "told"}
    /\ asked \in BOOLEAN
    /\ dead \in BOOLEAN
    /\ running \in 0..MaxTasks
    /\ leaving \in {"none", "ok", "failed"}
    /\ exit \in {"none", "ok", "failed", "killed"}
    /\ call \in [Supervisors -> Calls]
    /\ answer \in [Supervisors -> Answers]

\* The published state is where `main` is.
StateFollowsMain ==
    /\ main \in {"binding", "connecting"} => state = Starting
    /\ main \in {"registered", "bound"} => state = Registered
    /\ main \in {"ready"} \cup Draining \cup Loop => state = Serving

\* A process that is coming up was asked for nothing and has no task to report a failure.
NothingYet ==
    /\ main \in StartingUp => running = 0 /\ ~ asked /\ ~ dead /\ ~ degraded
    /\ main = "exited" => running = 0

\* The drain remembers what the loop was left for.
ReasonKept ==
    /\ main # "exited" => exit = "none"
    /\ main \in Draining =>
          \/ leaving = "ok" /\ (asked \/ half = "listening")
          \/ leaving = "failed" /\ half = "dialling" /\ dead

\* What one request has read of the state so far was so when it read it, and the state never goes back.
ReadsHold ==
    \A p \in Supervisors :
        /\ call[p].at \in {"status", "body"} /\ call[p].ready => state = Serving
        /\ call[p].at = "body" /\ call[p].ready => call[p].body = Serving
        /\ answer[p].ready => answer[p].body = Serving /\ state = Serving

LifecycleInv == TypeOK /\ StateFollowsMain /\ NothingYet /\ ReasonKept /\ ReadsHold /\ ExitTellsWhy

-----------------------------------------------------------------------------
LEMMA InitEstablishes == Init => LifecycleInv
<1> SUFFICES ASSUME Init PROVE LifecycleInv
  OBVIOUS
<1>1. NoCall \in Calls /\ NoAnswer \in Answers
  BY DEF NoCall, NoAnswer, Calls, Answers, States
<1>2. TypeOK
  <2>1. call \in [Supervisors -> Calls] /\ answer \in [Supervisors -> Answers]
    BY <1>1 DEF Init
  <2>2. running \in 0..MaxTasks
    BY LifecycleAssumption DEF Init
  <2> QED BY <2>1, <2>2 DEF Init, TypeOK, StartingUp, States
<1>3. StateFollowsMain /\ NothingYet /\ ReasonKept
  BY DEF Init, StateFollowsMain, NothingYet, ReasonKept, Loop, StartingUp, Draining
<1>4. ReadsHold
  BY DEF Init, ReadsHold, NoCall, NoAnswer
<1>5. ExitTellsWhy
  BY DEF Init, ExitTellsWhy
<1> QED BY <1>2, <1>3, <1>4, <1>5 DEF LifecycleInv

\* A process that goes leaves what supervisors were told, and no request.
LEMMA ExitKeeps ==
    ASSUME LifecycleInv, NEW how \in {"ok", "failed", "killed"}, Exit(how),
           how = "ok" => state = Serving /\ (asked \/ half = "listening"),
           how = "failed" /\ state = Serving => half = "dialling" /\ dead,
           how = "killed" => ~ dead /\ ~ degraded /\ ~ asked
    PROVE  LifecycleInv'
<1>1. /\ main' = "exited" /\ exit' = how /\ running' = 0 /\ endpoint' = "off"
      /\ call' = [p \in Supervisors |-> NoCall]
      /\ UNCHANGED <<half, state, degraded, asked, dead, leaving, answer>>
  BY DEF Exit
<1>2. NoCall \in Calls
  BY DEF NoCall, Calls, States
<1>3. TypeOK'
  BY <1>1, <1>2, LifecycleAssumption DEF LifecycleInv, TypeOK
<1>4. StateFollowsMain' /\ NothingYet' /\ ReasonKept'
  BY <1>1 DEF StateFollowsMain, NothingYet, ReasonKept, Loop, StartingUp, Draining
<1>5. ReadsHold'
  BY <1>1 DEF LifecycleInv, ReadsHold, NoCall
<1>6. ExitTellsWhy'
  BY <1>1 DEF ExitTellsWhy
<1> QED BY <1>3, <1>4, <1>5, <1>6 DEF LifecycleInv

\* A step of the main loop that leaves the supervisors and the tasks alone.
LEMMA ComingUpKeeps ==
    ASSUME LifecycleInv,
           BindEndpoint \/ Connect \/ BindLocal \/ Announce \/ FirstPass \/ AcceptFails \/ PauseEnds
    PROVE  LifecycleInv'
<1>1. UNCHANGED <<half, degraded, asked, dead, running, leaving, exit, call, answer>>
  BY DEF BindEndpoint, Connect, BindLocal, Announce, FirstPass, AcceptFails, PauseEnds
<1>2. /\ \/ /\ main \in {"binding", "bound", "registered", "ready"} \cup Loop
            /\ main' \in StartingUp \cup Loop /\ state' = state
            /\ main = "binding" => main' = "connecting"
            /\ main = "registered" => main' = "bound"
            /\ main \in {"ready"} \cup Loop => main' \in Loop
            /\ main # "bound"
         \/ main = "connecting" /\ main' = "registered" /\ state' = Registered
         \/ main = "bound" /\ main' = "ready" /\ state' = Serving
      /\ endpoint' \in {"off", "up", "told"}
  BY DEF BindEndpoint, Connect, BindLocal, Announce, FirstPass, AcceptFails, PauseEnds, AdvanceTo,
         LifecycleInv, TypeOK, StateFollowsMain, StartingUp, Loop, Starting, Registered, Serving
<1>3. TypeOK'
  BY <1>1, <1>2 DEF LifecycleInv, TypeOK, StartingUp, Loop, Draining, States
<1>4. StateFollowsMain'
  BY <1>2 DEF LifecycleInv, StateFollowsMain, StartingUp, Loop, Draining
<1>5. NothingYet' /\ ReasonKept'
  BY <1>1, <1>2 DEF LifecycleInv, NothingYet, ReasonKept, StartingUp, Loop, Draining
<1>6. state = Serving => state' = Serving
  BY <1>2 DEF LifecycleInv, StateFollowsMain, Starting, Registered, Serving
<1>7. ReadsHold'
  BY <1>1, <1>6 DEF LifecycleInv, ReadsHold
<1>8. ExitTellsWhy'
  BY <1>1, <1>2 DEF LifecycleInv, ReasonKept, ExitTellsWhy, StartingUp, Loop, Draining
<1> QED BY <1>3, <1>4, <1>5, <1>7, <1>8 DEF LifecycleInv

\* Tasks come, report and go, signals arrive and the endpoint's loop ends: `main` is where it was.
LEMMA ServingKeeps ==
    ASSUME LifecycleInv, Accept \/ TaskEnds \/ Fold \/ Signal \/ EndpointStops
    PROVE  LifecycleInv'
<1>1. UNCHANGED <<half, main, state, leaving, exit, call, answer>>
  BY DEF Accept, TaskEnds, Fold, Signal, EndpointStops
<1>2. /\ degraded' \in BOOLEAN /\ endpoint' \in {"off", "up", "told"} /\ asked' \in BOOLEAN
      /\ dead' \in BOOLEAN /\ running' \in 0..MaxTasks
      /\ (asked => asked') /\ (dead => dead')
  <2>1. /\ degraded \in BOOLEAN /\ endpoint \in {"off", "up", "told"} /\ asked \in BOOLEAN
        /\ dead \in BOOLEAN /\ running \in 0..MaxTasks
    BY DEF LifecycleInv, TypeOK
  <2>2. CASE Accept \/ TaskEnds
    <3>1. running' \in 0..MaxTasks /\ UNCHANGED <<degraded, endpoint, asked, dead>>
      BY <2>1, <2>2, LifecycleAssumption DEF Accept, TaskEnds
    <3> QED BY <2>1, <3>1
  <2>3. CASE Fold
    <3>1. /\ degraded' \in BOOLEAN /\ dead' \in {dead, dead \/ degraded'}
          /\ UNCHANGED <<endpoint, asked, running>>
      BY <2>3 DEF Fold
    <3>2. dead' \in BOOLEAN /\ (dead => dead')
      BY <2>1, <3>1, Zenon
    <3> QED BY <2>1, <3>1, <3>2
  <2>4. CASE Signal \/ EndpointStops
    BY <2>1, <2>4 DEF Signal, EndpointStops
  <2> QED BY <2>2, <2>3, <2>4
<1>3. main \notin StartingUp \cup {"exited"} \/ UNCHANGED <<degraded, asked, dead, running>>
  BY DEF Accept, TaskEnds, Fold, Signal, EndpointStops, LifecycleInv, NothingYet, Loop, StartingUp, Draining
<1>4. TypeOK'
  BY <1>1, <1>2 DEF LifecycleInv, TypeOK
<1>5. StateFollowsMain' /\ NothingYet'
  BY <1>1, <1>3 DEF LifecycleInv, StateFollowsMain, NothingYet
<1>6. ReasonKept'
  BY <1>1, <1>2 DEF LifecycleInv, ReasonKept
<1>7. ReadsHold'
  BY <1>1 DEF LifecycleInv, ReadsHold
<1>8. ExitTellsWhy'
  BY <1>1, <1>2, <1>3 DEF LifecycleInv, ReasonKept, ExitTellsWhy
<1> QED BY <1>4, <1>5, <1>6, <1>7, <1>8 DEF LifecycleInv

LEMMA DrainKeeps ==
    ASSUME LifecycleInv, StopAsked \/ GiveUpOnTheClient \/ ListenerCloses
    PROVE  LifecycleInv'
<1>1. /\ main = "serving" /\ main' = "draining"
      /\ endpoint' = IF endpoint = "up" THEN "told" ELSE endpoint
      /\ UNCHANGED <<half, state, degraded, asked, dead, running, exit, call, answer>>
  BY DEF StopAsked, GiveUpOnTheClient, ListenerCloses, Drain
<1>2. \/ leaving' = "ok" /\ (asked \/ half = "listening")
      \/ leaving' = "failed" /\ half = "dialling" /\ dead
  BY DEF StopAsked, GiveUpOnTheClient, ListenerCloses, Drain, GivenUp
<1>3. TypeOK'
  BY <1>1, <1>2 DEF LifecycleInv, TypeOK, Draining
<1>4. StateFollowsMain' /\ NothingYet' /\ ReasonKept'
  BY <1>1, <1>2 DEF LifecycleInv, StateFollowsMain, NothingYet, ReasonKept, Loop, StartingUp, Draining
<1>5. ReadsHold' /\ ExitTellsWhy'
  BY <1>1 DEF LifecycleInv, ReadsHold, ExitTellsWhy
<1> QED BY <1>3, <1>4, <1>5 DEF LifecycleInv

LEMMA GraceKeeps ==
    ASSUME LifecycleInv, GraceRunsOut
    PROVE  LifecycleInv'
<1>1. /\ main \in Draining /\ main' \in Draining
      /\ UNCHANGED <<half, state, degraded, endpoint, asked, dead, running, leaving, exit, call, answer>>
  BY DEF GraceRunsOut, Draining
<1>2. TypeOK'
  BY <1>1 DEF LifecycleInv, TypeOK
<1>3. StateFollowsMain' /\ NothingYet' /\ ReasonKept'
  BY <1>1 DEF LifecycleInv, StateFollowsMain, NothingYet, ReasonKept, Loop, StartingUp, Draining
<1>4. ReadsHold' /\ ExitTellsWhy'
  BY <1>1 DEF LifecycleInv, ReadsHold, ExitTellsWhy
<1> QED BY <1>2, <1>3, <1>4 DEF LifecycleInv

\* A request is answered from reads of the state that the loop steps between.
LEMMA CallKeeps ==
    ASSUME LifecycleInv, NEW p \in Supervisors,
           CallIn(p) \/ ChooseStatus(p) \/ NameState(p) \/ Reply(p) \/ HangUp(p)
    PROVE  LifecycleInv'
<1>1. UNCHANGED process
  BY DEF CallIn, ChooseStatus, NameState, Reply, HangUp
<1>2. UNCHANGED <<half, main, state, degraded, endpoint, asked, dead, running, leaving, exit>>
  BY <1>1 DEF process
<1>3. /\ call \in [Supervisors -> Calls] /\ answer \in [Supervisors -> Answers]
      /\ state \in States /\ degraded \in BOOLEAN
  BY DEF LifecycleInv, TypeOK
<1>4. /\ call' \in [Supervisors -> Calls] /\ answer' \in [Supervisors -> Answers]
      /\ \A q \in Supervisors : q # p => call'[q] = call[q] /\ answer'[q] = answer[q]
  <2>1. CASE CallIn(p) \/ ChooseStatus(p) \/ NameState(p)
    BY <1>3, <2>1 DEF CallIn, ChooseStatus, NameState, IsReady, Calls
  <2>2. CASE Reply(p)
    BY <1>3, <2>2 DEF Reply, Calls, Answers
  <2>3. CASE HangUp(p)
    BY <1>3, <2>3 DEF HangUp, NoCall, Calls, States
  <2> QED BY <2>1, <2>2, <2>3
<1>5. /\ call[p].at \in {"status", "body"} /\ call[p].ready => state = Serving
      /\ call[p].at = "body" /\ call[p].ready => call[p].body = Serving
      /\ answer[p].ready => answer[p].body = Serving /\ state = Serving
  BY DEF LifecycleInv, ReadsHold
<1>6. /\ call'[p].at \in {"status", "body"} /\ call'[p].ready => state = Serving
      /\ call'[p].at = "body" /\ call'[p].ready => call'[p].body = Serving
      /\ answer'[p].ready => answer'[p].body = Serving /\ state = Serving
  <2>1. CASE CallIn(p)
    BY <1>3, <1>5, <2>1 DEF CallIn, Calls
  <2>2. CASE ChooseStatus(p)
    BY <1>3, <1>5, <2>2 DEF ChooseStatus, IsReady, Calls
  <2>3. CASE NameState(p)
    BY <1>3, <1>5, <2>3 DEF NameState, Calls
  <2>4. CASE Reply(p)
    BY <1>3, <1>5, <2>4 DEF Reply, Calls, Answers
  <2>5. CASE HangUp(p)
    BY <1>3, <1>5, <2>5 DEF HangUp, NoCall
  <2> QED BY <2>1, <2>2, <2>3, <2>4, <2>5
<1>7. TypeOK'
  BY <1>2, <1>4 DEF LifecycleInv, TypeOK
<1>8. StateFollowsMain' /\ NothingYet' /\ ReasonKept' /\ ExitTellsWhy'
  BY <1>2 DEF LifecycleInv, StateFollowsMain, NothingYet, ReasonKept, ExitTellsWhy
<1>9. ReadsHold'
  BY <1>2, <1>4, <1>6 DEF LifecycleInv, ReadsHold
<1> QED BY <1>7, <1>8, <1>9 DEF LifecycleInv

LEMMA NextKeeps == LifecycleInv /\ [Next]_vars => LifecycleInv'
<1> SUFFICES ASSUME LifecycleInv, [Next]_vars PROVE LifecycleInv'
  OBVIOUS
<1>1. CASE EndpointPortTaken \/ ConnectFails \/ GatewayWaitOver \/ BindFails
  <2>1. Exit("failed") /\ main \in {"binding", "connecting", "registered"}
    BY <1>1 DEF EndpointPortTaken, ConnectFails, GatewayWaitOver, BindFails
  <2>2. state # Serving
    BY <2>1 DEF LifecycleInv, StateFollowsMain, Starting, Registered, Serving
  <2> QED BY <2>1, <2>2, ExitKeeps
<1>2. CASE KilledEarly
  <2>1. Exit("killed") /\ ~ dead /\ ~ degraded /\ ~ asked
    BY <1>2 DEF KilledEarly, LifecycleInv, NothingYet
  <2> QED BY <2>1, ExitKeeps
<1>3. CASE Leave
  <2>1. main \in Draining /\ Exit(leaving) /\ state = Serving
    BY <1>3 DEF Leave, Drained, Draining, LifecycleInv, StateFollowsMain
  <2>2. \/ leaving = "ok" /\ (asked \/ half = "listening")
        \/ leaving = "failed" /\ half = "dialling" /\ dead
    BY <2>1 DEF LifecycleInv, ReasonKept
  <2> QED BY <2>1, <2>2, ExitKeeps
<1>4. CASE BindEndpoint \/ Connect \/ BindLocal \/ Announce \/ FirstPass \/ AcceptFails \/ PauseEnds
  BY <1>4, ComingUpKeeps
<1>5. CASE Accept \/ TaskEnds \/ Fold \/ Signal \/ EndpointStops
  BY <1>5, ServingKeeps
<1>6. CASE StopAsked \/ GiveUpOnTheClient \/ ListenerCloses
  BY <1>6, DrainKeeps
<1>9. CASE GraceRunsOut
  BY <1>9, GraceKeeps
<1>7. ASSUME NEW p \in Supervisors,
             CallIn(p) \/ ChooseStatus(p) \/ NameState(p) \/ Reply(p) \/ HangUp(p)
      PROVE  LifecycleInv'
  BY <1>7, CallKeeps
<1>8. CASE UNCHANGED vars
  BY <1>8 DEF vars, LifecycleInv, TypeOK, StateFollowsMain, NothingYet, ReasonKept, ReadsHold,
              ExitTellsWhy
<1> QED BY <1>1, <1>2, <1>3, <1>4, <1>5, <1>6, <1>7, <1>8, <1>9 DEF Next, Main

LEMMA Invariance == Spec => []LifecycleInv
<1> QED BY InitEstablishes, NextKeeps, PTL DEF Spec

\* However many supervisors ask, and however their requests fall between the steps of `main`, one that
\* is told 200 is told so in the body too, of a half that had bound its listener (health.rs,
\* endpoint.rs).
THEOREM ReadyMeansServing == Spec => []ReadyIsNeverPremature
<1>1. LifecycleInv => ReadyIsNeverPremature
  <2> SUFFICES ASSUME LifecycleInv, NEW p \in Supervisors, answer[p].ready
               PROVE  /\ answer[p].body = Serving
                      /\ main \in Loop \cup Draining \cup {"ready", "exited"}
                      /\ state = Serving
    BY DEF ReadyIsNeverPremature
  <2>1. answer[p].body = Serving /\ state = Serving
    BY DEF LifecycleInv, ReadsHold
  <2>2. main \in Loop \cup Draining \cup {"ready", "exited"}
    BY <2>1 DEF LifecycleInv, TypeOK, StateFollowsMain, StartingUp, Draining, Starting, Registered, Serving
  <2> QED BY <2>1, <2>2
<1> QED BY <1>1, Invariance, PTL

\* The exit code of either half says what a supervisor should do next, whatever ran when it was told
\* to stop and whichever of a signal, a dead client and a closed listener the loop saw first.
THEOREM TheExitCodeIsTrue == Spec => []ExitTellsWhy
<1>1. LifecycleInv => ExitTellsWhy
  BY DEF LifecycleInv
<1> QED BY <1>1, Invariance, PTL

=============================================================================
