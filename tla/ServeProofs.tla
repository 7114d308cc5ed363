----------------------------- MODULE ServeProofs ----------------------------
(***************************************************************************)
(* What the listening half keeps for any number of streams and any cap: no *)
(* permit is lost, the in-flight gauge is honest, and the upstream is only *)
(* touched for streams that introduced themselves and carried a request.   *)
(***************************************************************************)
EXTENDS Serve, FiniteSetTheorems, TLAPS

-----------------------------------------------------------------------------
(* The inductive invariant. *)

\* What a stream has been through by the time it is where it is.
Unread == {"unopened", "queued"} \cup Waiting

StageOK(s) ==
    /\ at[s] \in Unread \cup {"connecting", "opening"} => carried[s] = 0 /\ transfer[s] = 0
    /\ at[s] \in Unread \cup {"connecting"} => s \notin touched
    /\ at[s] \in {"echoing", "awaiting", "connecting"} \cup Upstream =>
           header[s] \in {"probe", "announce"}
    /\ at[s] \in {"connecting"} \cup Upstream => read[s] > 0
    /\ at[s] \in Upstream => s \in touched
    /\ transfer[s] <= carried[s]

IInv ==
    /\ TypeOK
    /\ CapacityIsKept
    /\ GaugeIsHonest
    /\ UpstreamOnlyForRequests
    /\ \A s \in Streams : StageOK(s)

-----------------------------------------------------------------------------
(* How many streams are at a place. *)

LEMMA InIsFinite ==
    ASSUME NEW set
    PROVE  IsFiniteSet(In(set)) /\ Cardinality(In(set)) \in Nat
<1>1. In(set) \subseteq Streams
  BY DEF In
<1> QED BY <1>1, ServeAssumption, FS_Subset, FS_CardinalityType

LEMMA InIsFiniteNext ==
    ASSUME NEW set
    PROVE  Cardinality(In(set)') \in Nat
<1>1. In(set)' \subseteq Streams
  BY DEF In
<1> QED BY <1>1, ServeAssumption, FS_Subset, FS_CardinalityType

\* The permits never exceed the cap while the capacity is kept.
LEMMA PermitsAreBounded ==
    ASSUME CapacityIsKept', permits' \in Nat
    PROVE  permits' \in 0..MaxStreams
<1>1. Cardinality(In(Held)') \in Nat /\ MaxStreams \in Nat
  BY InIsFiniteNext, ServeAssumption
<1> QED BY <1>1 DEF CapacityIsKept

\* One stream moving changes the number of streams in a set of places by whether it entered or left.
LEMMA OneMoves ==
    ASSUME NEW set, NEW s \in Streams, NEW to, DOMAIN at = Streams, Move(s, to)
    PROVE  /\ (at[s] \in set <=> to \in set) =>
                  Cardinality(In(set)') = Cardinality(In(set))
           /\ at[s] \notin set /\ to \in set =>
                  Cardinality(In(set)') = Cardinality(In(set)) + 1
           /\ at[s] \in set /\ to \notin set =>
                  Cardinality(In(set)') = Cardinality(In(set)) - 1
<1>1. at'[s] = to /\ \A r \in Streams \ {s} : at'[r] = at[r]
  BY DEF Move
<1>2. ASSUME at[s] \in set <=> to \in set
      PROVE  In(set)' = In(set)
  BY <1>1, <1>2 DEF In
<1>3. ASSUME at[s] \notin set, to \in set
      PROVE  In(set)' = In(set) \cup {s} /\ s \notin In(set)
  BY <1>1, <1>3 DEF In
<1>4. ASSUME at[s] \in set, to \notin set
      PROVE  In(set)' = In(set) \ {s} /\ s \in In(set)
  BY <1>1, <1>4 DEF In
<1> QED BY <1>2, <1>3, <1>4, InIsFinite, FS_AddElement, FS_RemoveElement

\* What the capacity and the gauge need to know of a step that moves one stream.
LEMMA OneMovesKeepsCounts ==
    ASSUME IInv, NEW s \in Streams, NEW to, Move(s, to),
           permits' = permits + (IF at[s] \in Held THEN 1 ELSE 0) - (IF to \in Held THEN 1 ELSE 0),
           in_flight' = in_flight - (IF at[s] \in Upstream THEN 1 ELSE 0)
                                  + (IF to \in Upstream THEN 1 ELSE 0)
    PROVE  CapacityIsKept' /\ GaugeIsHonest'
<1>1. DOMAIN at = Streams /\ permits \in Int /\ in_flight \in Int /\ MaxStreams \in Nat
  BY ServeAssumption DEF IInv, TypeOK
<1>2. Cardinality(In(Held)) \in Nat /\ Cardinality(In(Upstream)) \in Nat
  BY InIsFinite
<1>3. Cardinality(In(Held)') = Cardinality(In(Held))
          - (IF at[s] \in Held THEN 1 ELSE 0) + (IF to \in Held THEN 1 ELSE 0)
  <2> HIDE DEF Held
  <2> QED BY <1>1, <1>2, OneMoves
<1>4. Cardinality(In(Upstream)') = Cardinality(In(Upstream))
          - (IF at[s] \in Upstream THEN 1 ELSE 0) + (IF to \in Upstream THEN 1 ELSE 0)
  BY <1>1, <1>2, OneMoves
<1>5. CapacityIsKept'
  BY <1>1, <1>2, <1>3 DEF IInv, CapacityIsKept
<1>6. GaugeIsHonest'
  BY <1>1, <1>2, <1>4 DEF IInv, GaugeIsHonest
<1> QED BY <1>5, <1>6

-----------------------------------------------------------------------------
(* Each action preserves the invariant. *)

LEMMA InitEstablishes == Init => IInv
<1> SUFFICES ASSUME Init PROVE IInv
  OBVIOUS
<1>1. In(Held) = {} /\ In(Upstream) = {}
  BY DEF Init, In, Held, Waiting, Upstream
<1>2. CapacityIsKept /\ GaugeIsHonest
  BY <1>1, FS_EmptySet, ServeAssumption DEF Init, CapacityIsKept, GaugeIsHonest
<1>3. TypeOK
  BY ServeAssumption DEF Init, TypeOK, Counters
<1>4. UpstreamOnlyForRequests /\ \A s \in Streams : StageOK(s)
  BY DEF Init, UpstreamOnlyForRequests, StageOK, Unread, Waiting, Upstream
<1> QED BY <1>2, <1>3, <1>4 DEF IInv

\* A step of the dialler moves no stream inside `serve`.
LEMMA DialPreserves ==
    ASSUME IInv, NEW s \in Streams, Dial(s)
    PROVE  IInv'
<1>1. CapacityIsKept' /\ GaugeIsHonest'
  <2>1. permits \in Int /\ in_flight \in Int
    BY DEF IInv, TypeOK
  <2> QED BY <2>1, OneMovesKeepsCounts DEF Dial, Held, Waiting, Upstream
<1>2. TypeOK'
  BY DEF IInv, TypeOK, Dial, Move, Held, Waiting, Upstream, Over
<1>3. UpstreamOnlyForRequests' /\ \A r \in Streams : StageOK(r)'
  BY DEF IInv, TypeOK, Dial, Move, UpstreamOnlyForRequests, StageOK, Unread, Waiting, Upstream
<1> QED BY <1>1, <1>2, <1>3 DEF IInv

LEMMA IntroducePreserves ==
    ASSUME IInv, NEW s \in Streams, NEW what \in {"probe", "announce", "foreign"},
           Introduce(s, what)
    PROVE  IInv'
<1>1. CapacityIsKept' /\ GaugeIsHonest'
  BY DEF IInv, Introduce, CapacityIsKept, GaugeIsHonest, In
<1>2. TypeOK'
  BY DEF IInv, TypeOK, Introduce
<1>3. UpstreamOnlyForRequests' /\ \A r \in Streams : StageOK(r)'
  BY DEF IInv, TypeOK, Introduce, UpstreamOnlyForRequests, StageOK
<1> QED BY <1>1, <1>2, <1>3 DEF IInv

LEMMA SendPreserves ==
    ASSUME IInv, NEW s \in Streams, Send(s)
    PROVE  IInv'
<1>1. CapacityIsKept' /\ GaugeIsHonest'
  BY DEF IInv, Send, CapacityIsKept, GaugeIsHonest, In
<1>2. TypeOK'
  BY ServeAssumption DEF IInv, TypeOK, Send
<1>3. UpstreamOnlyForRequests' /\ \A r \in Streams : StageOK(r)'
  BY DEF IInv, TypeOK, Send, UpstreamOnlyForRequests, StageOK
<1> QED BY <1>1, <1>2, <1>3 DEF IInv

\* The main loop takes a stream in or drops it.
LEMMA AdmitPreserves ==
    ASSUME IInv, NEW s \in Streams, Admit(s)
    PROVE  IInv'
<1>1. CapacityIsKept' /\ GaugeIsHonest'
  <2>1. permits \in Int /\ in_flight \in Int
    BY DEF IInv, TypeOK
  <2> QED BY <2>1, OneMovesKeepsCounts DEF Admit, PermitTaken, Held, Waiting, Upstream
<1>2. TypeOK'
  <2>1. at' \in [Streams -> {"unopened", "queued"} \cup Held \cup Over]
    BY DEF IInv, TypeOK, Admit, PermitTaken, Move, Held, Waiting, Upstream, Over
  <2>2. counted' \in [Counters -> Nat]
    BY DEF IInv, TypeOK, Admit, PermitTaken
  <2>3. permits' \in 0..MaxStreams
    <3>1. permits' \in Nat
      BY DEF IInv, TypeOK, Admit, PermitTaken
    <3> QED BY <3>1, <1>1, PermitsAreBounded
  <2> QED BY <2>1, <2>2, <2>3 DEF IInv, TypeOK, Admit, PermitTaken
<1>3. UpstreamOnlyForRequests' /\ \A r \in Streams : StageOK(r)'
  BY DEF IInv, TypeOK, Admit, PermitTaken, Move, UpstreamOnlyForRequests, StageOK,
     Unread, Held, Waiting, Upstream, Over
<1> QED BY <1>1, <1>2, <1>3 DEF IInv

LEMMA RefusePreserves ==
    ASSUME IInv, NEW s \in Streams, Refuse(s)
    PROVE  IInv'
<1>1. CapacityIsKept' /\ GaugeIsHonest'
  <2>1. permits \in Int /\ in_flight \in Int
    BY DEF IInv, TypeOK
  <2> QED BY <2>1, OneMovesKeepsCounts DEF Refuse, Held, Waiting, Upstream
<1>2. TypeOK'
  <2>1. at' \in [Streams -> {"unopened", "queued"} \cup Held \cup Over]
    BY DEF IInv, TypeOK, Refuse, Move, Held, Waiting, Upstream, Over
  <2>2. counted' \in [Counters -> Nat]
    BY DEF IInv, TypeOK, Refuse, Raise, Counters
  <2> QED BY <2>1, <2>2 DEF IInv, TypeOK, Refuse
<1>3. UpstreamOnlyForRequests' /\ \A r \in Streams : StageOK(r)'
  BY DEF IInv, TypeOK, Refuse, Move, UpstreamOnlyForRequests, StageOK,
     Unread, Held, Waiting, Upstream, Over
<1> QED BY <1>1, <1>2, <1>3 DEF IInv

\* The handshake.
LEMMA ReadHeaderPreserves ==
    ASSUME IInv, NEW s \in Streams, ReadHeader(s)
    PROVE  IInv'
<1>1. CapacityIsKept' /\ GaugeIsHonest'
  <2>1. permits \in Int /\ in_flight \in Int
    BY DEF IInv, TypeOK
  <2> QED BY <2>1, OneMovesKeepsCounts DEF ReadHeader, Held, Waiting, Upstream
<1>2. TypeOK'
  <2>1. at' \in [Streams -> {"unopened", "queued"} \cup Held \cup Over]
    BY DEF IInv, TypeOK, ReadHeader, Move, Held, Waiting, Upstream, Over
  <2>2. counted' \in [Counters -> Nat]
    BY DEF IInv, TypeOK, ReadHeader, Raise, Counters
  <2> QED BY <2>1, <2>2 DEF IInv, TypeOK, ReadHeader
<1>3. UpstreamOnlyForRequests' /\ \A r \in Streams : StageOK(r)'
  BY DEF IInv, TypeOK, ReadHeader, Move, UpstreamOnlyForRequests, StageOK,
     Unread, Held, Waiting, Upstream, Over
<1> QED BY <1>1, <1>2, <1>3 DEF IInv

LEMMA EchoPreserves ==
    ASSUME IInv, NEW s \in Streams, Echo(s)
    PROVE  IInv'
<1>1. CapacityIsKept' /\ GaugeIsHonest'
  <2>1. permits \in Int /\ in_flight \in Int
    BY DEF IInv, TypeOK
  <2> QED BY <2>1, OneMovesKeepsCounts DEF Echo, Held, Waiting, Upstream
<1>2. TypeOK'
  <2>1. at' \in [Streams -> {"unopened", "queued"} \cup Held \cup Over]
    BY DEF IInv, TypeOK, Echo, Move, Held, Waiting, Upstream, Over
  <2>2. counted' \in [Counters -> Nat]
    BY DEF IInv, TypeOK, Echo, Raise, Counters
  <2> QED BY <2>1, <2>2 DEF IInv, TypeOK, Echo
<1>3. UpstreamOnlyForRequests' /\ \A r \in Streams : StageOK(r)'
  BY DEF IInv, TypeOK, Echo, Move, UpstreamOnlyForRequests, StageOK,
     Unread, Held, Waiting, Upstream, Over
<1> QED BY <1>1, <1>2, <1>3 DEF IInv

LEMMA RejectPreserves ==
    ASSUME IInv, NEW s \in Streams, Reject(s)
    PROVE  IInv'
<1>1. CapacityIsKept' /\ GaugeIsHonest'
  <2>1. permits \in Int /\ in_flight \in Int
    BY DEF IInv, TypeOK
  <2> QED BY <2>1, OneMovesKeepsCounts DEF Reject, Return, Held, Waiting, Upstream
<1>2. TypeOK'
  <2>1. at' \in [Streams -> {"unopened", "queued"} \cup Held \cup Over]
    BY DEF IInv, TypeOK, Reject, Return, Move, Held, Waiting, Upstream, Over
  <2>2. counted' \in [Counters -> Nat]
    BY DEF IInv, TypeOK, Reject, Return, Raise, Counters
  <2>3. permits' \in 0..MaxStreams
    <3>1. permits' \in Nat
      BY DEF IInv, TypeOK, Reject, Return
    <3> QED BY <3>1, <1>1, PermitsAreBounded
  <2>4. left' \in [Streams -> Held \cup {"none"}]
    BY DEF IInv, TypeOK, Reject, Return, Held, Waiting, Upstream, Over
  <2> QED BY <2>1, <2>2, <2>3, <2>4 DEF IInv, TypeOK, Reject, Return
<1>3. UpstreamOnlyForRequests' /\ \A r \in Streams : StageOK(r)'
  BY DEF IInv, TypeOK, Reject, Return, Move, UpstreamOnlyForRequests, StageOK,
     Unread, Held, Waiting, Upstream, Over
<1> QED BY <1>1, <1>2, <1>3 DEF IInv

\* The request and the upstream.
LEMMA ReadRequestPreserves ==
    ASSUME IInv, NEW s \in Streams, ReadRequest(s)
    PROVE  IInv'
<1>1. CapacityIsKept' /\ GaugeIsHonest'
  <2>1. permits \in Int /\ in_flight \in Int
    BY DEF IInv, TypeOK
  <2> QED BY <2>1, OneMovesKeepsCounts DEF ReadRequest, Requested, Held, Waiting, Upstream
<1>2. TypeOK'
  <2>1. at' \in [Streams -> {"unopened", "queued"} \cup Held \cup Over]
    BY DEF IInv, TypeOK, ReadRequest, Requested, Move, Held, Waiting, Upstream, Over
  <2>2. counted' \in [Counters -> Nat]
    BY DEF IInv, TypeOK, ReadRequest, Requested
  <2>3. read' \in [Streams -> 0..MaxChunks]
    BY ServeAssumption DEF IInv, TypeOK, ReadRequest, Requested
  <2> QED BY <2>1, <2>2, <2>3 DEF IInv, TypeOK, ReadRequest, Requested
<1>3. UpstreamOnlyForRequests' /\ \A r \in Streams : StageOK(r)'
  BY DEF IInv, TypeOK, ReadRequest, Requested, Move, UpstreamOnlyForRequests, StageOK,
     Unread, Held, Waiting, Upstream, Over
<1> QED BY <1>1, <1>2, <1>3 DEF IInv

LEMMA NoRequestPreserves ==
    ASSUME IInv, NEW s \in Streams, NoRequest(s)
    PROVE  IInv'
<1>1. CapacityIsKept' /\ GaugeIsHonest'
  <2>1. permits \in Int /\ in_flight \in Int
    BY DEF IInv, TypeOK
  <2> QED BY <2>1, OneMovesKeepsCounts DEF NoRequest, GivenUp, Return, Held, Waiting, Upstream
<1>2. TypeOK'
  <2>1. at' \in [Streams -> {"unopened", "queued"} \cup Held \cup Over]
    BY DEF IInv, TypeOK, NoRequest, GivenUp, Return, Move, Held, Waiting, Upstream, Over
  <2>2. counted' \in [Counters -> Nat]
    BY DEF IInv, TypeOK, NoRequest, GivenUp, Return, Raise, Counters
  <2>3. permits' \in 0..MaxStreams
    <3>1. permits' \in Nat
      BY DEF IInv, TypeOK, NoRequest, GivenUp, Return
    <3> QED BY <3>1, <1>1, PermitsAreBounded
  <2>4. left' \in [Streams -> Held \cup {"none"}]
    BY DEF IInv, TypeOK, NoRequest, GivenUp, Return, Held, Waiting, Upstream, Over
  <2> QED BY <2>1, <2>2, <2>3, <2>4 DEF IInv, TypeOK, NoRequest, GivenUp, Return
<1>3. UpstreamOnlyForRequests' /\ \A r \in Streams : StageOK(r)'
  BY DEF IInv, TypeOK, NoRequest, GivenUp, Return, Move, UpstreamOnlyForRequests, StageOK,
     Unread, Held, Waiting, Upstream, Over
<1> QED BY <1>1, <1>2, <1>3 DEF IInv

LEMMA UnreachablePreserves ==
    ASSUME IInv, NEW s \in Streams, Unreachable(s)
    PROVE  IInv'
<1>1. CapacityIsKept' /\ GaugeIsHonest'
  <2>1. permits \in Int /\ in_flight \in Int
    BY DEF IInv, TypeOK
  <2> QED BY <2>1, OneMovesKeepsCounts DEF Unreachable, Return, Held, Waiting, Upstream
<1>2. TypeOK'
  <2>1. at' \in [Streams -> {"unopened", "queued"} \cup Held \cup Over]
    BY DEF IInv, TypeOK, Unreachable, Return, Move, Held, Waiting, Upstream, Over
  <2>2. counted' \in [Counters -> Nat]
    BY DEF IInv, TypeOK, Unreachable, Return, Raise, Counters
  <2>3. permits' \in 0..MaxStreams
    <3>1. permits' \in Nat
      BY DEF IInv, TypeOK, Unreachable, Return
    <3> QED BY <3>1, <1>1, PermitsAreBounded
  <2>4. left' \in [Streams -> Held \cup {"none"}]
    BY DEF IInv, TypeOK, Unreachable, Return, Held, Waiting, Upstream, Over
  <2> QED BY <2>1, <2>2, <2>3, <2>4 DEF IInv, TypeOK, Unreachable, Return
<1>3. UpstreamOnlyForRequests' /\ \A r \in Streams : StageOK(r)'
  BY DEF IInv, TypeOK, Unreachable, Return, Move, UpstreamOnlyForRequests, StageOK,
     Unread, Held, Waiting, Upstream, Over
<1> QED BY <1>1, <1>2, <1>3 DEF IInv

LEMMA ConnectPreserves ==
    ASSUME IInv, NEW s \in Streams, Connect(s)
    PROVE  IInv'
<1>1. CapacityIsKept' /\ GaugeIsHonest'
  <2>1. permits \in Int /\ in_flight \in Int
    BY DEF IInv, TypeOK
  <2> QED BY <2>1, OneMovesKeepsCounts DEF Connect, Held, Waiting, Upstream
<1>2. TypeOK'
  <2>1. at' \in [Streams -> {"unopened", "queued"} \cup Held \cup Over]
    BY DEF IInv, TypeOK, Connect, Move, Held, Waiting, Upstream, Over
  <2>2. counted' \in [Counters -> Nat]
    BY DEF IInv, TypeOK, Connect, Raise, Counters
  <2> QED BY <2>1, <2>2 DEF IInv, TypeOK, Connect
<1>3. UpstreamOnlyForRequests' /\ \A r \in Streams : StageOK(r)'
  BY DEF IInv, TypeOK, Connect, Move, UpstreamOnlyForRequests, StageOK,
     Unread, Held, Waiting, Upstream, Over
<1> QED BY <1>1, <1>2, <1>3 DEF IInv

LEMMA WriteOpeningPreserves ==
    ASSUME IInv, NEW s \in Streams, WriteOpening(s)
    PROVE  IInv'
<1>1. CapacityIsKept' /\ GaugeIsHonest'
  <2>1. permits \in Int /\ in_flight \in Int
    BY DEF IInv, TypeOK
  <2> QED BY <2>1, OneMovesKeepsCounts DEF WriteOpening, Held, Waiting, Upstream
<1>2. TypeOK'
  <2>1. at' \in [Streams -> {"unopened", "queued"} \cup Held \cup Over]
    BY DEF IInv, TypeOK, WriteOpening, Move, Held, Waiting, Upstream, Over
  <2>2. counted' \in [Counters -> Nat]
    BY DEF IInv, TypeOK, WriteOpening
  <2>3. carried' \in [Streams -> 0..MaxChunks]
    BY ServeAssumption DEF IInv, TypeOK, StageOK, Upstream, WriteOpening
  <2> QED BY <2>1, <2>2, <2>3 DEF IInv, TypeOK, WriteOpening
<1>3. UpstreamOnlyForRequests' /\ \A r \in Streams : StageOK(r)'
  BY DEF IInv, TypeOK, WriteOpening, Move, UpstreamOnlyForRequests, StageOK,
     Unread, Held, Waiting, Upstream, Over
<1> QED BY <1>1, <1>2, <1>3 DEF IInv

LEMMA OpeningFailsPreserves ==
    ASSUME IInv, NEW s \in Streams, OpeningFails(s)
    PROVE  IInv'
<1>1. CapacityIsKept' /\ GaugeIsHonest'
  <2>1. permits \in Int /\ in_flight \in Int
    BY DEF IInv, TypeOK
  <2> QED BY <2>1, OneMovesKeepsCounts DEF OpeningFails, Return, Held, Waiting, Upstream
<1>2. TypeOK'
  <2>1. at' \in [Streams -> {"unopened", "queued"} \cup Held \cup Over]
    BY DEF IInv, TypeOK, OpeningFails, Return, Move, Held, Waiting, Upstream, Over
  <2>2. counted' \in [Counters -> Nat]
    BY DEF IInv, TypeOK, OpeningFails, Return
  <2>3. permits' \in 0..MaxStreams
    <3>1. permits' \in Nat
      BY DEF IInv, TypeOK, OpeningFails, Return
    <3> QED BY <3>1, <1>1, PermitsAreBounded
  <2>4. left' \in [Streams -> Held \cup {"none"}]
    BY DEF IInv, TypeOK, OpeningFails, Return, Held, Waiting, Upstream, Over
  <2> QED BY <2>1, <2>2, <2>3, <2>4 DEF IInv, TypeOK, OpeningFails, Return
<1>3. UpstreamOnlyForRequests' /\ \A r \in Streams : StageOK(r)'
  BY DEF IInv, TypeOK, OpeningFails, Return, Move, UpstreamOnlyForRequests, StageOK,
     Unread, Held, Waiting, Upstream, Over
<1> QED BY <1>1, <1>2, <1>3 DEF IInv

\* A chunk is carried: nothing is held or let go.
LEMMA CarryPreserves ==
    ASSUME IInv, NEW s \in Streams, Carry(s)
    PROVE  IInv'
<1>1. CapacityIsKept' /\ GaugeIsHonest'
  BY DEF IInv, Carry, CapacityIsKept, GaugeIsHonest, In
<1>2. transfer[s] <= carried[s] /\ carried[s] <= read[s] /\ read[s] < sent[s]
  BY DEF IInv, UpstreamOnlyForRequests, StageOK, Carry
<1>3. TypeOK'
  BY <1>2, ServeAssumption DEF IInv, TypeOK, Carry
<1>4. UpstreamOnlyForRequests' /\ \A r \in Streams : StageOK(r)'
  BY <1>2 DEF IInv, TypeOK, Carry, UpstreamOnlyForRequests, StageOK, Unread, Waiting, Upstream
<1> QED BY <1>1, <1>3, <1>4 DEF IInv

LEMMA FinishPreserves ==
    ASSUME IInv, NEW s \in Streams, Finish(s)
    PROVE  IInv'
<1>1. CapacityIsKept' /\ GaugeIsHonest'
  <2>1. permits \in Int /\ in_flight \in Int
    BY DEF IInv, TypeOK
  <2> QED BY <2>1, OneMovesKeepsCounts DEF Finish, GuardDropped, Return, Held, Waiting, Upstream
<1>2. TypeOK'
  <2>1. at' \in [Streams -> {"unopened", "queued"} \cup Held \cup Over]
    BY DEF IInv, TypeOK, Finish, GuardDropped, Return, Move, Held, Waiting, Upstream, Over
  <2>2. counted' \in [Counters -> Nat]
    BY DEF IInv, TypeOK, Finish, GuardDropped, Return, Raise, Counters
  <2>3. permits' \in 0..MaxStreams
    <3>1. permits' \in Nat
      BY DEF IInv, TypeOK, Finish, GuardDropped, Return
    <3> QED BY <3>1, <1>1, PermitsAreBounded
  <2>4. left' \in [Streams -> Held \cup {"none"}]
    BY DEF IInv, TypeOK, Finish, GuardDropped, Return, Held, Waiting, Upstream, Over
  <2> QED BY <2>1, <2>2, <2>3, <2>4 DEF IInv, TypeOK, Finish, GuardDropped, Return
<1>3. UpstreamOnlyForRequests' /\ \A r \in Streams : StageOK(r)'
  BY DEF IInv, TypeOK, Finish, GuardDropped, Return, Move, UpstreamOnlyForRequests, StageOK,
     Unread, Held, Waiting, Upstream, Over
<1> QED BY <1>1, <1>2, <1>3 DEF IInv

\* The shutdown.
LEMMA ShutdownPreserves == IInv /\ Shutdown => IInv'
BY DEF IInv, TypeOK, Shutdown, CapacityIsKept, GaugeIsHonest, In, UpstreamOnlyForRequests, StageOK

LEMMA GraceRunsOutPreserves == IInv /\ GraceRunsOut => IInv'
BY DEF IInv, TypeOK, GraceRunsOut, CapacityIsKept, GaugeIsHonest, In, UpstreamOnlyForRequests, StageOK

LEMMA StopPreserves ==
    ASSUME IInv, Stop
    PROVE  IInv'
<1>1. /\ at' = [s \in Streams |-> IF at[s] \in Held THEN "aborted" ELSE at[s]]
      /\ permits' = permits + Cardinality(In(Held))
      /\ in_flight' = in_flight - Cardinality(In(Upstream))
  BY DEF Stop
<1>2. In(Held)' = {} /\ In(Upstream)' = {}
  BY <1>1 DEF In, Held, Waiting, Upstream
<1>3. Cardinality(In(Held)) \in Nat /\ Cardinality(In(Upstream)) \in Nat
  BY InIsFinite
<1>4. CapacityIsKept' /\ GaugeIsHonest'
  <2>1. permits \in Int /\ in_flight \in Int /\ MaxStreams \in Nat
    BY ServeAssumption DEF IInv, TypeOK
  <2> QED BY <1>1, <1>2, <1>3, <2>1, FS_EmptySet DEF IInv, CapacityIsKept, GaugeIsHonest
<1>5. TypeOK'
  <2>1. at' \in [Streams -> {"unopened", "queued"} \cup Held \cup Over]
    BY <1>1 DEF IInv, TypeOK, Over
  <2>2. left' \in [Streams -> Held \cup {"none"}]
    BY DEF IInv, TypeOK, Stop
  <2>3. permits' \in 0..MaxStreams
    <3>1. permits' \in Nat
      BY <1>1, <1>3 DEF IInv, TypeOK
    <3> QED BY <3>1, <1>4, PermitsAreBounded
  <2>4. in_flight' \in Int
    BY <1>1, <1>3 DEF IInv, TypeOK
  <2> QED BY <2>1, <2>2, <2>3, <2>4 DEF IInv, TypeOK, Stop
<1>6. UpstreamOnlyForRequests' /\ \A r \in Streams : StageOK(r)'
  BY DEF IInv, TypeOK, Stop, UpstreamOnlyForRequests, StageOK, Unread, Held, Waiting, Upstream, Over
<1> QED BY <1>4, <1>5, <1>6 DEF IInv

LEMMA NextPreserves == IInv /\ [Next]_vars => IInv'
<1> SUFFICES ASSUME IInv, [Next]_vars PROVE IInv'
  OBVIOUS
<1>1. ASSUME NEW s \in Streams, Serving(s) PROVE IInv'
  BY <1>1, ReadHeaderPreserves, EchoPreserves, RejectPreserves, ReadRequestPreserves,
     NoRequestPreserves, UnreachablePreserves, ConnectPreserves, WriteOpeningPreserves,
     OpeningFailsPreserves, CarryPreserves, FinishPreserves DEF Serving
<1>2. CASE UNCHANGED vars
  BY <1>2 DEF vars, IInv, TypeOK, CapacityIsKept, GaugeIsHonest, In, UpstreamOnlyForRequests, StageOK
<1> QED BY <1>1, <1>2, DialPreserves, IntroducePreserves, SendPreserves, AdmitPreserves,
           RefusePreserves, ShutdownPreserves, GraceRunsOutPreserves, StopPreserves DEF Next

-----------------------------------------------------------------------------
(* The theorems. *)

LEMMA Invariance == Spec => []IInv
<1> QED BY InitEstablishes, NextPreserves, PTL DEF Spec

\* Every variable stays within its type, for any number of streams and any cap.
THEOREM TypeCorrect == Spec => []TypeOK
<1>1. IInv => TypeOK
  BY DEF IInv
<1> QED BY <1>1, Invariance, PTL

\* No permit is lost and none is given twice: at most MaxStreams streams are ever held.
THEOREM CapacityKept == Spec => []CapacityIsKept
<1>1. IInv => CapacityIsKept
  BY DEF IInv
<1> QED BY <1>1, Invariance, PTL

\* The in-flight gauge is the number of streams connected to the upstream.
THEOREM GaugeHonest == Spec => []GaugeIsHonest
<1>1. IInv => GaugeIsHonest
  BY DEF IInv
<1> QED BY <1>1, Invariance, PTL

\* The upstream is only touched for streams that introduced themselves and carried a request.
THEOREM UpstreamGuarded == Spec => []UpstreamOnlyForRequests
<1>1. IInv => UpstreamOnlyForRequests
  BY DEF IInv
<1> QED BY <1>1, Invariance, PTL

-----------------------------------------------------------------------------
(* The counters of `serve`. *)

\* Where a stream is in `serve`, or was when the drain aborted it.
InStage(s, stages) == at[s] \in stages \/ (at[s] = "aborted" /\ left[s] \in stages)

Known == {s \in Streams : at[s] \notin {"unopened", "queued"}}
Shaking == {s \in Streams : InStage(s, {"handshaking", "echoing"})}
Asking == {s \in Streams : InStage(s, {"awaiting", "connecting"})}
Carrying == {s \in Streams : InStage(s, Upstream)}
Unwritten == {s \in Streams : at[s] = "gone" /\ left[s] = "opening"}

CountsInv ==
    /\ counted.over_capacity + counted.rejected + counted.accepted + Cardinality(Shaking)
           = Cardinality(Known)
    /\ counted.without_request + counted.upstream_failures + counted.upstream_connections
           + Cardinality(Asking) = counted.accepted
    /\ counted.ended + Cardinality(Carrying) + Cardinality(Unwritten)
           = counted.upstream_connections

\* One stream's move from a place to the next, and the counter it raises.
Moves == {
    <<"unopened", "queued", "none">>,
    <<"queued", "handshaking", "none">>, <<"queued", "dropped", "over_capacity">>,
    <<"handshaking", "echoing", "none">>, <<"handshaking", "awaiting", "accepted">>,
    <<"echoing", "awaiting", "accepted">>,
    <<"handshaking", "gone", "rejected">>, <<"echoing", "gone", "rejected">>,
    <<"awaiting", "connecting", "none">>, <<"awaiting", "gone", "without_request">>,
    <<"connecting", "gone", "upstream_failures">>,
    <<"connecting", "opening", "upstream_connections">>,
    <<"opening", "splicing", "none">>, <<"opening", "gone", "none">>,
    <<"splicing", "gone", "ended">> }

One(b) == IF b THEN 1 ELSE 0

CountedMove(s, to, raised) ==
    /\ Move(s, to)
    /\ <<at[s], to, raised>> \in Moves
    /\ left' = left \/ left' = [left EXCEPT ![s] = at[s]]
    /\ to = "gone" => left'[s] = at[s]
    /\ \A c \in Counters \ {"from_mixnet"} : counted'[c] = counted[c] + One(c = raised)

LEMMA OneDiffers ==
    ASSUME NEW S \in SUBSET Streams, NEW T \in SUBSET Streams, NEW x,
           \A y \in Streams : y # x => (y \in T <=> y \in S)
    PROVE  /\ Cardinality(S) \in Nat /\ Cardinality(T) \in Nat
           /\ Cardinality(T) = Cardinality(S) + One(x \in T) - One(x \in S)
<1>1. IsFiniteSet(S) /\ IsFiniteSet(T) /\ Cardinality(S) \in Nat /\ Cardinality(T) \in Nat
  BY ServeAssumption, FS_Subset, FS_CardinalityType
<1>2. CASE x \in T <=> x \in S
  <2>1. T = S
    BY <1>2
  <2> QED BY <1>1, <1>2, <2>1 DEF One
<1>3. CASE x \in T /\ x \notin S
  <2>1. T = S \cup {x}
    BY <1>3
  <2>2. Cardinality(T) = Cardinality(S) + 1
    BY <1>1, <1>3, <2>1, FS_AddElement
  <2> QED BY <1>1, <1>3, <2>2 DEF One
<1>4. CASE x \notin T /\ x \in S
  <2>1. T = S \ {x}
    BY <1>4
  <2>2. Cardinality(T) = Cardinality(S) - 1
    BY <1>1, <1>4, <2>1, FS_RemoveElement
  <2> QED BY <1>1, <1>4, <2>2 DEF One
<1> QED BY <1>2, <1>3, <1>4

LEMMA OneMoveKeepsCounts ==
    ASSUME IInv, CountsInv, NEW s \in Streams, NEW to, NEW raised, CountedMove(s, to, raised)
    PROVE  CountsInv'
<1>1. at \in [Streams -> {"unopened", "queued"} \cup Held \cup Over] /\ DOMAIN left = Streams
  BY DEF IInv, TypeOK
<1>2. \A c \in Counters : counted[c] \in Nat
  BY DEF IInv, TypeOK
<1>3. at'[s] = to /\ \A r \in Streams : r # s => (at'[r] = at[r] /\ left'[r] = left[r])
  BY <1>1 DEF CountedMove, Move
<1> DEFINE dKnown == One(s \in Known') - One(s \in Known)
           dShaking == One(s \in Shaking') - One(s \in Shaking)
           dAsking == One(s \in Asking') - One(s \in Asking)
           dCarrying == One(s \in Carrying') - One(s \in Carrying)
           dUnwritten == One(s \in Unwritten') - One(s \in Unwritten)
<1>4. /\ Cardinality(Known) \in Nat
      /\ Cardinality(Known') = Cardinality(Known) + dKnown
      /\ dKnown \in Int
  <2>1. Known \in SUBSET Streams /\ Known' \in SUBSET Streams
    BY DEF Known
  <2>2. \A y \in Streams : y # s => (y \in Known' <=> y \in Known)
    BY <1>3 DEF Known
  <2>3. /\ Cardinality(Known) \in Nat /\ Cardinality(Known') \in Nat
        /\ Cardinality(Known') = Cardinality(Known) + One(s \in Known') - One(s \in Known)
    BY <2>1, <2>2, OneDiffers
  <2> QED BY <2>3 DEF One
<1>5. /\ Cardinality(Shaking) \in Nat
      /\ Cardinality(Shaking') = Cardinality(Shaking) + dShaking
      /\ dShaking \in Int
  <2>1. Shaking \in SUBSET Streams /\ Shaking' \in SUBSET Streams
    BY DEF Shaking
  <2>2. \A y \in Streams : y # s => (y \in Shaking' <=> y \in Shaking)
    BY <1>3 DEF Shaking, InStage
  <2>3. /\ Cardinality(Shaking) \in Nat /\ Cardinality(Shaking') \in Nat
        /\ Cardinality(Shaking') = Cardinality(Shaking) + One(s \in Shaking') - One(s \in Shaking)
    BY <2>1, <2>2, OneDiffers
  <2> QED BY <2>3 DEF One
<1>6. /\ Cardinality(Asking) \in Nat
      /\ Cardinality(Asking') = Cardinality(Asking) + dAsking
      /\ dAsking \in Int
  <2>1. Asking \in SUBSET Streams /\ Asking' \in SUBSET Streams
    BY DEF Asking
  <2>2. \A y \in Streams : y # s => (y \in Asking' <=> y \in Asking)
    BY <1>3 DEF Asking, InStage
  <2>3. /\ Cardinality(Asking) \in Nat /\ Cardinality(Asking') \in Nat
        /\ Cardinality(Asking') = Cardinality(Asking) + One(s \in Asking') - One(s \in Asking)
    BY <2>1, <2>2, OneDiffers
  <2> QED BY <2>3 DEF One
<1>7. /\ Cardinality(Carrying) \in Nat
      /\ Cardinality(Carrying') = Cardinality(Carrying) + dCarrying
      /\ dCarrying \in Int
  <2>1. Carrying \in SUBSET Streams /\ Carrying' \in SUBSET Streams
    BY DEF Carrying
  <2>2. \A y \in Streams : y # s => (y \in Carrying' <=> y \in Carrying)
    BY <1>3 DEF Carrying, InStage
  <2>3. /\ Cardinality(Carrying) \in Nat /\ Cardinality(Carrying') \in Nat
        /\ Cardinality(Carrying') = Cardinality(Carrying) + One(s \in Carrying') - One(s \in Carrying)
    BY <2>1, <2>2, OneDiffers
  <2> QED BY <2>3 DEF One
<1>8. /\ Cardinality(Unwritten) \in Nat
      /\ Cardinality(Unwritten') = Cardinality(Unwritten) + dUnwritten
      /\ dUnwritten \in Int
  <2>1. Unwritten \in SUBSET Streams /\ Unwritten' \in SUBSET Streams
    BY DEF Unwritten
  <2>2. \A y \in Streams : y # s => (y \in Unwritten' <=> y \in Unwritten)
    BY <1>3 DEF Unwritten
  <2>3. /\ Cardinality(Unwritten) \in Nat /\ Cardinality(Unwritten') \in Nat
        /\ Cardinality(Unwritten') = Cardinality(Unwritten) + One(s \in Unwritten') - One(s \in Unwritten)
    BY <2>1, <2>2, OneDiffers
  <2> QED BY <2>3 DEF One
<1>9. /\ s \in Known' <=> to \notin {"unopened", "queued"}
      /\ s \in Known <=> at[s] \notin {"unopened", "queued"}
      /\ s \in Shaking' <=> to \in {"handshaking", "echoing"}
      /\ s \in Shaking <=> at[s] \in {"handshaking", "echoing"}
      /\ s \in Asking' <=> to \in {"awaiting", "connecting"}
      /\ s \in Asking <=> at[s] \in {"awaiting", "connecting"}
      /\ s \in Carrying' <=> to \in Upstream
      /\ s \in Carrying <=> at[s] \in Upstream
      /\ s \in Unwritten' <=> to = "gone" /\ at[s] = "opening"
      /\ s \notin Unwritten
  <2>1. at[s] \notin {"gone", "aborted"} /\ to # "aborted" /\ (to = "gone" => left'[s] = at[s])
    BY DEF CountedMove, Moves
  <2> QED BY <1>3, <2>1 DEF Known, Shaking, Asking, Carrying, Unwritten, InStage
<1>10. /\ counted'.over_capacity = counted.over_capacity + One(raised = "over_capacity")
       /\ counted'.rejected = counted.rejected + One(raised = "rejected")
       /\ counted'.accepted = counted.accepted + One(raised = "accepted")
       /\ counted'.without_request = counted.without_request + One(raised = "without_request")
       /\ counted'.upstream_failures = counted.upstream_failures + One(raised = "upstream_failures")
       /\ counted'.upstream_connections =
              counted.upstream_connections + One(raised = "upstream_connections")
       /\ counted'.ended = counted.ended + One(raised = "ended")
  BY DEF CountedMove, Counters, One
<1>11. /\ counted.over_capacity \in Nat /\ counted.rejected \in Nat /\ counted.accepted \in Nat
       /\ counted.without_request \in Nat /\ counted.upstream_failures \in Nat
       /\ counted.upstream_connections \in Nat /\ counted.ended \in Nat
  BY <1>2 DEF Counters
<1>12. /\ One(raised = "over_capacity") + One(raised = "rejected") + One(raised = "accepted")
              + dShaking = dKnown
       /\ One(raised = "without_request") + One(raised = "upstream_failures")
              + One(raised = "upstream_connections") + dAsking = One(raised = "accepted")
       /\ One(raised = "ended") + dCarrying + dUnwritten = One(raised = "upstream_connections")
  BY <1>9 DEF CountedMove, Moves, One, Upstream
<1>13. \A b : One(b) \in Int
  BY DEF One
<1> HIDE DEF dKnown, dShaking, dAsking, dCarrying, dUnwritten
<1>14. counted'.over_capacity + counted'.rejected + counted'.accepted + Cardinality(Shaking')
           = Cardinality(Known')
  BY <1>4, <1>5, <1>10, <1>11, <1>12, <1>13 DEF CountsInv
<1>15. counted'.without_request + counted'.upstream_failures + counted'.upstream_connections
           + Cardinality(Asking') = counted'.accepted
  BY <1>6, <1>10, <1>11, <1>12, <1>13 DEF CountsInv
<1>16. counted'.ended + Cardinality(Carrying') + Cardinality(Unwritten')
           = counted'.upstream_connections
  BY <1>7, <1>8, <1>10, <1>11, <1>12, <1>13 DEF CountsInv
<1> QED BY <1>14, <1>15, <1>16 DEF CountsInv

LEMMA RaiseCounts ==
    ASSUME IInv, NEW name \in Counters \ {"from_mixnet"}, Raise(name)
    PROVE  \A c \in Counters \ {"from_mixnet"} : counted'[c] = counted[c] + One(c = name)
<1>1. counted \in [Counters -> Nat]
  BY DEF IInv, TypeOK
<1> QED BY <1>1 DEF Raise, One

LEMMA UncountedCounts ==
    ASSUME IInv, counted' = counted
    PROVE  \A c \in Counters \ {"from_mixnet"} : counted'[c] = counted[c] + One(c = "none")
<1>1. counted \in [Counters -> Nat]
  BY DEF IInv, TypeOK
<1>2. \A c \in Counters : c # "none"
  BY DEF Counters
<1> QED BY <1>1, <1>2 DEF One

LEMMA ReturnMoves ==
    ASSUME IInv, NEW s \in Streams, Return(s)
    PROVE  Move(s, "gone") /\ left' = [left EXCEPT ![s] = at[s]] /\ left'[s] = at[s]
<1>1. left \in [Streams -> Held \cup {"none"}]
  BY DEF IInv, TypeOK
<1> QED BY <1>1 DEF Return

LEMMA ArrivalsAreCounted ==
    ASSUME IInv, NEW s \in Streams, Dial(s) \/ Admit(s) \/ Refuse(s)
    PROVE  \E to, raised : CountedMove(s, to, raised)
<1>1. CASE Dial(s)
  <2>1. CountedMove(s, "queued", "none")
    BY <1>1, UncountedCounts DEF Dial, CountedMove, Moves
  <2> QED BY <2>1
<1>2. CASE Admit(s)
  <2>1. CountedMove(s, "handshaking", "none")
    BY <1>2, UncountedCounts DEF Admit, CountedMove, Moves
  <2> QED BY <2>1
<1>3. CASE Refuse(s)
  <2>1. "over_capacity" \in Counters \ {"from_mixnet"}
    BY DEF Counters
  <2>2. \A c \in Counters \ {"from_mixnet"} : counted'[c] = counted[c] + One(c = "over_capacity")
    BY <1>3, <2>1, RaiseCounts DEF Refuse
  <2>3. CountedMove(s, "dropped", "over_capacity")
    BY <1>3, <2>2 DEF Refuse, CountedMove, Moves
  <2> QED BY <2>3
<1> QED BY <1>1, <1>2, <1>3

LEMMA HandshakesAreCounted ==
    ASSUME IInv, NEW s \in Streams, ReadHeader(s) \/ Echo(s) \/ Reject(s)
    PROVE  \E to, raised : CountedMove(s, to, raised)
<1>1. {"accepted", "rejected"} \subseteq Counters \ {"from_mixnet"}
  BY DEF Counters
<1>2. CASE ReadHeader(s) /\ header[s] = "probe"
  <2>1. CountedMove(s, "echoing", "none")
    BY <1>2, UncountedCounts DEF ReadHeader, CountedMove, Moves
  <2> QED BY <2>1
<1>3. ASSUME at[s] \in {"handshaking", "echoing"}, Move(s, "awaiting"), Raise("accepted"),
             left' = left
      PROVE  CountedMove(s, "awaiting", "accepted")
  <2>1. \A c \in Counters \ {"from_mixnet"} : counted'[c] = counted[c] + One(c = "accepted")
    BY <1>1, <1>3, RaiseCounts
  <2> QED BY <1>3, <2>1 DEF CountedMove, Moves
<1>4. CASE ReadHeader(s) /\ header[s] # "probe"
  BY <1>3, <1>4 DEF ReadHeader
<1>5. CASE Echo(s)
  BY <1>3, <1>5 DEF Echo
<1>6. CASE Reject(s)
  <2>1. at[s] \in {"handshaking", "echoing"} /\ Return(s) /\ Raise("rejected")
    BY <1>6 DEF Reject
  <2>2. \A c \in Counters \ {"from_mixnet"} : counted'[c] = counted[c] + One(c = "rejected")
    BY <1>1, <2>1, RaiseCounts
  <2>3. CountedMove(s, "gone", "rejected")
    BY <2>1, <2>2, ReturnMoves DEF CountedMove, Moves
  <2> QED BY <2>3
<1> QED BY <1>2, <1>4, <1>5, <1>6

LEMMA RequestsAreCounted ==
    ASSUME IInv, NEW s \in Streams,
           ReadRequest(s) \/ NoRequest(s) \/ Unreachable(s) \/ Connect(s)
    PROVE  \E to, raised : CountedMove(s, to, raised)
<1>1. {"without_request", "upstream_failures", "upstream_connections"}
          \subseteq Counters \ {"from_mixnet"}
  BY DEF Counters
<1>2. CASE ReadRequest(s)
  <2>1. CountedMove(s, "connecting", "none")
    BY <1>2, UncountedCounts DEF ReadRequest, Requested, CountedMove, Moves
  <2> QED BY <2>1
<1>3. CASE NoRequest(s)
  <2>1. at[s] = "awaiting" /\ Return(s) /\ Raise("without_request")
    BY <1>3 DEF NoRequest, GivenUp
  <2>2. \A c \in Counters \ {"from_mixnet"} :
            counted'[c] = counted[c] + One(c = "without_request")
    BY <1>1, <2>1, RaiseCounts
  <2>3. CountedMove(s, "gone", "without_request")
    BY <2>1, <2>2, ReturnMoves DEF CountedMove, Moves
  <2> QED BY <2>3
<1>4. CASE Unreachable(s)
  <2>1. at[s] = "connecting" /\ Return(s) /\ Raise("upstream_failures")
    BY <1>4 DEF Unreachable
  <2>2. \A c \in Counters \ {"from_mixnet"} :
            counted'[c] = counted[c] + One(c = "upstream_failures")
    BY <1>1, <2>1, RaiseCounts
  <2>3. CountedMove(s, "gone", "upstream_failures")
    BY <2>1, <2>2, ReturnMoves DEF CountedMove, Moves
  <2> QED BY <2>3
<1>5. CASE Connect(s)
  <2>1. at[s] = "connecting" /\ Move(s, "opening") /\ Raise("upstream_connections") /\ left' = left
    BY <1>5 DEF Connect
  <2>2. \A c \in Counters \ {"from_mixnet"} :
            counted'[c] = counted[c] + One(c = "upstream_connections")
    BY <1>1, <2>1, RaiseCounts
  <2>3. CountedMove(s, "opening", "upstream_connections")
    BY <2>1, <2>2 DEF CountedMove, Moves
  <2> QED BY <2>3
<1> QED BY <1>2, <1>3, <1>4, <1>5

LEMMA SplicesAreCounted ==
    ASSUME IInv, NEW s \in Streams, WriteOpening(s) \/ OpeningFails(s) \/ Finish(s)
    PROVE  \E to, raised : CountedMove(s, to, raised)
<1>1. CASE WriteOpening(s)
  <2>1. CountedMove(s, "splicing", "none")
    BY <1>1, UncountedCounts DEF WriteOpening, CountedMove, Moves
  <2> QED BY <2>1
<1>2. CASE OpeningFails(s)
  <2>1. at[s] = "opening" /\ Return(s) /\ counted' = counted
    BY <1>2 DEF OpeningFails
  <2>2. CountedMove(s, "gone", "none")
    BY <2>1, ReturnMoves, UncountedCounts DEF CountedMove, Moves
  <2> QED BY <2>2
<1>3. CASE Finish(s)
  <2>1. at[s] = "splicing" /\ Return(s)
    BY <1>3 DEF Finish
  <2>2. counted \in [Counters -> Nat]
    BY DEF IInv, TypeOK
  <2>3. \A c \in Counters \ {"from_mixnet"} : counted'[c] = counted[c] + One(c = "ended")
    BY <1>3, <2>2 DEF Finish, One, Counters
  <2>4. CountedMove(s, "gone", "ended")
    BY <2>1, <2>3, ReturnMoves DEF CountedMove, Moves
  <2> QED BY <2>4
<1> QED BY <1>1, <1>2, <1>3

\* A step that moves no stream and raises none of the counters that are added up.
LEMMA UnmovedKeepsCounts ==
    ASSUME CountsInv, at' = at, left' = left, counted' = counted
    PROVE  CountsInv'
<1>1. Known' = Known /\ Shaking' = Shaking /\ Asking' = Asking /\ Carrying' = Carrying
      /\ Unwritten' = Unwritten
  BY DEF Known, Shaking, Asking, Carrying, Unwritten, InStage
<1> QED BY <1>1 DEF CountsInv

\* The drain aborts every stream that is held, each from where it was.
LEMMA StopKeepsCounts ==
    ASSUME IInv, CountsInv, Stop
    PROVE  CountsInv'
<1>1. \A s \in Streams : /\ at'[s] = IF at[s] \in Held THEN "aborted" ELSE at[s]
                         /\ left'[s] = IF at[s] \in Held THEN at[s] ELSE left[s]
  BY DEF Stop
<1>2. \A s \in Streams : at[s] \in {"unopened", "queued"} \cup Held \cup Over
  BY DEF IInv, TypeOK
<1>3. Known' = Known
  BY <1>1, <1>2 DEF Known, Held, Waiting, Upstream, Over
<1>4. Shaking' = Shaking
  BY <1>1, <1>2 DEF Shaking, InStage, Held, Waiting, Upstream, Over
<1>5. Asking' = Asking
  BY <1>1, <1>2 DEF Asking, InStage, Held, Waiting, Upstream, Over
<1>6. Carrying' = Carrying
  BY <1>1, <1>2 DEF Carrying, InStage, Held, Waiting, Upstream, Over
<1>7. Unwritten' = Unwritten
  BY <1>1, <1>2 DEF Unwritten, Held, Waiting, Upstream, Over
<1>8. counted' = counted
  BY DEF Stop
<1> QED BY <1>3, <1>4, <1>5, <1>6, <1>7, <1>8 DEF CountsInv

LEMMA CountsInvariance == Spec => []CountsInv
<1>1. Init => CountsInv
  <2>1. Init => /\ Known = {} /\ Shaking = {} /\ Asking = {} /\ Carrying = {} /\ Unwritten = {}
    BY DEF Init, Known, Shaking, Asking, Carrying, Unwritten, InStage, Upstream
  <2>2. Init => /\ counted.over_capacity = 0 /\ counted.rejected = 0 /\ counted.accepted = 0
                /\ counted.without_request = 0 /\ counted.upstream_failures = 0
                /\ counted.upstream_connections = 0 /\ counted.ended = 0
    BY DEF Init, Counters
  <2> QED BY <2>1, <2>2, FS_EmptySet DEF CountsInv
<1>2. IInv /\ CountsInv /\ [Next]_vars => CountsInv'
  <2> SUFFICES ASSUME IInv, CountsInv, [Next]_vars
               PROVE  CountsInv'
    OBVIOUS
  <2>1. ASSUME NEW s \in Streams, \E to, raised : CountedMove(s, to, raised)
        PROVE  CountsInv'
    BY <2>1, OneMoveKeepsCounts
  <2>2. ASSUME NEW s \in Streams, Dial(s) \/ Admit(s) \/ Refuse(s)
        PROVE  CountsInv'
    BY <2>1, <2>2, ArrivalsAreCounted
  <2>3. ASSUME NEW s \in Streams, Send(s) \/ \E what \in {"probe", "announce", "foreign"} :
                                                Introduce(s, what)
        PROVE  CountsInv'
    BY <2>3, UnmovedKeepsCounts DEF Send, Introduce
  <2>4. ASSUME NEW s \in Streams, Serving(s)
        PROVE  CountsInv'
    <3>1. CASE ReadHeader(s) \/ Echo(s) \/ Reject(s)
      BY <2>1, <3>1, HandshakesAreCounted
    <3>2. CASE ReadRequest(s) \/ NoRequest(s) \/ Unreachable(s) \/ Connect(s)
      BY <2>1, <3>2, RequestsAreCounted
    <3>3. CASE WriteOpening(s) \/ OpeningFails(s) \/ Finish(s)
      BY <2>1, <3>3, SplicesAreCounted
    <3>4. CASE Carry(s)
      BY <3>4, UnmovedKeepsCounts DEF Carry
    <3> QED BY <2>4, <3>1, <3>2, <3>3, <3>4 DEF Serving
  <2>5. CASE Shutdown
    BY <2>5, UnmovedKeepsCounts DEF Shutdown
  <2>6. CASE Stop
    BY <2>6, StopKeepsCounts
  <2>8. CASE GraceRunsOut
    BY <2>8, UnmovedKeepsCounts DEF GraceRunsOut
  <2>7. CASE UNCHANGED vars
    BY <2>7, UnmovedKeepsCounts DEF vars
  <2> QED BY <2>2, <2>3, <2>4, <2>5, <2>6, <2>7, <2>8 DEF Next
<1> QED BY <1>1, <1>2, Invariance, PTL DEF Spec

\* The streams in a stage are the ones held there and the ones aborted there.
LEMMA StageSplits ==
    ASSUME NEW stages, "aborted" \notin stages
    PROVE  /\ Cardinality({s \in Streams : InStage(s, stages)}) =
                  Cardinality(In(stages)) + Aborted(stages)
           /\ Cardinality(In(stages)) \in Nat /\ Aborted(stages) \in Nat
<1> DEFINE held == In(stages)
           aborted == {s \in In({"aborted"}) : left[s] \in stages}
           all == {s \in Streams : InStage(s, stages)}
<1>1. held \in SUBSET Streams /\ aborted \in SUBSET Streams
  BY DEF In
<1>2. IsFiniteSet(held) /\ IsFiniteSet(aborted)
  BY <1>1, ServeAssumption, FS_Subset
<1>3. held \cap aborted = {}
  BY DEF In
<1>4. all = held \cup aborted
  BY DEF In, InStage
<1>5. Cardinality(held \cup aborted)
          = Cardinality(held) + Cardinality(aborted) - Cardinality(held \cap aborted)
  BY <1>2, FS_Union
<1>6. Cardinality(held) \in Nat /\ Cardinality(aborted) \in Nat /\ Cardinality({}) = 0
  BY <1>2, FS_CardinalityType, FS_EmptySet
<1>7. Cardinality(all) = Cardinality(held) + Cardinality(aborted)
  <2> HIDE DEF held, aborted, all
  <2>1. Cardinality(all) = Cardinality(held) + Cardinality(aborted) - Cardinality(held \cap aborted)
    BY <1>4, <1>5
  <2>2. Cardinality(held \cap aborted) = 0
    BY <1>3, <1>6
  <2> QED BY <1>6, <2>1, <2>2
<1> QED BY <1>6, <1>7 DEF Aborted

\* The counters of each stage add up to those of the stage before: no stream the listener was handed
\* is counted twice or escapes the counts, however many there are and wherever the drain meets them.
THEOREM StagesAddUp == Spec => []CountersAddUp
<1>1. IInv /\ CountsInv => CountersAddUp
  <2> SUFFICES ASSUME IInv, CountsInv
               PROVE  CountersAddUp
    OBVIOUS
  <2>1. Known = Streams \ In({"unopened", "queued"})
    BY DEF Known, In
  <2>2. /\ Cardinality(Shaking) = Cardinality(In({"handshaking", "echoing"}))
                                      + Aborted({"handshaking", "echoing"})
        /\ Cardinality(In({"handshaking", "echoing"})) \in Nat
        /\ Aborted({"handshaking", "echoing"}) \in Nat
    BY StageSplits DEF Shaking
  <2>3. /\ Cardinality(Asking) = Cardinality(In({"awaiting", "connecting"}))
                                     + Aborted({"awaiting", "connecting"})
        /\ Cardinality(In({"awaiting", "connecting"})) \in Nat
        /\ Aborted({"awaiting", "connecting"}) \in Nat
    BY StageSplits DEF Asking
  <2>4. /\ Cardinality(Carrying) = Cardinality(In(Upstream)) + Aborted(Upstream)
        /\ Cardinality(In(Upstream)) \in Nat /\ Aborted(Upstream) \in Nat
    <3>1. "aborted" \notin Upstream
      BY DEF Upstream
    <3> QED BY <3>1, StageSplits DEF Carrying
  <2>5. in_flight = Cardinality(In(Upstream))
    BY DEF IInv, GaugeIsHonest
  <2>6. Unwritten = {s \in In({"gone"}) : left[s] = "opening"}
    BY DEF Unwritten, In
  <2>7. /\ counted.over_capacity \in Nat /\ counted.rejected \in Nat /\ counted.accepted \in Nat
        /\ counted.without_request \in Nat /\ counted.upstream_failures \in Nat
        /\ counted.upstream_connections \in Nat /\ counted.ended \in Nat
    BY DEF IInv, TypeOK, Counters
  <2>8. /\ Cardinality(Unwritten) \in Nat
    <3>1. IsFiniteSet(Unwritten)
      BY ServeAssumption, FS_Subset DEF Unwritten
    <3> QED BY <3>1, FS_CardinalityType
  <2>9. counted.over_capacity + counted.rejected + counted.accepted
           + Cardinality(In({"handshaking", "echoing"})) + Aborted({"handshaking", "echoing"})
         = Cardinality(Streams \ In({"unopened", "queued"}))
    BY <2>1, <2>2, <2>7 DEF CountsInv
  <2>10. counted.without_request + counted.upstream_failures + counted.upstream_connections
           + Cardinality(In({"awaiting", "connecting"})) + Aborted({"awaiting", "connecting"})
         = counted.accepted
    BY <2>3, <2>7 DEF CountsInv
  <2>11. counted.ended + in_flight + Aborted(Upstream)
           + Cardinality({s \in In({"gone"}) : left[s] = "opening"})
         = counted.upstream_connections
    BY <2>4, <2>5, <2>6, <2>7, <2>8 DEF CountsInv
  <2> QED BY <2>9, <2>10, <2>11 DEF CountersAddUp
<1> QED BY <1>1, Invariance, CountsInvariance, PTL

=============================================================================
