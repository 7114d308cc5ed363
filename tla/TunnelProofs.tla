---------------------------- MODULE TunnelProofs ----------------------------
(***************************************************************************)
(* What a wallet connection keeps over a mixnet that loses, delays and     *)
(* reorders, for any number of streams tried, of requests and of chunks:   *)
(* the probe hands the wallet's bytes to a whole stream, the upstream      *)
(* hears of that stream alone, and the two halves together are an ordinary *)
(* connection that may end (module Conduit).                               *)
(***************************************************************************)
EXTENDS Tunnel, SequenceTheorems, TLAPS

-----------------------------------------------------------------------------
(* The inductive invariant. *)

Unanswered == {"unknown", "handshaking"}

TypeOK ==
    /\ probed \in BOOLEAN
    /\ carry \in {"dialling", "probing", "carrying", "closed"}
    /\ cur \in 0..Attempts
    /\ asked \in Nat /\ forwarded \in 0..asked
    /\ got \in Seq(Nat)
    /\ opens \in [Streams -> {"unsent", "sent", "arrived"}]
    /\ uplink \in [Streams -> Seq(Nat)]
    /\ deaf \subseteq Streams
    /\ downlink \in [Streams -> Seq(Nat)]
    /\ at \in [Streams -> Unanswered \cup
                          {"awaiting", "connecting", "splicing", "gone"}]
    /\ opening \in [Streams -> Seq(Nat)]
    /\ received \in [Streams -> Seq(Nat)]
    /\ answered \in [Streams -> Nat]

\* Nothing is forwarded before a stream is kept, and one is only probed or kept if it was opened.
Phases ==
    /\ carry \in {"dialling", "probing"} => forwarded = 0
    /\ carry \in {"probing", "carrying"} => cur > 0 /\ opens[cur] # "unsent"
    /\ \A s \in Streams : s > cur => opens[s] = "unsent"

\* How many requests were sent on a stream: those forwarded went to the last one tried.
SentOn(s) == IF s = cur THEN forwarded ELSE 0

\* What the listening half reads next on a stream it still reads.
Awaited(s) ==
    IF at[s] \in Unanswered THEN Header
    ELSE IF at[s] = "awaiting" THEN 1
    ELSE IF at[s] = "connecting" THEN 2
    ELSE Len(received[s]) + 1

\* What is under way to it begins there and ends with the last request sent, with no gap.
UplinkOK(s) ==
    /\ opens[s] = "unsent" => uplink[s] = <<>>
    /\ opens[s] # "unsent" /\ s \notin deaf /\ at[s] # "gone" =>
           /\ Awaited(s) + Len(uplink[s]) = SentOn(s) + 1
           /\ \A i \in 1..Len(uplink[s]) : uplink[s][i] = Awaited(s) + i - 1

\* What a stream has been through by the time it is where it is.
StageOK(s) ==
    /\ at[s] = "unknown" <=> opens[s] # "arrived"
    /\ s \in deaf => at[s] \in Unanswered \cup {"gone"} /\ downlink[s] = <<>>
    /\ at[s] \in Unanswered => downlink[s] = <<>>
    /\ at[s] \in Unanswered \cup {"awaiting", "connecting"} \/ s \in deaf => received[s] = <<>>
    /\ at[s] = "connecting" => opening[s] = <<1>>
    /\ at[s] \in {"connecting", "splicing"} \/ received[s] # <<>> =>
           SentOn(s) > 0
    /\ Len(received[s]) <= SentOn(s)
    /\ received[s] = <<>> => answered[s] = 0

\* What is under way to the wallet follows what it got, and ends with the last chunk of the upstream;
\* to a probe, only the echo is.
DownlinkOK ==
    /\ carry = "probing" => downlink[cur] \in {<<>>, <<Header>>}
    /\ carry = "carrying" =>
           /\ Len(got) + Len(downlink[cur]) = answered[cur]
           /\ \A i \in 1..Len(downlink[cur]) : downlink[cur][i] = Len(got) + i

IInv ==
    /\ TypeOK
    /\ Phases
    /\ ProbedStreamIsWhole
    /\ DownlinkOK
    /\ carry \in {"dialling", "probing"} => got = <<>>
    /\ \A s \in Streams : UplinkOK(s) /\ StageOK(s)

-----------------------------------------------------------------------------
(* The queues of the mixnet. *)

LEMMA PopOfNet ==
    ASSUME NEW net \in [Streams -> Seq(Nat)], NEW s \in Streams, net[s] # <<>>
    PROVE  /\ Pop(net, s) \in [Streams -> Seq(Nat)]
           /\ \A t \in Streams : t # s => Pop(net, s)[t] = net[t]
           /\ Len(net[s]) \in Nat \ {0} /\ Head(net[s]) = net[s][1] /\ Head(net[s]) \in Nat
           /\ Len(Pop(net, s)[s]) = Len(net[s]) - 1
           /\ \A i \in 1..Len(Pop(net, s)[s]) : Pop(net, s)[s][i] = net[s][i + 1]
<1>1. Pop(net, s)[s] = Tail(net[s])
  BY DEF Pop
<1>2. Len(net[s]) \in Nat \ {0} /\ Head(net[s]) = net[s][1] /\ Head(net[s]) \in Nat
  BY EmptySeq, LenProperties, HeadTailProperties
<1> QED BY <1>1, <1>2, HeadTailProperties DEF Pop

LEMMA PushOnNet ==
    ASSUME NEW net \in [Streams -> Seq(Nat)], NEW s \in Streams, NEW frame \in Nat
    PROVE  /\ Push(net, s, frame) \in [Streams -> Seq(Nat)]
           /\ \A t \in Streams : t # s => Push(net, s, frame)[t] = net[t]
           /\ Push(net, s, frame)[s] = Append(net[s], frame)
           /\ Len(net[s]) \in Nat /\ Len(Push(net, s, frame)[s]) = Len(net[s]) + 1
           /\ \A i \in 1..Len(net[s]) : Push(net, s, frame)[s][i] = net[s][i]
           /\ Push(net, s, frame)[s][Len(net[s]) + 1] = frame
<1>1. Push(net, s, frame)[s] = Append(net[s], frame)
  BY DEF Push
<1> QED BY <1>1, AppendProperties, LenProperties DEF Push

\* A step that leaves a stream alone keeps what is known of it.
Alone(t) ==
    /\ UNCHANGED <<SentOn(t), opens[t], uplink[t], downlink[t], at[t], opening[t],
                   received[t], answered[t]>>
    /\ t \in deaf' <=> t \in deaf

LEMMA LeftAlone ==
    ASSUME NEW t \in Streams, Alone(t), UplinkOK(t), StageOK(t)
    PROVE  UplinkOK(t)' /\ StageOK(t)'
BY DEF Alone, UplinkOK, StageOK, Awaited

-----------------------------------------------------------------------------
(* Every step preserves it. *)

LEMMA InitEstablishes == Init => IInv
<1> SUFFICES ASSUME Init PROVE IInv
  OBVIOUS
<1>1. TypeOK /\ Phases /\ ProbedStreamIsWhole /\ DownlinkOK /\ got = <<>>
  BY TunnelAssumption DEF Init, TypeOK, Phases, ProbedStreamIsWhole, DownlinkOK, Streams, Unanswered
<1>2. ASSUME NEW s \in Streams PROVE UplinkOK(s) /\ StageOK(s)
  BY DEF Init, UplinkOK, StageOK, SentOn, Unanswered
<1> QED BY <1>1, <1>2 DEF IInv

\* The dialler's steps that send nothing and take nothing.
LEMMA QuietPreserves ==
    ASSUME IInv, Ask \/ OpenRefused \/ ProbeDeadline \/ GiveUp \/ Stall \/ SpliceEnds
    PROVE  IInv'
<1>0. /\ UNCHANGED <<probed, forwarded, got, opens, uplink, deaf, downlink, listener>>
      /\ asked' \in {asked, asked + 1}
      /\ \/ UNCHANGED <<cur, carry>>
         \/ carry = "dialling" /\ cur < Budget /\ cur' = cur + 1 /\ carry' = "dialling"
         \/ carry = "probing" /\ carry' = "dialling" /\ cur' = cur
         \/ carry' = "closed" /\ cur' = cur
  BY DEF Ask, OpenRefused, Tried, ProbeDeadline, GiveUp, Stall, SpliceEnds, Close
<1>1. TypeOK'
  BY <1>0, TunnelAssumption DEF IInv, TypeOK, Budget, listener
<1>2. Phases'
  BY <1>0 DEF IInv, TypeOK, Phases, Streams
<1>5. ProbedStreamIsWhole' /\ DownlinkOK'
  BY <1>0 DEF IInv, ProbedStreamIsWhole, DownlinkOK, listener
<1>3. (carry \in {"dialling", "probing"} => got = <<>>)'
  BY <1>0 DEF IInv
<1>4. ASSUME NEW t \in Streams PROVE UplinkOK(t)' /\ StageOK(t)'
  <2>1. UplinkOK(t) /\ StageOK(t)
    BY DEF IInv
  <2>2. SentOn(t)' = SentOn(t)
    BY <1>0 DEF IInv, TypeOK, Phases, SentOn
  <2> QED BY <1>0, <2>1, <2>2, LeftAlone DEF Alone, listener
<1> QED BY <1>1, <1>2, <1>3, <1>4, <1>5 DEF IInv

LEMMA OpenStreamPreserves ==
    ASSUME IInv, OpenStream
    PROVE  IInv'
<1> DEFINE n == cur + 1
<1>0. /\ carry = "dialling" /\ forwarded = 0 /\ got = <<>>
      /\ n \in Streams /\ cur' = n
      /\ carry' = IF probed THEN "probing" ELSE "carrying"
      /\ opens' = [opens EXCEPT ![n] = "sent"]
      /\ uplink' = Push(uplink, n, Header)
      /\ UNCHANGED <<probed, asked, forwarded, got, deaf, downlink, at, opening, received, answered>>
  BY TunnelAssumption
     DEF IInv, OpenStream, Tried, TypeOK, Phases, Budget, Streams, listener
<1>9. /\ uplink' \in [Streams -> Seq(Nat)]
      /\ \A t \in Streams : t # n => uplink'[t] = uplink[t]
      /\ Len(uplink'[n]) = Len(uplink[n]) + 1
      /\ uplink'[n][Len(uplink[n]) + 1] = Header
  <2>1. uplink \in [Streams -> Seq(Nat)] /\ Header \in Nat
    BY DEF IInv, TypeOK, Header
  <2> HIDE DEF n
  <2> QED BY <1>0, <2>1, PushOnNet
<1>1. opens[n] = "unsent" /\ uplink[n] = <<>> /\ UplinkOK(n) /\ StageOK(n)
  BY <1>0 DEF IInv, TypeOK, Phases, UplinkOK
<1>2. at[n] = "unknown"
  BY <1>1 DEF StageOK
<1>3. downlink[n] = <<>> /\ received[n] = <<>> /\ answered[n] = 0
  BY <1>1, <1>2 DEF StageOK, Unanswered
<1>4. TypeOK'
  BY <1>0, <1>9 DEF IInv, TypeOK, Streams
<1>5. Phases' /\ ProbedStreamIsWhole' /\ DownlinkOK'
  BY <1>0, <1>3 DEF IInv, TypeOK, Phases, ProbedStreamIsWhole, DownlinkOK, Streams
<1>6. ASSUME NEW t \in Streams PROVE UplinkOK(t)' /\ StageOK(t)'
  <2>1. UplinkOK(t) /\ StageOK(t)
    BY DEF IInv
  <2>2. SentOn(t) = 0 /\ SentOn(t)' = 0
    BY <1>0 DEF SentOn
  <2>3. CASE t = n
    <3>1. Len(uplink'[t]) = 1 /\ uplink'[t][1] = Header
      BY <1>1, <1>9, <2>3, EmptySeq
    <3>4. Awaited(t)' = Header
      BY <1>0, <1>2, <2>3 DEF Awaited, Unanswered
    <3>5. opens'[t] = "sent"
      BY <1>0, <2>3 DEF IInv, TypeOK
    <3>2. UplinkOK(t)'
      BY <2>2, <3>1, <3>4, <3>5 DEF UplinkOK, Header
    <3>3. StageOK(t)'
      BY <1>0, <1>1, <1>2, <1>3, <2>2, <2>3, <2>1 DEF IInv, TypeOK, StageOK, Unanswered
    <3> QED BY <3>2, <3>3
  <2>4. CASE t # n
    <3>1. uplink'[t] = uplink[t] /\ opens'[t] = opens[t]
      BY <1>0, <1>9, <2>4 DEF IInv, TypeOK
    <3> QED BY <1>0, <2>1, <2>2, <3>1, LeftAlone DEF Alone
  <2> QED BY <2>3, <2>4
<1> QED BY <1>0, <1>4, <1>5, <1>6 DEF IInv

LEMMA SentOnType == ASSUME TypeOK, NEW s \in Streams PROVE SentOn(s) \in Nat
BY DEF TypeOK, SentOn

LEMMA KeepPreserves ==
    ASSUME IInv, Keep
    PROVE  IInv'
<1>0. /\ carry = "probing" /\ carry' = "carrying"
      /\ downlink[cur] # <<>>
      /\ downlink' = Pop(downlink, cur)
      /\ UNCHANGED <<probed, cur, asked, forwarded, got, opens, uplink, deaf,
                     at, opening, received, answered>>
  BY DEF Keep, Echoed, listener
<1>1. /\ cur \in Streams /\ opens[cur] # "unsent" /\ forwarded = 0 /\ got = <<>>
      /\ downlink[cur] = <<Header>>
      /\ downlink \in [Streams -> Seq(Nat)]
      /\ UplinkOK(cur) /\ StageOK(cur)
  BY <1>0 DEF IInv, TypeOK, Phases, DownlinkOK, Streams
<1>2. /\ downlink' \in [Streams -> Seq(Nat)]
      /\ \A t \in Streams : t # cur => downlink'[t] = downlink[t]
      /\ Len(downlink'[cur]) = Len(downlink[cur]) - 1
  BY <1>0, <1>1, PopOfNet
<1>3. Len(downlink'[cur]) = 0
  BY <1>1, <1>2
<1>4. cur \notin deaf /\ at[cur] \notin Unanswered
  BY <1>0, <1>1 DEF StageOK
<1>5. answered[cur] = 0
  BY <1>1 DEF StageOK, SentOn
<1>6. TypeOK'
  BY <1>0, <1>2 DEF IInv, TypeOK
<1>7. Phases' /\ ProbedStreamIsWhole' /\ DownlinkOK'
  <2>1. Len(got) = 0
    BY <1>1
  <2> QED BY <1>0, <1>1, <1>3, <1>4, <1>5, <2>1
      DEF IInv, Phases, ProbedStreamIsWhole, DownlinkOK, Unanswered
<1>8. ASSUME NEW t \in Streams PROVE UplinkOK(t)' /\ StageOK(t)'
  <2>1. UplinkOK(t) /\ StageOK(t)
    BY DEF IInv
  <2>2. SentOn(t)' = SentOn(t)
    BY <1>0 DEF SentOn
  <2>3. CASE t = cur
    BY <1>0, <1>4, <2>1, <2>2, <2>3 DEF UplinkOK, StageOK, Awaited
  <2>4. CASE t # cur
    BY <1>0, <1>2, <2>1, <2>2, <2>4, LeftAlone DEF Alone
  <2> QED BY <2>3, <2>4
<1> QED BY <1>0, <1>6, <1>7, <1>8 DEF IInv

LEMMA ForwardPreserves ==
    ASSUME IInv, Forward
    PROVE  IInv'
<1>0. /\ carry = "carrying" /\ forwarded < asked
      /\ forwarded' = forwarded + 1
      /\ uplink' = Push(uplink, cur, forwarded + 1)
      /\ UNCHANGED <<probed, carry, cur, asked, got, opens, deaf, downlink,
                     at, opening, received, answered>>
  BY DEF Forward, HasStream, listener
<1>1. /\ cur \in Streams /\ opens[cur] # "unsent" /\ forwarded \in Nat /\ asked \in Nat
      /\ uplink \in [Streams -> Seq(Nat)]
      /\ UplinkOK(cur) /\ StageOK(cur)
  BY <1>0 DEF IInv, TypeOK, Phases, Streams
<1>2. /\ uplink' \in [Streams -> Seq(Nat)]
      /\ \A t \in Streams : t # cur => uplink'[t] = uplink[t]
      /\ Len(uplink[cur]) \in Nat /\ Len(uplink'[cur]) = Len(uplink[cur]) + 1
      /\ \A i \in 1..Len(uplink[cur]) : uplink'[cur][i] = uplink[cur][i]
      /\ uplink'[cur][Len(uplink[cur]) + 1] = forwarded + 1
  <2>1. forwarded + 1 \in Nat
    BY <1>1
  <2> QED BY <1>0, <1>1, <2>1, PushOnNet
<1>3. TypeOK'
  <2>1. forwarded' \in 0..asked'
    BY <1>0, <1>1
  <2> QED BY <1>0, <1>2, <2>1 DEF IInv, TypeOK
<1>4. Phases' /\ ProbedStreamIsWhole' /\ DownlinkOK'
  BY <1>0 DEF IInv, Phases, ProbedStreamIsWhole, DownlinkOK
<1>5. ASSUME NEW t \in Streams PROVE UplinkOK(t)' /\ StageOK(t)'
  <2>1. UplinkOK(t) /\ StageOK(t)
    BY DEF IInv
  <2>2. CASE t = cur
    <3>1. SentOn(t) = forwarded /\ SentOn(t)' = forwarded + 1
      BY <1>0, <2>2 DEF SentOn
    <3>2. Awaited(t)' = Awaited(t)
      BY <1>0 DEF Awaited
    <3>3. at[t] # "gone" => Awaited(t) \in Nat
      BY LenProperties DEF IInv, TypeOK, Awaited, Unanswered, Header
    <3>4. UplinkOK(t)'
      <4>1. CASE t \in deaf \/ at[t] = "gone"
        BY <1>0, <1>1, <2>2, <4>1 DEF UplinkOK
      <4>2. CASE t \notin deaf /\ at[t] # "gone"
        <5>1. /\ Awaited(t) + Len(uplink[t]) = forwarded + 1
              /\ \A i \in 1..Len(uplink[t]) : uplink[t][i] = Awaited(t) + i - 1
          BY <1>1, <2>2, <3>1, <4>2 DEF UplinkOK
        <5>2. Awaited(t) + Len(uplink'[t]) = forwarded + 2
          BY <1>1, <1>2, <2>2, <3>3, <4>2, <5>1
        <5>3. ASSUME NEW i \in 1..Len(uplink'[t]) PROVE uplink'[t][i] = Awaited(t) + i - 1
          <6>1. CASE i \in 1..Len(uplink[t])
            BY <1>2, <2>2, <5>1, <6>1
          <6>2. CASE i = Len(uplink[t]) + 1
            BY <1>1, <1>2, <2>2, <3>3, <4>2, <5>1, <6>2
          <6> QED BY <1>2, <2>2, <6>1, <6>2
        <5> QED BY <1>0, <1>1, <2>2, <3>1, <3>2, <5>2, <5>3 DEF UplinkOK
      <4> QED BY <4>1, <4>2
    <3>5. StageOK(t)'
      BY <1>0, <1>1, <2>1, <3>1, LenProperties DEF IInv, TypeOK, StageOK
    <3> QED BY <3>4, <3>5
  <2>3. CASE t # cur
    <3>1. SentOn(t)' = SentOn(t)
      BY <1>0, <2>3 DEF SentOn
    <3> QED BY <1>0, <1>2, <2>1, <2>3, <3>1, LeftAlone DEF Alone
  <2> QED BY <2>2, <2>3
<1> QED BY <1>0, <1>3, <1>4, <1>5 DEF IInv

LEMMA TakeAnswerPreserves ==
    ASSUME IInv, TakeAnswer
    PROVE  IInv'
<1>0. /\ carry = "carrying" /\ downlink[cur] # <<>>
      /\ got' = Append(got, Head(downlink[cur]))
      /\ downlink' = Pop(downlink, cur)
      /\ UNCHANGED <<probed, carry, cur, asked, forwarded, opens, uplink, deaf,
                     at, opening, received, answered>>
  BY DEF TakeAnswer, listener
<1>1. /\ cur \in Streams /\ got \in Seq(Nat) /\ downlink \in [Streams -> Seq(Nat)]
      /\ answered \in [Streams -> Nat]
      /\ StageOK(cur)
      /\ Len(got) + Len(downlink[cur]) = answered[cur]
      /\ \A i \in 1..Len(downlink[cur]) : downlink[cur][i] = Len(got) + i
  BY <1>0 DEF IInv, TypeOK, Phases, Streams, DownlinkOK
<1>2. /\ downlink' \in [Streams -> Seq(Nat)]
      /\ \A t \in Streams : t # cur => downlink'[t] = downlink[t]
      /\ Len(downlink[cur]) \in Nat \ {0} /\ Head(downlink[cur]) \in Nat
      /\ Len(downlink'[cur]) = Len(downlink[cur]) - 1
      /\ \A i \in 1..Len(downlink'[cur]) : downlink'[cur][i] = downlink[cur][i + 1]
  BY <1>0, <1>1, PopOfNet
<1>3. got' \in Seq(Nat) /\ Len(got) \in Nat /\ Len(got') = Len(got) + 1
  BY <1>0, <1>1, <1>2, AppendProperties, LenProperties
<1>4. cur \notin deaf /\ at[cur] \notin Unanswered
  BY <1>0, <1>1 DEF StageOK
<1>5. TypeOK'
  BY <1>0, <1>2, <1>3 DEF IInv, TypeOK
<1>6. DownlinkOK'
  <2>1. Len(got') + Len(downlink'[cur]) = answered[cur]
    BY <1>1, <1>2, <1>3
  <2>2. ASSUME NEW i \in 1..Len(downlink'[cur]) PROVE downlink'[cur][i] = Len(got') + i
    <3>1. i + 1 \in 1..Len(downlink[cur]) /\ i \in Nat
      BY <1>2
    <3> QED BY <1>1, <1>2, <1>3, <3>1
  <2> QED BY <1>0, <2>1, <2>2 DEF DownlinkOK
<1>7. Phases' /\ ProbedStreamIsWhole'
  BY <1>0 DEF IInv, Phases, ProbedStreamIsWhole
<1>8. ASSUME NEW t \in Streams PROVE UplinkOK(t)' /\ StageOK(t)'
  <2>1. UplinkOK(t) /\ StageOK(t)
    BY DEF IInv
  <2>2. SentOn(t)' = SentOn(t)
    BY <1>0 DEF SentOn
  <2>3. CASE t = cur
    BY <1>0, <1>4, <2>1, <2>2, <2>3 DEF UplinkOK, StageOK, Awaited
  <2>4. CASE t # cur
    BY <1>0, <1>2, <2>1, <2>2, <2>4, LeftAlone DEF Alone
  <2> QED BY <2>3, <2>4
<1> QED BY <1>0, <1>5, <1>6, <1>7, <1>8 DEF IInv

LEMMA OpenArrivesPreserves ==
    ASSUME IInv, NEW s \in Streams, OpenArrives(s)
    PROVE  IInv'
<1>1. PICK to \in {"handshaking", "gone"} : at' = [at EXCEPT ![s] = to]
  BY DEF OpenArrives
<1>0. /\ opens[s] = "sent" /\ opens' = [opens EXCEPT ![s] = "arrived"]
      /\ UNCHANGED <<probed, carry, cur, asked, forwarded, got, uplink, deaf, downlink,
                     opening, received, answered>>
  BY DEF OpenArrives, dialler
<1>2. at[s] = "unknown" /\ UplinkOK(s) /\ StageOK(s)
  BY <1>0 DEF IInv, StageOK
<1>3. opens'[s] = "arrived" /\ at'[s] = to
  BY <1>0, <1>1 DEF IInv, TypeOK
<1>4. TypeOK'
  BY <1>0, <1>1 DEF IInv, TypeOK, Unanswered
<1>5. Phases' /\ DownlinkOK' /\ ProbedStreamIsWhole'
  <2>1. Phases'
    BY <1>0 DEF IInv, TypeOK, Phases
  <2>2. DownlinkOK'
    BY <1>0 DEF IInv, DownlinkOK
  <2>3. carry = "carrying" => cur \in Streams
    BY DEF IInv, TypeOK, Phases, Streams
  <2>4. ProbedStreamIsWhole'
    BY <1>0, <1>1, <1>2, <2>3 DEF IInv, TypeOK, ProbedStreamIsWhole
  <2> QED BY <2>1, <2>2, <2>4
<1>6. ASSUME NEW t \in Streams PROVE UplinkOK(t)' /\ StageOK(t)'
  <2>1. UplinkOK(t) /\ StageOK(t) /\ SentOn(t)' = SentOn(t)
    BY <1>0 DEF IInv, SentOn
  <2>2. CASE t = s
    <3>1. at'[t] # "gone" => Awaited(t)' = Awaited(t)
      BY <1>2, <1>3, <2>2 DEF Awaited, Unanswered
    <3>2. UplinkOK(t)'
      BY <1>0, <1>2, <1>3, <2>1, <2>2, <3>1 DEF UplinkOK
    <3>3. StageOK(t)'
      BY <1>0, <1>2, <1>3, <2>1, <2>2 DEF StageOK, Unanswered
    <3> QED BY <3>2, <3>3
  <2>3. CASE t # s
    <3>1. opens'[t] = opens[t] /\ at'[t] = at[t]
      BY <1>0, <1>1, <2>3 DEF IInv, TypeOK
    <3> QED BY <1>0, <2>1, <3>1, LeftAlone DEF Alone
  <2> QED BY <2>2, <2>3
<1> QED BY <1>0, <1>4, <1>5, <1>6 DEF IInv

LEMMA OvertakePreserves ==
    ASSUME IInv, NEW s \in Streams, Overtake(s)
    PROVE  IInv'
<1>0. /\ opens[s] = "sent" /\ uplink[s] # <<>>
      /\ uplink' = Pop(uplink, s)
      /\ deaf' = deaf \cup {s}
      /\ UNCHANGED <<probed, carry, cur, asked, forwarded, got, opens, downlink,
                     at, opening, received, answered>>
  BY DEF Overtake, dialler, listener
<1>1. at[s] = "unknown" /\ StageOK(s)
  BY <1>0 DEF IInv, StageOK
<1>2. /\ uplink' \in [Streams -> Seq(Nat)]
      /\ \A t \in Streams : t # s => uplink'[t] = uplink[t]
  <2>1. uplink \in [Streams -> Seq(Nat)]
    BY DEF IInv, TypeOK
  <2> QED BY <1>0, <2>1, PopOfNet
<1>3. TypeOK'
  BY <1>0, <1>2 DEF IInv, TypeOK
<1>4. Phases' /\ DownlinkOK' /\ ProbedStreamIsWhole'
  BY <1>0, <1>1 DEF IInv, Phases, DownlinkOK, ProbedStreamIsWhole
<1>5. ASSUME NEW t \in Streams PROVE UplinkOK(t)' /\ StageOK(t)'
  <2>1. UplinkOK(t) /\ StageOK(t) /\ SentOn(t)' = SentOn(t)
    BY <1>0 DEF IInv, SentOn
  <2>2. CASE t = s
    BY <1>0, <1>1, <2>1, <2>2 DEF UplinkOK, StageOK, Unanswered
  <2>3. CASE t # s
    BY <1>0, <1>2, <2>1, <2>3, LeftAlone DEF Alone
  <2> QED BY <2>2, <2>3
<1> QED BY <1>0, <1>3, <1>4, <1>5 DEF IInv

\* What the listening half reads is what it awaits.
LEMMA ReadsWhatItAwaits ==
    ASSUME IInv, NEW s \in Streams, Arrived(s), at[s] \in {"handshaking", "awaiting", "splicing"}
    PROVE  /\ opens[s] = "arrived" /\ s \notin deaf
           /\ SentOn(s) \in Nat /\ Awaited(s) \in Nat /\ Len(uplink[s]) \in Nat \ {0}
           /\ Awaited(s) + Len(uplink[s]) = SentOn(s) + 1
           /\ Head(uplink[s]) = Awaited(s)
           /\ Pop(uplink, s) \in [Streams -> Seq(Nat)]
           /\ \A t \in Streams : t # s => Pop(uplink, s)[t] = uplink[t]
           /\ Len(Pop(uplink, s)[s]) = Len(uplink[s]) - 1
           /\ \A i \in 1..Len(Pop(uplink, s)[s]) : Pop(uplink, s)[s][i] = Awaited(s) + i
<1>1. opens[s] = "arrived" /\ s \notin deaf /\ uplink[s] # <<>>
  BY DEF IInv, StageOK, Arrived
<1>2. SentOn(s) \in Nat /\ Awaited(s) \in Nat
  BY SentOnType, LenProperties DEF IInv, TypeOK, Awaited, Header
<1>3. /\ Awaited(s) + Len(uplink[s]) = SentOn(s) + 1
      /\ \A i \in 1..Len(uplink[s]) : uplink[s][i] = Awaited(s) + i - 1
  BY <1>1 DEF IInv, UplinkOK
<1>4. /\ Pop(uplink, s) \in [Streams -> Seq(Nat)]
      /\ \A t \in Streams : t # s => Pop(uplink, s)[t] = uplink[t]
      /\ Len(uplink[s]) \in Nat \ {0} /\ Head(uplink[s]) = uplink[s][1]
      /\ Len(Pop(uplink, s)[s]) = Len(uplink[s]) - 1
      /\ \A i \in 1..Len(Pop(uplink, s)[s]) : Pop(uplink, s)[s][i] = uplink[s][i + 1]
  <2>1. uplink \in [Streams -> Seq(Nat)]
    BY DEF IInv, TypeOK
  <2> QED BY <1>1, <2>1, PopOfNet
<1>5. Head(uplink[s]) = Awaited(s)
  <2>1. 1 \in 1..Len(uplink[s])
    BY <1>4
  <2> QED BY <1>2, <1>3, <1>4, <2>1
<1>6. ASSUME NEW i \in 1..Len(Pop(uplink, s)[s]) PROVE Pop(uplink, s)[s][i] = Awaited(s) + i
  <2>1. i \in Nat /\ i + 1 \in 1..Len(uplink[s])
    BY <1>4
  <2> QED BY <1>2, <1>3, <1>4, <2>1
<1> QED BY <1>1, <1>2, <1>3, <1>4, <1>5, <1>6

LEMMA IntroducePreserves ==
    ASSUME IInv, NEW s \in Streams, Introduce(s)
    PROVE  IInv'
<1>0. /\ at[s] = "handshaking" /\ Arrived(s)
      /\ uplink' = Pop(uplink, s)
      /\ downlink' = EchoedIfAsked(s)
      /\ at' = [at EXCEPT ![s] = "awaiting"]
      /\ UNCHANGED <<probed, carry, cur, asked, forwarded, got, opens, deaf,
                     opening, received, answered>>
  BY DEF Introduce, dialler
<1>1. /\ Awaited(s) = 0 /\ StageOK(s) /\ downlink[s] = <<>> /\ received[s] = <<>>
      /\ at'[s] = "awaiting"
  BY <1>0 DEF IInv, TypeOK, StageOK, Awaited, Unanswered, Header
<1>2. /\ opens[s] = "arrived" /\ s \notin deaf /\ SentOn(s) \in Nat
      /\ Len(uplink[s]) \in Nat /\ Len(uplink[s]) = SentOn(s) + 1
      /\ uplink' \in [Streams -> Seq(Nat)]
      /\ \A t \in Streams : t # s => uplink'[t] = uplink[t]
      /\ Len(uplink'[s]) = SentOn(s)
      /\ \A i \in 1..Len(uplink'[s]) : uplink'[s][i] = i
  BY <1>0, <1>1, ReadsWhatItAwaits
<1>3. /\ downlink' \in [Streams -> Seq(Nat)]
      /\ \A t \in Streams : t # s => downlink'[t] = downlink[t]
      /\ downlink'[s] = IF probed THEN <<Header>> ELSE <<>>
  <2>1. downlink \in [Streams -> Seq(Nat)] /\ Header \in Nat /\ Append(<<>>, Header) = <<Header>>
    BY DEF IInv, TypeOK, Header
  <2>2. CASE probed
    BY <1>0, <1>1, <2>1, <2>2, PushOnNet DEF EchoedIfAsked
  <2>3. CASE ~ probed
    BY <1>0, <1>1, <2>1, <2>3 DEF EchoedIfAsked
  <2> QED BY <2>2, <2>3
<1>4. TypeOK'
  BY <1>0, <1>2, <1>3 DEF IInv, TypeOK
<1>5. carry = "carrying" => cur \in Streams /\ (probed => cur # s)
  BY <1>0 DEF IInv, TypeOK, Phases, Streams, ProbedStreamIsWhole
<1>6. Phases' /\ ProbedStreamIsWhole'
  BY <1>0, <1>5 DEF IInv, TypeOK, Phases, ProbedStreamIsWhole
<1>7. DownlinkOK'
  <2>1. CASE carry = "probing"
    <3>1. cur \in Streams
      BY <2>1 DEF IInv, TypeOK, Phases, Streams
    <3> QED BY <1>0, <1>3, <2>1, <3>1 DEF IInv, DownlinkOK
  <2>2. CASE carry = "carrying"
    <3>1. downlink'[cur] = downlink[cur]
      BY <1>1, <1>3, <1>5, <2>2
    <3> QED BY <1>0, <2>2, <3>1 DEF IInv, DownlinkOK
  <2> QED BY <1>0, <2>1, <2>2 DEF DownlinkOK
<1>8. ASSUME NEW t \in Streams PROVE UplinkOK(t)' /\ StageOK(t)'
  <2>1. UplinkOK(t) /\ StageOK(t) /\ SentOn(t)' = SentOn(t)
    BY <1>0 DEF IInv, SentOn
  <2>2. CASE t = s
    <3>1. Awaited(t)' = 1
      BY <1>1, <2>2 DEF Awaited, Unanswered
    <3>2. UplinkOK(t)'
      BY <1>0, <1>2, <2>1, <2>2, <3>1 DEF UplinkOK
    <3>3. StageOK(t)'
      BY <1>0, <1>1, <1>2, <2>1, <2>2 DEF StageOK, Unanswered
    <3> QED BY <3>2, <3>3
  <2>3. CASE t # s
    <3>1. at'[t] = at[t]
      BY <1>0, <2>3 DEF IInv, TypeOK
    <3> QED BY <1>0, <1>2, <1>3, <2>1, <2>3, <3>1, LeftAlone DEF Alone
  <2> QED BY <2>2, <2>3
<1> QED BY <1>0, <1>4, <1>6, <1>7, <1>8 DEF IInv

LEMMA FirstRequestPreserves ==
    ASSUME IInv, NEW s \in Streams, FirstRequest(s)
    PROVE  IInv'
<1>0. /\ at[s] = "awaiting" /\ Arrived(s)
      /\ uplink' = Pop(uplink, s)
      /\ opening' = [opening EXCEPT ![s] = <<Head(uplink[s])>>]
      /\ at' = [at EXCEPT ![s] = "connecting"]
      /\ UNCHANGED <<probed, carry, cur, asked, forwarded, got, opens, deaf, downlink,
                     received, answered>>
  BY DEF FirstRequest, dialler
<1>1. /\ Awaited(s) = 1 /\ StageOK(s) /\ received[s] = <<>>
      /\ at'[s] = "connecting" /\ opening'[s] = <<Head(uplink[s])>>
  BY <1>0 DEF IInv, TypeOK, StageOK, Awaited, Unanswered, Header
<1>2. /\ opens[s] = "arrived" /\ s \notin deaf /\ SentOn(s) \in Nat /\ SentOn(s) > 0
      /\ Head(uplink[s]) = 1
      /\ uplink' \in [Streams -> Seq(Nat)]
      /\ \A t \in Streams : t # s => uplink'[t] = uplink[t]
      /\ Len(uplink'[s]) = SentOn(s) - 1
      /\ \A i \in 1..Len(uplink'[s]) : uplink'[s][i] = i + 1
  BY <1>0, <1>1, ReadsWhatItAwaits
<1>3. opening' \in [Streams -> Seq(Nat)]
  <2>1. <<Head(uplink[s])>> \in Seq(Nat)
    BY <1>2
  <2> QED BY <1>0, <2>1 DEF IInv, TypeOK
<1>4. TypeOK'
  BY <1>0, <1>2, <1>3 DEF IInv, TypeOK
<1>5. Phases' /\ DownlinkOK'
  BY <1>0 DEF IInv, Phases, DownlinkOK
<1>6. ProbedStreamIsWhole'
  BY <1>0 DEF IInv, TypeOK, ProbedStreamIsWhole, Phases, Streams
<1>7. ASSUME NEW t \in Streams PROVE UplinkOK(t)' /\ StageOK(t)'
  <2>1. UplinkOK(t) /\ StageOK(t) /\ SentOn(t)' = SentOn(t)
    BY <1>0 DEF IInv, SentOn
  <2>2. CASE t = s
    <3>1. Awaited(t)' = 2
      BY <1>1, <2>2 DEF Awaited, Unanswered
    <3>2. UplinkOK(t)'
      BY <1>0, <1>2, <2>1, <2>2, <3>1 DEF UplinkOK
    <3>3. StageOK(t)'
      BY <1>0, <1>1, <1>2, <2>1, <2>2 DEF StageOK, Unanswered
    <3> QED BY <3>2, <3>3
  <2>3. CASE t # s
    <3>1. at'[t] = at[t] /\ opening'[t] = opening[t]
      BY <1>0, <2>3 DEF IInv, TypeOK
    <3> QED BY <1>0, <1>2, <2>1, <2>3, <3>1, LeftAlone DEF Alone
  <2> QED BY <2>2, <2>3
<1> QED BY <1>0, <1>4, <1>5, <1>6, <1>7 DEF IInv

LEMMA OneRequest ==
    <<1>> \in Seq(Nat) /\ Len(<<1>>) = 1 /\ <<1>> # <<>> /\ <<>> \o <<1>> = <<1>>
OBVIOUS

LEMMA ConnectUpstreamPreserves ==
    ASSUME IInv, NEW s \in Streams, ConnectUpstream(s)
    PROVE  IInv'
<1>0. /\ at[s] = "connecting"
      /\ at' = [at EXCEPT ![s] = "splicing"]
      /\ received' = [received EXCEPT ![s] = @ \o opening[s]]
      /\ UNCHANGED <<probed, carry, cur, asked, forwarded, got, opens, uplink, deaf, downlink,
                     opening, answered>>
  BY DEF ConnectUpstream, OpeningWritten, dialler
<1>1. /\ UplinkOK(s) /\ StageOK(s) /\ received[s] = <<>> /\ opening[s] = <<1>>
      /\ s \notin deaf /\ opens[s] = "arrived" /\ SentOn(s) > 0
  BY <1>0 DEF IInv, StageOK, Unanswered
<1>2. at'[s] = "splicing" /\ received'[s] = <<1>>
  <2> QED BY <1>0, <1>1, OneRequest DEF IInv, TypeOK
<1>3. TypeOK'
  <2>1. received' = [received EXCEPT ![s] = <<1>>]
    BY <1>0, <1>1, <1>2
  <2> QED BY <1>0, <2>1, OneRequest DEF IInv, TypeOK
<1>4. Phases' /\ DownlinkOK'
  BY <1>0 DEF IInv, Phases, DownlinkOK
<1>5. ProbedStreamIsWhole'
  BY <1>0 DEF IInv, TypeOK, ProbedStreamIsWhole, Phases, Streams
<1>6. ASSUME NEW t \in Streams PROVE UplinkOK(t)' /\ StageOK(t)'
  <2>1. UplinkOK(t) /\ StageOK(t) /\ SentOn(t)' = SentOn(t)
    BY <1>0 DEF IInv, SentOn
  <2>2. CASE t = s
    <3>1. Awaited(t)' = 2 /\ Awaited(t) = 2
      <4>1. Len(received'[t]) = 1
        BY <1>2, <2>2, OneRequest
      <4>2. at[t] = "connecting" /\ at'[t] = "splicing"
        BY <1>0, <1>2, <2>2
      <4> QED BY <4>1, <4>2 DEF Awaited, Unanswered
    <3>2. UplinkOK(t)'
      BY <1>0, <1>1, <2>1, <2>2, <3>1 DEF UplinkOK
    <3>3. StageOK(t)'
      <4>1. Len(received'[t]) = 1 /\ received'[t] # <<>>
        BY <1>2, <2>2, OneRequest
      <4>2. SentOn(t) \in Nat
        BY SentOnType DEF IInv
      <4> QED BY <1>0, <1>1, <1>2, <2>1, <2>2, <4>1, <4>2 DEF StageOK, Unanswered
    <3> QED BY <3>2, <3>3
  <2>3. CASE t # s
    <3>1. at'[t] = at[t] /\ received'[t] = received[t]
      BY <1>0, <2>3 DEF IInv, TypeOK
    <3> QED BY <1>0, <2>1, <2>3, <3>1, LeftAlone DEF Alone
  <2> QED BY <2>2, <2>3
<1> QED BY <1>0, <1>3, <1>4, <1>5, <1>6 DEF IInv

LEMMA CarryRequestPreserves ==
    ASSUME IInv, NEW s \in Streams, CarryRequest(s)
    PROVE  IInv'
<1>0. /\ at[s] = "splicing" /\ Arrived(s)
      /\ uplink' = Pop(uplink, s)
      /\ received' = [received EXCEPT ![s] = Append(@, Head(uplink[s]))]
      /\ UNCHANGED <<probed, carry, cur, asked, forwarded, got, opens, deaf, downlink,
                     at, opening, answered>>
  BY DEF CarryRequest, dialler
<1>1. Awaited(s) = Len(received[s]) + 1 /\ StageOK(s) /\ Len(received[s]) \in Nat
  BY <1>0, LenProperties DEF IInv, TypeOK, Awaited, Unanswered
<1>2. /\ opens[s] = "arrived" /\ s \notin deaf /\ SentOn(s) \in Nat
      /\ Head(uplink[s]) = Len(received[s]) + 1
      /\ Len(received[s]) + 1 <= SentOn(s)
      /\ uplink' \in [Streams -> Seq(Nat)]
      /\ \A t \in Streams : t # s => uplink'[t] = uplink[t]
      /\ Len(uplink'[s]) = SentOn(s) - Len(received[s]) - 1
      /\ \A i \in 1..Len(uplink'[s]) : uplink'[s][i] = Len(received[s]) + 1 + i
  <2>1. at[s] \in {"handshaking", "awaiting", "splicing"}
    BY <1>0
  <2>2. /\ opens[s] = "arrived" /\ s \notin deaf
        /\ SentOn(s) \in Nat /\ Len(uplink[s]) \in Nat \ {0}
        /\ Len(received[s]) + 1 + Len(uplink[s]) = SentOn(s) + 1
        /\ Head(uplink[s]) = Len(received[s]) + 1
        /\ uplink' \in [Streams -> Seq(Nat)]
        /\ \A t \in Streams : t # s => uplink'[t] = uplink[t]
        /\ Len(uplink'[s]) = Len(uplink[s]) - 1
        /\ \A i \in 1..Len(uplink'[s]) : uplink'[s][i] = Len(received[s]) + 1 + i
    BY <1>0, <1>1, <2>1, ReadsWhatItAwaits
  <2>3. /\ Len(received[s]) + 1 <= SentOn(s)
        /\ Len(uplink'[s]) = SentOn(s) - Len(received[s]) - 1
    <3>1. /\ SentOn(s) \in Nat /\ Len(uplink[s]) \in Nat \ {0}
          /\ Len(received[s]) + 1 + Len(uplink[s]) = SentOn(s) + 1
          /\ Len(uplink'[s]) = Len(uplink[s]) - 1
      BY <2>2
    <3>2. Len(received[s]) \in Nat
      BY <1>1
    <3>3. ASSUME NEW r \in Nat, NEW n \in Nat, NEW u \in Nat \ {0}, NEW v,
                 r + 1 + u = n + 1, v = u - 1
          PROVE  r + 1 <= n /\ v = n - r - 1
      BY <3>3
    <3> QED BY <3>1, <3>2, <3>3
  <2> QED BY <2>2, <2>3
<1>3. /\ received' \in [Streams -> Seq(Nat)]
      /\ received'[s] # <<>> /\ Len(received'[s]) = Len(received[s]) + 1
  <2>1. received \in [Streams -> Seq(Nat)] /\ Head(uplink[s]) \in Nat
    BY <1>1, <1>2 DEF IInv, TypeOK
  <2> QED BY <1>0, <2>1, AppendProperties
<1>4. TypeOK'
  BY <1>0, <1>2, <1>3 DEF IInv, TypeOK
<1>5. Phases' /\ DownlinkOK' /\ ProbedStreamIsWhole'
  BY <1>0 DEF IInv, Phases, DownlinkOK, ProbedStreamIsWhole
<1>6. ASSUME NEW t \in Streams PROVE UplinkOK(t)' /\ StageOK(t)'
  <2>1. UplinkOK(t) /\ StageOK(t) /\ SentOn(t)' = SentOn(t)
    BY <1>0 DEF IInv, SentOn
  <2>2. CASE t = s
    <3>1. Awaited(t)' = Len(received[s]) + 2
      BY <1>0, <1>1, <1>3, <2>2 DEF Awaited, Unanswered
    <3>2. UplinkOK(t)'
      <4>1. Awaited(t)' + Len(uplink'[t]) = SentOn(t) + 1
        BY <1>1, <1>2, <2>2, <3>1
      <4>2. ASSUME NEW i \in 1..Len(uplink'[t]) PROVE uplink'[t][i] = Awaited(t)' + i - 1
        <5>1. i \in Nat
          BY <1>1, <1>2, <2>2
        <5> QED BY <1>1, <1>2, <2>2, <3>1, <5>1
      <4> QED BY <1>0, <1>2, <2>1, <2>2, <4>1, <4>2 DEF UplinkOK
    <3>3. StageOK(t)'
      BY <1>0, <1>1, <1>2, <1>3, <2>1, <2>2 DEF StageOK, Unanswered
    <3> QED BY <3>2, <3>3
  <2>3. CASE t # s
    <3>1. received'[t] = received[t]
      BY <1>0, <2>3 DEF IInv, TypeOK
    <3> QED BY <1>0, <1>2, <2>1, <2>3, <3>1, LeftAlone DEF Alone
  <2> QED BY <2>2, <2>3
<1> QED BY <1>0, <1>4, <1>5, <1>6 DEF IInv

LEMMA CarryAnswerPreserves ==
    ASSUME IInv, NEW s \in Streams, CarryAnswer(s)
    PROVE  IInv'
<1>0. /\ at[s] = "splicing" /\ answered[s] < AnswerLen * Len(received[s])
      /\ answered' = [answered EXCEPT ![s] = @ + 1]
      /\ downlink' = Push(downlink, s, answered[s] + 1)
      /\ UNCHANGED <<probed, carry, cur, asked, forwarded, got, opens, uplink, deaf,
                     at, opening, received>>
  BY DEF CarryAnswer, dialler
<1>1. /\ StageOK(s) /\ s \notin deaf
      /\ s = cur /\ carry \in {"carrying", "closed"}
      /\ answered[s] \in Nat /\ downlink \in [Streams -> Seq(Nat)]
  BY <1>0 DEF IInv, TypeOK, StageOK, SentOn, Phases, Unanswered
<1>2. /\ downlink' \in [Streams -> Seq(Nat)]
      /\ \A t \in Streams : t # s => downlink'[t] = downlink[t]
      /\ Len(downlink[s]) \in Nat /\ Len(downlink'[s]) = Len(downlink[s]) + 1
      /\ \A i \in 1..Len(downlink[s]) : downlink'[s][i] = downlink[s][i]
      /\ downlink'[s][Len(downlink[s]) + 1] = answered[s] + 1
  <2>1. answered[s] + 1 \in Nat
    BY <1>1
  <2> QED BY <1>0, <1>1, <2>1, PushOnNet
<1>3. received[s] # <<>>
  <2> SUFFICES ASSUME received[s] = <<>> PROVE FALSE
    OBVIOUS
  <2>1. Len(received[s]) = 0 /\ AnswerLen \in Nat
    BY TunnelAssumption
  <2>2. AnswerLen * Len(received[s]) = 0
    BY <2>1
  <2> QED BY <1>0, <1>1, <2>2
<1>4. TypeOK'
  <2>1. answered' \in [Streams -> Nat]
    BY <1>0, <1>1 DEF IInv, TypeOK
  <2> QED BY <1>0, <1>2, <2>1 DEF IInv, TypeOK
<1>5. DownlinkOK'
  <2> SUFFICES ASSUME carry = "carrying"
               PROVE  /\ Len(got) + Len(downlink'[cur]) = answered'[cur]
                      /\ \A i \in 1..Len(downlink'[cur]) : downlink'[cur][i] = Len(got) + i
    BY <1>0, <1>1 DEF DownlinkOK
  <2>1. /\ Len(got) \in Nat
        /\ Len(got) + Len(downlink[s]) = answered[s]
        /\ \A i \in 1..Len(downlink[s]) : downlink[s][i] = Len(got) + i
    BY <1>1, LenProperties DEF IInv, TypeOK, DownlinkOK
  <2>2. answered'[s] = answered[s] + 1
    BY <1>0 DEF IInv, TypeOK
  <2>3. ASSUME NEW i \in 1..Len(downlink'[s]) PROVE downlink'[s][i] = Len(got) + i
    <3>1. CASE i \in 1..Len(downlink[s])
      BY <1>2, <2>1, <3>1
    <3>2. CASE i = Len(downlink[s]) + 1
      <4>1. downlink'[s][i] = answered[s] + 1
        BY <1>2, <3>2
      <4>2. Len(got) + i = answered[s] + 1
        BY <1>2, <2>1, <3>2
      <4> QED BY <4>1, <4>2
    <3> QED BY <1>2, <3>1, <3>2
  <2>4. Len(got) + Len(downlink'[s]) = answered'[s]
    BY <1>2, <2>1, <2>2
  <2> QED BY <1>1, <2>3, <2>4
<1>6. Phases' /\ ProbedStreamIsWhole'
  BY <1>0 DEF IInv, Phases, ProbedStreamIsWhole
<1>7. ASSUME NEW t \in Streams PROVE UplinkOK(t)' /\ StageOK(t)'
  <2>1. UplinkOK(t) /\ StageOK(t) /\ SentOn(t)' = SentOn(t)
    BY <1>0 DEF IInv, SentOn
  <2>2. CASE t = s
    BY <1>0, <1>1, <1>3, <2>1, <2>2 DEF UplinkOK, StageOK, Awaited, Unanswered
  <2>3. CASE t # s
    <3>1. answered'[t] = answered[t]
      BY <1>0, <2>3 DEF IInv, TypeOK
    <3> QED BY <1>0, <1>2, <2>1, <2>3, <3>1, LeftAlone DEF Alone
  <2> QED BY <2>2, <2>3
<1> QED BY <1>0, <1>4, <1>5, <1>6, <1>7 DEF IInv

LEMMA GonePreserves ==
    ASSUME IInv, NEW s \in Streams, LetGo(s) \/ ConnectFails(s)
    PROVE  IInv'
<1>0. /\ at[s] # "unknown"
      /\ at' = [at EXCEPT ![s] = "gone"]
      /\ UNCHANGED <<probed, carry, cur, asked, forwarded, got, opens, uplink, deaf, downlink,
                     opening, received, answered>>
  BY DEF LetGo, ConnectFails, Gone, UnderADeadline, dialler
<1>1. at'[s] = "gone"
  BY <1>0 DEF IInv, TypeOK
<1>2. TypeOK'
  BY <1>0 DEF IInv, TypeOK
<1>3. Phases' /\ DownlinkOK'
  BY <1>0 DEF IInv, Phases, DownlinkOK
<1>4. ProbedStreamIsWhole'
  BY <1>0 DEF IInv, TypeOK, ProbedStreamIsWhole, Phases, Streams
<1>5. ASSUME NEW t \in Streams PROVE UplinkOK(t)' /\ StageOK(t)'
  <2>1. UplinkOK(t) /\ StageOK(t) /\ SentOn(t)' = SentOn(t)
    BY <1>0 DEF IInv, SentOn
  <2>2. CASE t = s
    BY <1>0, <1>1, <2>1, <2>2 DEF UplinkOK, StageOK, Unanswered
  <2>3. CASE t # s
    <3>1. at'[t] = at[t]
      BY <1>0, <2>3 DEF IInv, TypeOK
    <3> QED BY <1>0, <2>1, <2>3, <3>1, LeftAlone DEF Alone
  <2> QED BY <2>2, <2>3
<1> QED BY <1>0, <1>2, <1>3, <1>4, <1>5 DEF IInv

LEMMA StutterPreserves == ASSUME IInv, UNCHANGED vars PROVE IInv'
BY DEF IInv, vars, dialler, listener, TypeOK, Phases, ProbedStreamIsWhole, DownlinkOK, UplinkOK,
       StageOK, Awaited, SentOn

LEMMA NextPreserves == IInv /\ [Next]_vars => IInv'
<1> SUFFICES ASSUME IInv, [Next]_vars PROVE IInv'
  OBVIOUS
<1>1. CASE Ask
  BY <1>1, QuietPreserves
<1>2. CASE Dialler
  BY <1>2, QuietPreserves, OpenStreamPreserves, KeepPreserves, ForwardPreserves,
     TakeAnswerPreserves DEF Dialler
<1>3. ASSUME NEW s \in Streams, OpenArrives(s) \/ Overtake(s) \/ Listener(s)
      PROVE  IInv'
  BY <1>3, OpenArrivesPreserves, OvertakePreserves, IntroducePreserves, FirstRequestPreserves,
     ConnectUpstreamPreserves, CarryRequestPreserves, CarryAnswerPreserves, GonePreserves
     DEF Listener
<1>4. CASE UNCHANGED vars
  BY <1>4, StutterPreserves
<1> QED BY <1>1, <1>2, <1>3, <1>4 DEF Next

LEMMA Invariance == Spec => []IInv
<1> QED BY InitEstablishes, NextPreserves, PTL DEF Spec

\* The wallet's bytes are handed to a probed stream only when the listening half has its Open and its
\* first payload, for any number of streams tried and in whatever order they arrive.
THEOREM ProbeFindsAWholeStream == Spec => []ProbedStreamIsWhole
<1>1. IInv => ProbedStreamIsWhole
  BY DEF IInv
<1> QED BY <1>1, Invariance, PTL

LEMMA ServedWasSentRequests ==
    ASSUME IInv, NEW s \in Streams, at[s] \in {"connecting", "splicing"} \/ received[s] # <<>>
    PROVE  s = cur /\ carry \in {"carrying", "closed"}
BY DEF IInv, TypeOK, StageOK, SentOn, Phases

\* The upstream hears of one stream at most, the one that was kept: a stream dropped while it was
\* probed never reaches it, however late its header arrives.
THEOREM OneStreamIsServed == Spec => []OnlyTheKeptStreamIsServed
<1>1. IInv => OnlyTheKeptStreamIsServed
  BY ServedWasSentRequests DEF OnlyTheKeptStreamIsServed
<1> QED BY <1>1, Invariance, PTL

-----------------------------------------------------------------------------
(* The two halves implement an ordinary connection. *)

\* If all but one of the streams are empty, the one the upstream heard on is as good as that one.
LEMMA ServedIs ==
    ASSUME NEW rec \in [Streams -> Seq(Nat)], NEW ans \in [Streams -> Nat], NEW c \in Streams,
           \A t \in Streams : rec[t] # <<>> => t = c,
           \A t \in Streams : rec[t] = <<>> => ans[t] = 0,
           NEW w, w = CHOOSE s \in Streams : \A t \in Streams : rec[t] # <<>> => t = s
    PROVE  rec[w] = rec[c] /\ ans[w] = ans[c]
<1>1. w \in Streams /\ \A t \in Streams : rec[t] # <<>> => t = w
  OBVIOUS
<1>2. CASE rec[c] = <<>>
  <2>1. rec[w] = <<>>
    BY <1>1, <1>2
  <2> QED BY <1>1, <1>2, <2>1
<1>3. CASE rec[c] # <<>>
  <2>1. w = c
    BY <1>1, <1>3
  <2> QED BY <2>1
<1> QED BY <1>2, <1>3

LEMMA ServedIsTheKept ==
    ASSUME IInv, cur \in Streams
    PROVE  received[Served] = received[cur] /\ answered[Served] = answered[cur]
<1>1. received \in [Streams -> Seq(Nat)] /\ answered \in [Streams -> Nat]
  BY DEF IInv, TypeOK
<1>2. \A t \in Streams : received[t] # <<>> => t = cur
  BY ServedWasSentRequests
<1>3. \A t \in Streams : received[t] = <<>> => answered[t] = 0
  BY DEF IInv, StageOK
<1> QED BY <1>1, <1>2, <1>3, ServedIs DEF Served

LEMMA ServedIsTheKeptNext ==
    ASSUME IInv', cur' \in Streams
    PROVE  received'[Served'] = received'[cur'] /\ answered'[Served'] = answered'[cur']
<1>1. received' \in [Streams -> Seq(Nat)] /\ answered' \in [Streams -> Nat]
  BY DEF IInv, TypeOK
<1>2. \A t \in Streams : received'[t] # <<>> => t = cur'
  BY DEF IInv, TypeOK, StageOK, SentOn
<1>3. \A t \in Streams : received'[t] = <<>> => answered'[t] = 0
  BY DEF IInv, StageOK
<1> QED BY <1>1, <1>2, <1>3, ServedIs DEF Served

LEMMA InitIsAConduit == Init => Promised!Init
<1> SUFFICES ASSUME Init PROVE Promised!Init
  OBVIOUS
<1>1. 1 \in Streams /\ \A t \in Streams : received[t] = <<>> /\ answered[t] = 0
  BY TunnelAssumption DEF Init, Streams
<1>2. Served \in Streams
  BY <1>1 DEF Served
<1> QED BY <1>1, <1>2 DEF Init, Promised!Init

LEMMA StepIsAConduitStep ==
    ASSUME IInv, IInv', [Next]_vars
    PROVE  [Promised!Next]_(Promised!conduit)
<1>1. ASSUME UNCHANGED <<received, answered>>
      PROVE  UNCHANGED <<received[Served], answered[Served]>>
  BY <1>1 DEF Served
<1>2. CASE Ask
  BY <1>1, <1>2 DEF Ask, listener, Promised!Next, Promised!Ask
<1>3. CASE OpenStream \/ OpenRefused \/ Keep \/ ProbeDeadline \/ Forward
  <2>1. /\ UNCHANGED <<asked, got, received, answered>>
        /\ carry # "closed" /\ carry' # "closed"
    BY <1>3 DEF OpenStream, OpenRefused, Tried, Keep, ProbeDeadline, Forward, HasStream, listener
  <2> QED BY <1>1, <2>1 DEF Promised!conduit
<1>4. CASE GiveUp \/ Stall \/ SpliceEnds
  <2>1. /\ UNCHANGED <<asked, got, received, answered>>
        /\ carry # "closed" /\ carry' = "closed"
    BY <1>4 DEF GiveUp, Stall, SpliceEnds, Close, listener
  <2> QED BY <1>1, <2>1 DEF Promised!Next, Promised!Close
<1>5. CASE TakeAnswer
  <2>1. /\ carry = "carrying" /\ carry' = "carrying" /\ downlink[cur] # <<>>
        /\ got' = Append(got, Head(downlink[cur]))
        /\ UNCHANGED <<asked, received, answered>>
    BY <1>5 DEF TakeAnswer, listener
  <2>2. /\ cur \in Streams /\ downlink[cur] \in Seq(Nat)
        /\ got \in Seq(Nat) /\ answered[cur] \in Nat
        /\ Len(got) + Len(downlink[cur]) = answered[cur]
        /\ \A i \in 1..Len(downlink[cur]) : downlink[cur][i] = Len(got) + i
    <3>1. cur \in Streams
      BY <2>1 DEF IInv, TypeOK, Phases, Streams
    <3>2. downlink[cur] \in Seq(Nat) /\ got \in Seq(Nat) /\ answered[cur] \in Nat
      BY <3>1 DEF IInv, TypeOK
    <3> QED BY <2>1, <3>1, <3>2 DEF IInv, DownlinkOK
  <2>3. Head(downlink[cur]) = Len(got) + 1 /\ Len(got) < answered[cur]
    <3>1. Len(downlink[cur]) \in Nat \ {0} /\ Head(downlink[cur]) = downlink[cur][1]
      BY <2>1, <2>2, EmptySeq, LenProperties, HeadTailProperties
    <3>2. 1 \in 1..Len(downlink[cur])
      BY <3>1
    <3>3. ASSUME NEW g \in Nat, NEW n \in Nat \ {0}, NEW a \in Nat, g + n = a PROVE g < a
      BY <3>3
    <3>4. Len(got) \in Nat
      BY <2>2, LenProperties
    <3> QED BY <2>2, <3>1, <3>2, <3>3, <3>4
  <2>4. Len(got) < answered[Served]
    BY <2>2, <2>3, ServedIsTheKept
  <2> QED BY <1>1, <2>1, <2>3, <2>4 DEF Promised!Next, Promised!Return
<1>6. ASSUME NEW s \in Streams,
             OpenArrives(s) \/ Overtake(s) \/ Introduce(s) \/ FirstRequest(s)
             \/ ConnectFails(s) \/ LetGo(s)
      PROVE  UNCHANGED Promised!conduit
  <2>1. UNCHANGED <<asked, got, carry, received, answered>>
    BY <1>6 DEF OpenArrives, Overtake, Introduce, FirstRequest, ConnectFails, LetGo, Gone, dialler,
                listener
  <2> QED BY <1>1, <2>1 DEF Promised!conduit
<1>7. ASSUME NEW s \in Streams, ConnectUpstream(s) \/ CarryRequest(s)
      PROVE  Promised!Deliver
  <2>1. /\ UNCHANGED <<asked, got, carry, cur, forwarded, answered>>
        /\ s = cur /\ cur \in Streams /\ forwarded > 0
    BY <1>7 DEF ConnectUpstream, CarryRequest, dialler, IInv, TypeOK, StageOK, SentOn
  <2>2. /\ received[Served] = received[cur] /\ answered[Served] = answered[cur]
        /\ received'[Served'] = received'[cur] /\ answered'[Served'] = answered[cur]
    BY <2>1, ServedIsTheKept, ServedIsTheKeptNext
  <2>3. received'[s] = Append(received[s], Len(received[s]) + 1) /\ Len(received[s]) < asked
    <3>1. CASE ConnectUpstream(s)
      <4>1. received[s] = <<>> /\ opening[s] = <<1>>
        BY <3>1 DEF ConnectUpstream, IInv, StageOK
      <4>2. received'[s] = <<1>>
        BY <3>1, <4>1, OneRequest DEF ConnectUpstream, OpeningWritten, IInv, TypeOK
      <4>3. Append(<<>>, 1) = <<1>> /\ Len(<<>>) = 0
        OBVIOUS
      <4>4. 0 < asked
        BY <2>1 DEF IInv, TypeOK
      <4> QED BY <4>1, <4>2, <4>3, <4>4
    <3>2. CASE CarryRequest(s)
      <4>1. at[s] = "splicing" /\ Arrived(s)
        BY <3>2 DEF CarryRequest
      <4>2. Awaited(s) = Len(received[s]) + 1 /\ Len(received[s]) \in Nat
        BY <4>1, LenProperties DEF IInv, TypeOK, Awaited, Unanswered
      <4>3. /\ Head(uplink[s]) = Awaited(s)
            /\ Len(uplink[s]) \in Nat \ {0} /\ SentOn(s) \in Nat
            /\ Awaited(s) + Len(uplink[s]) = SentOn(s) + 1
        BY <4>1, ReadsWhatItAwaits
      <4>4. received'[s] = Append(received[s], Len(received[s]) + 1)
        BY <3>2, <4>2, <4>3 DEF CarryRequest, IInv, TypeOK
      <4>5. SentOn(s) = forwarded /\ forwarded \in Nat /\ asked \in Nat /\ forwarded <= asked
        BY <2>1 DEF SentOn, IInv, TypeOK
      <4>6. ASSUME NEW r \in Nat, NEW n \in Nat \ {0}, NEW f \in Nat, NEW a \in Nat,
                   r + 1 + n = f + 1, f <= a
            PROVE  r < a
        BY <4>6
      <4>7. Len(received[s]) + 1 + Len(uplink[s]) = forwarded + 1
        BY <4>2, <4>3, <4>5
      <4> QED BY <4>2, <4>3, <4>4, <4>5, <4>6, <4>7
    <3> QED BY <1>7, <3>1, <3>2
  <2> QED BY <2>1, <2>2, <2>3 DEF Promised!Deliver
<1>8. ASSUME NEW s \in Streams, CarryAnswer(s)
      PROVE  Promised!Answer
  <2>1. /\ UNCHANGED <<asked, got, carry, cur, received>>
        /\ answered[s] < AnswerLen * Len(received[s])
        /\ answered'[s] = answered[s] + 1
        /\ s = cur /\ cur \in Streams
    BY <1>8 DEF CarryAnswer, dialler, IInv, TypeOK, StageOK, SentOn
  <2>2. /\ received[Served] = received[cur] /\ answered[Served] = answered[cur]
        /\ received'[Served'] = received'[cur] /\ answered'[Served'] = answered'[cur]
    BY <2>1, ServedIsTheKept, ServedIsTheKeptNext
  <2> QED BY <2>1, <2>2 DEF Promised!Answer
<1>9. CASE UNCHANGED vars
  BY <1>1, <1>9 DEF vars, dialler, listener, Promised!conduit
<1> QED BY <1>2, <1>3, <1>4, <1>5, <1>6, <1>7, <1>8, <1>9
        DEF Next, Dialler, Listener, Promised!Next

\* Over any number of streams, requests and chunks, the halves and the mixnet between them are an
\* ordinary connection that may end: nothing reordered, repeated or left out before what is delivered,
\* in either direction.
THEOREM TunnelRefinesAConduit == Spec => TunnelIsAConduit
<1>1. Init => Promised!Init
  BY InitIsAConduit
<1>2. IInv /\ IInv' /\ [Next]_vars => [Promised!Next]_(Promised!conduit)
  BY StepIsAConduitStep
<1> QED BY <1>1, <1>2, Invariance, PTL DEF Spec, TunnelIsAConduit, Promised!Spec

=============================================================================
