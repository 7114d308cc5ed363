---------------------------- MODULE ClientProofs -----------------------------
(***************************************************************************)
(* What the dialling half keeps for any number of wallet connections and   *)
(* any attempts and concurrency: every dial of its is one module DialProofs *)
(* speaks of, every connection is in one count, and the counters of the    *)
(* streams agree with the streams.                                         *)
(***************************************************************************)
EXTENDS Client, DialProofs

Metrics == {"connections", "in_flight", "rounds", "opened", "refused", "unanswered",
            "first_round_failures", "established", "unestablished", "ended"}

-----------------------------------------------------------------------------
(* The inductive invariant. *)

\* The connections that were counted when they arrived.
Arrived == {d \in Dials : stage[d] \notin {"new", "spawned", "unpolled"}}
Outside == At({"arrived", "closed", "aborted"})
Streamed == {d \in At({"counted", "carrying", "spliced", "aborted"}) : Answered(d)}
Unserved == {d \in Outcome : pc[d] = "gave_up"}
Rescued == {d \in Weighed : Answered(d) /\ Len(rounds[d]) > 1}
Doomed == {d \in At({"weighed"}) : pc[d] = "gave_up"}
Kept == {d \in Costed : Answered(d)}
CostedStreams == {s \in existed : s[1] \in Costed}
\* Those whose dial never had a stream.
Refused == {d \in At({"leaving", "closed"}) : \A s \in existed : s[1] # d}

\* Where a connection is, its dial is; and it was called as the command line said.
PlaceOK(d) ==
    /\ stage[d] \in {"new", "spawned", "unpolled", "arrived"} <=> pc[d] = "idle"
    /\ stage[d] = "dialling" => pc[d] \in Dialling \cup Resolved
    /\ stage[d] \in {"costed", "weighed", "counted"} => pc[d] \in Resolved
    /\ stage[d] = "carrying" => pc[d] = "returned"
    /\ stage[d] = "spliced" => pc[d] = "released"
    /\ stage[d] \in {"leaving", "closed"} => pc[d] \in {"gave_up", "released"}
    /\ stage[d] = "aborted" => pc[d] \in {"cancelled", "cut_short"}
    /\ pc[d] # "idle" =>
          settings[d] = [probe |-> ~ no_probe, attempts |-> Attempts, concurrency |-> Concurrency]

ClientTyped ==
    /\ no_probe \in BOOLEAN
    /\ stage \in [Dials -> Stages]
    /\ main \in {"serving", "draining", "aborting"}
    /\ metrics \in [Metrics -> Nat]
    /\ failed_in_a_row \in Nat /\ refusals \in Nat
    /\ degraded \in BOOLEAN /\ dead \in BOOLEAN

ConnectionsOK ==
    /\ IsFiniteSet(Arrived)
    /\ metrics.connections = Cardinality(Arrived)
    /\ metrics.in_flight = Cardinality(At(InFlight))
    /\ metrics.connections = metrics.in_flight + Cardinality(Outside)
    /\ metrics.established = metrics.ended + Cardinality(Streamed)
    /\ metrics.unestablished = Cardinality(Unserved)

RetriesOK ==
    /\ metrics.first_round_failures =
           metrics.unestablished + Cardinality(Rescued) + Cardinality(Doomed)
    /\ metrics.first_round_failures <= Cardinality(Weighed)

RefusalsOK ==
    /\ refusals <= Cardinality(Refused)
    /\ dead => Cardinality(Refused) >= RefusalLimit

CostsOK ==
    /\ IsFiniteSet(CostedStreams)
    /\ metrics.opened = Cardinality(CostedStreams)
    /\ metrics.opened + metrics.refused <= Attempts * Cardinality(Costed)
    /\ metrics.unanswered + Cardinality(Kept) <= metrics.opened
    /\ metrics.opened <= metrics.unanswered + Concurrency * Cardinality(Kept)

ClientInv ==
    /\ DialInv /\ HistoryInv
    /\ ClientTyped
    /\ \A d \in Dials : PlaceOK(d)
    /\ ConnectionsOK /\ RetriesOK /\ RefusalsOK /\ CostsOK

-----------------------------------------------------------------------------
(* Counting connections. *)

One(b) == IF b THEN 1 ELSE 0

LEMMA OneMoves ==
    ASSUME NEW S, IsFiniteSet(S), NEW T, NEW x, \A y : y # x => (y \in T <=> y \in S)
    PROVE  /\ IsFiniteSet(T) /\ Cardinality(S) \in Nat /\ Cardinality(T) \in Nat
           /\ Cardinality(T) = Cardinality(S) + One(x \in T) - One(x \in S)
<1>1. /\ IsFiniteSet(T) /\ Cardinality(S) \in Nat /\ Cardinality(T) \in Nat
      /\ (x \in T <=> x \in S) => T = S /\ Cardinality(T) = Cardinality(S)
      /\ x \in T /\ x \notin S => Cardinality(T) = Cardinality(S) + 1
      /\ x \notin T /\ x \in S => Cardinality(T) = Cardinality(S) - 1
  BY OneDiffers
<1> QED BY <1>1 DEF One

\* Every connection but one is where it was.
OthersStay(d) ==
    \A e \in Dials : e # d =>
        /\ UNCHANGED <<stage[e], pc[e], settings[e], rounds[e]>>
        /\ \A s : s[1] = e => (s \in existed' <=> s \in existed)

LEMMA ArrivedAreFinite ==
    ASSUME IsFiniteSet(Arrived)
    PROVE  /\ IsFiniteSet(At(InFlight)) /\ IsFiniteSet(Outside) /\ IsFiniteSet(Streamed)
           /\ IsFiniteSet(Unserved) /\ IsFiniteSet(Rescued) /\ IsFiniteSet(Doomed)
           /\ IsFiniteSet(Weighed) /\ IsFiniteSet(Costed) /\ IsFiniteSet(Kept)
           /\ IsFiniteSet(Refused)
<1>1. /\ At(InFlight) \subseteq Arrived /\ Outside \subseteq Arrived
      /\ Streamed \subseteq Arrived /\ Outcome \subseteq Arrived
      /\ Doomed \subseteq Arrived /\ At({"weighed"}) \subseteq Arrived
      /\ At({"costed"}) \subseteq Arrived /\ Refused \subseteq Arrived
  BY DEF At, InFlight, Outside, Streamed, Outcome, Doomed, Refused, Arrived
<1>2. Weighed \subseteq Arrived /\ Costed \subseteq Arrived
  BY <1>1 DEF Weighed, Costed
<1>3. Unserved \subseteq Arrived /\ Rescued \subseteq Arrived /\ Kept \subseteq Arrived
  BY <1>1, <1>2 DEF Unserved, Rescued, Kept
<1> QED BY <1>1, <1>2, <1>3, FS_Subset

\* How a set of connections has grown with the one that moved.
Grows(S, T, d) ==
    /\ Cardinality(S) \in Nat /\ Cardinality(T) \in Nat
    /\ Cardinality(T) = Cardinality(S) + One(d \in T) - One(d \in S)

LEMMA OneConnectionMoves ==
    ASSUME IsFiniteSet(Arrived), NEW d \in Dials, OthersStay(d)
    PROVE  /\ IsFiniteSet(Arrived')
           /\ Grows(Arrived, Arrived', d)
           /\ Grows(At(InFlight), At(InFlight)', d)
           /\ Grows(Outside, Outside', d)
           /\ Grows(Streamed, Streamed', d)
           /\ Grows(Unserved, Unserved', d)
           /\ Grows(Rescued, Rescued', d)
           /\ Grows(Doomed, Doomed', d)
           /\ Grows(Weighed, Weighed', d)
           /\ Grows(Costed, Costed', d)
           /\ Grows(Kept, Kept', d)
           /\ Grows(Refused, Refused', d)
<1>1. \A e : e # d => /\ (e \in Arrived' <=> e \in Arrived)
                      /\ (e \in At(InFlight)' <=> e \in At(InFlight))
                      /\ (e \in Outside' <=> e \in Outside)
                      /\ (e \in Doomed' <=> e \in Doomed)
  BY DEF OthersStay, Arrived, At, Outside, Doomed
<1>2. \A e : e # d => /\ (e \in Streamed' <=> e \in Streamed)
                      /\ (e \in Outcome' <=> e \in Outcome)
                      /\ (e \in At({"weighed"})' <=> e \in At({"weighed"}))
                      /\ (e \in At({"costed"})' <=> e \in At({"costed"}))
  BY DEF OthersStay, Streamed, Outcome, At, Answered
<1>3. \A e : e # d => (e \in Weighed' <=> e \in Weighed) /\ (e \in Costed' <=> e \in Costed)
  BY <1>2 DEF Weighed, Costed
<1>4. Costed \subseteq Dials /\ Weighed \subseteq Dials /\ Outcome \subseteq Dials
  BY DEF Costed, Weighed, Outcome, At
<1>5. Costed' \subseteq Dials /\ Weighed' \subseteq Dials /\ Outcome' \subseteq Dials
  BY DEF Costed, Weighed, Outcome, At
<1>6. \A e \in Dials : e # d =>
          Answered(e)' = Answered(e) /\ rounds'[e] = rounds[e] /\ pc'[e] = pc[e]
  BY DEF OthersStay, Answered
<1>7. \A e : e # d => /\ (e \in Unserved' <=> e \in Unserved)
                      /\ (e \in Rescued' <=> e \in Rescued)
                      /\ (e \in Kept' <=> e \in Kept)
  BY <1>2, <1>3, <1>4, <1>5, <1>6 DEF Unserved, Rescued, Kept
<1>8. \A e : e # d => (e \in Refused' <=> e \in Refused)
  BY DEF OthersStay, Refused, At
<1>9. /\ IsFiniteSet(At(InFlight)) /\ IsFiniteSet(Outside) /\ IsFiniteSet(Streamed)
      /\ IsFiniteSet(Unserved) /\ IsFiniteSet(Rescued) /\ IsFiniteSet(Doomed)
      /\ IsFiniteSet(Weighed) /\ IsFiniteSet(Costed) /\ IsFiniteSet(Kept)
      /\ IsFiniteSet(Refused)
  BY ArrivedAreFinite
<1> USE DEF Grows
<1>10. IsFiniteSet(Arrived') /\ Grows(Arrived, Arrived', d)
  BY <1>1, OneMoves
<1>11. Grows(At(InFlight), At(InFlight)', d)
  BY <1>1, <1>9, OneMoves
<1>12. Grows(Outside, Outside', d)
  BY <1>1, <1>9, OneMoves
<1>13. Grows(Streamed, Streamed', d)
  BY <1>2, <1>9, OneMoves
<1>14. Grows(Unserved, Unserved', d)
  BY <1>7, <1>9, OneMoves
<1>15. Grows(Rescued, Rescued', d)
  BY <1>7, <1>9, OneMoves
<1>16. Grows(Doomed, Doomed', d)
  BY <1>1, <1>9, OneMoves
<1>17. Grows(Weighed, Weighed', d)
  BY <1>3, <1>9, OneMoves
<1>18. Grows(Costed, Costed', d)
  BY <1>3, <1>9, OneMoves
<1>19. Grows(Kept, Kept', d)
  BY <1>7, <1>9, OneMoves
<1>20. Grows(Refused, Refused', d)
  BY <1>8, <1>9, OneMoves
<1> QED BY <1>10, <1>11, <1>12, <1>13, <1>14, <1>15, <1>16, <1>17, <1>18, <1>19, <1>20

\* Which sets a connection is in.
Sits(d) ==
    /\ d \in Arrived <=> stage[d] \notin {"new", "spawned", "unpolled"}
    /\ d \in At(InFlight) <=> stage[d] \in InFlight
    /\ d \in Outside <=> stage[d] \in {"arrived", "closed", "aborted"}
    /\ d \in Streamed <=> stage[d] \in {"counted", "carrying", "spliced", "aborted"} /\ Answered(d)
    /\ d \in Outcome <=>
           \/ stage[d] \in {"counted", "carrying", "spliced", "leaving", "closed"}
           \/ stage[d] = "aborted" /\ Answered(d)
    /\ d \in Weighed <=> d \in Outcome \/ stage[d] = "weighed"
    /\ d \in Costed <=> d \in Weighed \/ stage[d] = "costed"
    /\ d \in Unserved <=> d \in Outcome /\ pc[d] = "gave_up"
    /\ d \in Rescued <=> d \in Weighed /\ Answered(d) /\ Len(rounds[d]) > 1
    /\ d \in Doomed <=> stage[d] = "weighed" /\ pc[d] = "gave_up"
    /\ d \in Kept <=> d \in Costed /\ Answered(d)
    /\ d \in Refused <=> stage[d] \in {"leaving", "closed"} /\ \A s \in existed : s[1] # d

LEMMA Membership == ASSUME NEW d \in Dials PROVE Sits(d) /\ Sits(d)'
<1>1. Sits(d)
  BY DEF Sits, Arrived, At, Outside, Streamed, Outcome, Weighed, Costed, Unserved, Rescued, Doomed,
         Kept, Refused
<1>2. Sits(d)'
  BY DEF Sits, Arrived, At, Outside, Streamed, Outcome, Weighed, Costed, Unserved, Rescued, Doomed,
         Kept, Refused
<1> QED BY <1>1, <1>2

\* The counters of connections have followed the one that moved.
CountersFollow(d) ==
    /\ metrics'.connections = metrics.connections + One(d \in Arrived') - One(d \in Arrived)
    /\ metrics'.in_flight = metrics.in_flight + One(d \in At(InFlight)') - One(d \in At(InFlight))
    /\ One(d \in Arrived') - One(d \in Arrived) =
           One(d \in At(InFlight)') - One(d \in At(InFlight))
           + One(d \in Outside') - One(d \in Outside)
    /\ metrics'.established - metrics.established =
           metrics'.ended - metrics.ended + One(d \in Streamed') - One(d \in Streamed)
    /\ metrics'.unestablished = metrics.unestablished + One(d \in Unserved') - One(d \in Unserved)

RetriesFollow(d) ==
    /\ metrics'.first_round_failures - metrics.first_round_failures =
           metrics'.unestablished - metrics.unestablished + One(d \in Rescued') - One(d \in Rescued)
           + One(d \in Doomed') - One(d \in Doomed)
    /\ metrics'.first_round_failures - metrics.first_round_failures <=
           One(d \in Weighed') - One(d \in Weighed)

RefusalsFollow(d) ==
    /\ d \in Refused => d \in Refused'
    /\ refusals' \in Nat
    /\ refusals' <= refusals + One(d \in Refused') - One(d \in Refused)
    /\ dead' => dead \/ refusals' >= RefusalLimit

\* The counters stay right in a step of one connection they follow.
LEMMA CountersStayRight ==
    ASSUME ConnectionsOK, RetriesOK, RefusalsOK, ClientTyped, ClientTyped',
           NEW d \in Dials, OthersStay(d),
           CountersFollow(d), RetriesFollow(d), RefusalsFollow(d)
    PROVE  ConnectionsOK' /\ RetriesOK' /\ RefusalsOK'
<1>1. /\ IsFiniteSet(Arrived')
      /\ Grows(Arrived, Arrived', d) /\ Grows(At(InFlight), At(InFlight)', d)
      /\ Grows(Outside, Outside', d) /\ Grows(Streamed, Streamed', d)
      /\ Grows(Unserved, Unserved', d)
  BY OneConnectionMoves DEF ConnectionsOK
<1>2. /\ Grows(Rescued, Rescued', d) /\ Grows(Doomed, Doomed', d)
      /\ Grows(Weighed, Weighed', d) /\ Grows(Refused, Refused', d)
  BY OneConnectionMoves DEF ConnectionsOK
<1>4. \A f \in Metrics : metrics[f] \in Nat /\ metrics'[f] \in Nat
  BY DEF ClientTyped
<1>5. /\ metrics.connections \in Nat /\ metrics.in_flight \in Nat /\ metrics.ended \in Nat
      /\ metrics.established \in Nat /\ metrics.unestablished \in Nat
      /\ metrics.first_round_failures \in Nat
      /\ metrics'.connections \in Nat /\ metrics'.in_flight \in Nat /\ metrics'.ended \in Nat
      /\ metrics'.established \in Nat /\ metrics'.unestablished \in Nat
      /\ metrics'.first_round_failures \in Nat
  BY <1>4 DEF Metrics
<1>6. \A b : One(b) \in 0..1
  BY DEF One
<1>7. ConnectionsOK'
  <2>1. metrics'.connections = Cardinality(Arrived')
    BY <1>1, <1>5, <1>6 DEF ConnectionsOK, CountersFollow, Grows
  <2>2. metrics'.in_flight = Cardinality(At(InFlight)')
    BY <1>1, <1>5, <1>6 DEF ConnectionsOK, CountersFollow, Grows
  <2>3. metrics'.connections = metrics'.in_flight + Cardinality(Outside')
    BY <1>1, <1>5, <1>6 DEF ConnectionsOK, CountersFollow, Grows
  <2>4. metrics'.established = metrics'.ended + Cardinality(Streamed')
    <3>1. \A b : One(b) \in Int
      BY <1>6
    <3>2. metrics.established = metrics.ended + Cardinality(Streamed)
      BY DEF ConnectionsOK
    <3>3. /\ Cardinality(Streamed') = Cardinality(Streamed) + One(d \in Streamed') - One(d \in Streamed)
          /\ Cardinality(Streamed) \in Nat
      BY <1>1 DEF Grows
    <3>4. metrics'.established - metrics.established =
              metrics'.ended - metrics.ended + One(d \in Streamed') - One(d \in Streamed)
      BY DEF CountersFollow
    <3> QED BY <1>5, <3>1, <3>2, <3>3, <3>4
  <2>5. metrics'.unestablished = Cardinality(Unserved')
    BY <1>1, <1>5, <1>6 DEF ConnectionsOK, CountersFollow, Grows
  <2> QED BY <1>1, <2>1, <2>2, <2>3, <2>4, <2>5 DEF ConnectionsOK
<1>8. RetriesOK'
  <2>1. metrics'.first_round_failures =
            metrics'.unestablished + Cardinality(Rescued') + Cardinality(Doomed')
    BY <1>2, <1>5, <1>6 DEF RetriesOK, RetriesFollow, Grows
  <2>2. metrics'.first_round_failures <= Cardinality(Weighed')
    BY <1>2, <1>5, <1>6 DEF RetriesOK, RetriesFollow, Grows
  <2> QED BY <2>1, <2>2 DEF RetriesOK
<1>9. RefusalsOK'
  <2>1. refusals \in Nat /\ RefusalLimit \in Nat
    BY ClientAssumption DEF ClientTyped
  <2>2. One(d \in Refused) <= One(d \in Refused')
    BY DEF One, RefusalsFollow
  <2>3. refusals' <= Cardinality(Refused')
    BY <1>2, <1>6, <2>1 DEF RefusalsOK, RefusalsFollow, Grows
  <2>4. ASSUME dead' PROVE Cardinality(Refused') >= RefusalLimit
    <3>1. CASE dead
      BY <1>2, <1>6, <2>1, <2>2, <3>1 DEF RefusalsOK, Grows
    <3>2. CASE refusals' >= RefusalLimit
      BY <1>2, <2>1, <2>3, <3>2 DEF RefusalsFollow, Grows
    <3> QED BY <2>4, <3>1, <3>2 DEF RefusalsFollow
  <2> QED BY <2>3, <2>4 DEF RefusalsOK
<1> QED BY <1>7, <1>8, <1>9

LEMMA OthersCosted ==
    ASSUME NEW d \in Dials, OthersStay(d)
    PROVE  \A e : e # d => (e \in Costed' <=> e \in Costed) /\ (e \in Kept' <=> e \in Kept)
<1>1. \A e : e # d => (e \in Costed' <=> e \in Costed)
  BY DEF OthersStay, Costed, Weighed, Outcome, At, Answered
<1>2. Costed \subseteq Dials
  BY DEF Costed, Weighed, Outcome, At
<1>3. \A e \in Dials : e # d => Answered(e)' = Answered(e)
  BY DEF OthersStay, Answered
<1> QED BY <1>1, <1>2, <1>3 DEF Kept

\* A step that counts no dial leaves what dials cost.
LEMMA CostsStayRight ==
    ASSUME CostsOK, NEW d \in Dials, OthersStay(d),
           d \in Costed' <=> d \in Costed, d \in Kept' <=> d \in Kept,
           d \in Costed => existed' = existed,
           metrics'.opened = metrics.opened, metrics'.refused = metrics.refused,
           metrics'.unanswered = metrics.unanswered
    PROVE  CostsOK'
<1>1. Costed' = Costed /\ Kept' = Kept
  BY OthersCosted
<1>2. \A s : s[1] \in Costed => (s \in existed' <=> s \in existed)
  <2> SUFFICES ASSUME NEW s, s[1] \in Costed PROVE s \in existed' <=> s \in existed
    OBVIOUS
  <2>1. s[1] \in Dials
    BY DEF Costed, Weighed, Outcome, At
  <2>2. CASE s[1] = d
    BY <2>2
  <2>3. CASE s[1] # d
    BY <2>1, <2>3 DEF OthersStay
  <2> QED BY <2>2, <2>3
<1>3. CostedStreams' = CostedStreams
  BY <1>1, <1>2 DEF CostedStreams
<1> QED BY <1>1, <1>3 DEF CostsOK

LEMMA StepStaysRight ==
    ASSUME ClientInv, NEW d \in Dials, OthersStay(d), no_probe' = no_probe,
           DialInv', HistoryInv', ClientTyped', PlaceOK(d)',
           CountersFollow(d), RetriesFollow(d), RefusalsFollow(d), CostsOK'
    PROVE  ClientInv'
<1>1. ConnectionsOK' /\ RetriesOK' /\ RefusalsOK'
  BY CountersStayRight DEF ClientInv
<1>2. ASSUME NEW e \in Dials, e # d PROVE PlaceOK(e)'
  <2>1. UNCHANGED <<stage[e], pc[e], settings[e]>>
    BY <1>2 DEF OthersStay
  <2> QED BY <2>1 DEF ClientInv, PlaceOK
<1> QED BY <1>1, <1>2 DEF ClientInv

\* What moving one connection on does to the stages, and what a step that leaves its dial alone keeps.
LEMMA OneEnters ==
    ASSUME ClientInv, NEW d \in Dials, NEW to \in Stages, Enter(d, to)
    PROVE  /\ stage'[d] = to /\ stage' \in [Dials -> Stages]
           /\ \A e \in Dials : e # d => stage'[e] = stage[e]
<1>1. stage \in [Dials -> Stages] /\ stage' = [stage EXCEPT ![d] = to]
  BY DEF ClientInv, ClientTyped, Enter
<1> QED BY <1>1

LEMMA DialRests ==
    ASSUME ClientInv, NEW d \in Dials, NEW to \in Stages, Enter(d, to), UNCHANGED dialVars
    PROVE  /\ DialInv' /\ HistoryInv' /\ OthersStay(d)
           /\ UNCHANGED <<pc, settings, rounds, existed>>
           /\ Answered(d)' = Answered(d)
<1>1. UNCHANGED <<pc, settings, rounds, existed>>
  BY DEF dialVars
<1>2. DialInv' /\ HistoryInv'
  BY StutterKeeps, HistoryOfStutter DEF ClientInv
<1>3. OthersStay(d)
  BY <1>1, OneEnters DEF OthersStay
<1> QED BY <1>1, <1>2, <1>3 DEF Answered

\* What raising one counter does to the others, and dropping the guard.
LEMMA OneRaised ==
    ASSUME metrics \in [Metrics -> Nat], NEW c \in Metrics, metrics' = Raise(c)
    PROVE  /\ metrics' \in [Metrics -> Nat] /\ metrics'[c] = metrics[c] + 1
           /\ \A f \in Metrics : metrics[f] \in Nat /\ (f # c => metrics'[f] = metrics[f])
<1>1. \A f \in Metrics : metrics[f] \in Nat
  OBVIOUS
<1>2. metrics' = [metrics EXCEPT ![c] = @ + 1]
  BY DEF Raise
<1>3. metrics'[c] = metrics[c] + 1 /\ \A f \in Metrics : f # c => metrics'[f] = metrics[f]
  BY <1>2
<1>4. \A f \in Metrics : metrics'[f] \in Nat
  BY <1>1, <1>3
<1>5. metrics' = [f \in Metrics |-> metrics'[f]]
  BY <1>2
<1> QED BY <1>1, <1>3, <1>4, <1>5

LEMMA GuardDrops ==
    ASSUME ClientInv, NEW d \in At(InFlight), metrics' = GuardDropped
    PROVE  /\ metrics' \in [Metrics -> Nat]
           /\ metrics'["in_flight"] = metrics["in_flight"] - 1
           /\ \A f \in Metrics : metrics[f] \in Nat /\ (f # "in_flight" => metrics'[f] = metrics[f])
<1>1. metrics \in [Metrics -> Nat] /\ \A f \in Metrics : metrics[f] \in Nat
  BY DEF ClientInv, ClientTyped
<1>2. metrics["in_flight"] > 0
  <2>1. metrics["in_flight"] = Cardinality(At(InFlight)) /\ IsFiniteSet(At(InFlight))
    BY ArrivedAreFinite DEF ClientInv, ConnectionsOK
  <2> QED BY <1>1, <2>1, FS_EmptySet DEF Metrics
<1>3. /\ metrics'["in_flight"] = metrics["in_flight"] - 1
      /\ \A f \in Metrics : f # "in_flight" => metrics'[f] = metrics[f]
  BY <1>1 DEF GuardDropped, Metrics
<1>4. \A f \in Metrics : metrics'[f] \in Nat
  BY <1>1, <1>2, <1>3 DEF Metrics
<1>5. metrics' = [f \in Metrics |-> metrics'[f]]
  BY <1>1 DEF GuardDropped
<1> QED BY <1>1, <1>3, <1>4, <1>5

LEMMA GetOnKeeps ==
    ASSUME ClientInv, NEW d \in Dials, GetOn(d)
    PROVE  ClientInv'
<1>1. DialInv /\ HistoryInv /\ DialStep(d) /\ UNCHANGED clientVars
  BY DEF ClientInv, GetOn
<1>2. DialInv' /\ HistoryInv'
  BY <1>1, StepKeeps, HistoryOfStep
<1>3. /\ pc[d] \in Dialling /\ pc'[d] \in Dialling \cup Resolved
      /\ settings' = settings /\ OthersRest(d)
      /\ \A s : s[1] # d => (s \in existed' <=> s \in existed)
  BY <1>1, DialStepStays
<1>4. UNCHANGED <<no_probe, stage, main, metrics, failed_in_a_row, refusals, degraded, dead>>
  BY <1>1 DEF clientVars, streaks
<1>5. OthersStay(d)
  BY <1>3, <1>4 DEF OthersRest, OthersStay
<1>6. stage[d] = "dialling" /\ PlaceOK(d)
  <2>1. PlaceOK(d) /\ stage[d] \in Stages
    BY DEF ClientInv, ClientTyped
  <2> QED BY <1>3, <2>1 DEF PlaceOK, Stages, InFlight, Dialling, Resolved
<1>7. PlaceOK(d)'
  BY <1>3, <1>4, <1>6 DEF PlaceOK, Dialling, Resolved
<1>8. ClientTyped'
  BY <1>4 DEF ClientInv, ClientTyped
<1>9. Sits(d) /\ Sits(d)'
  BY Membership
<1>10. /\ d \in Arrived /\ d \in Arrived' /\ d \in At(InFlight) /\ d \in At(InFlight)'
       /\ d \notin Outside /\ d \notin Outside' /\ d \notin Outcome /\ d \notin Outcome'
       /\ d \notin Streamed /\ d \notin Streamed' /\ d \notin Doomed /\ d \notin Doomed'
       /\ d \notin Refused /\ d \notin Refused'
  BY <1>4, <1>6, <1>9 DEF Sits, InFlight
<1>11. /\ d \notin Weighed /\ d \notin Weighed' /\ d \notin Costed /\ d \notin Costed'
       /\ d \notin Unserved /\ d \notin Unserved' /\ d \notin Rescued /\ d \notin Rescued'
       /\ d \notin Kept /\ d \notin Kept'
  BY <1>4, <1>6, <1>9, <1>10 DEF Sits
<1>12. \A f \in Metrics : metrics[f] \in Nat /\ metrics'[f] = metrics[f]
  BY <1>4 DEF ClientInv, ClientTyped
<1>13. CountersFollow(d)
  BY <1>10, <1>11, <1>12 DEF CountersFollow, One, Metrics
<1>14. RetriesFollow(d)
  BY <1>10, <1>11, <1>12 DEF RetriesFollow, One, Metrics
<1>15. RefusalsFollow(d)
  BY <1>4, <1>10 DEF RefusalsFollow, One, ClientInv, ClientTyped
<1>16. CostsOK'
  BY <1>4, <1>5, <1>11, CostsStayRight DEF ClientInv
<1> QED BY <1>2, <1>4, <1>5, <1>7, <1>8, <1>13, <1>14, <1>15, <1>16, StepStaysRight

\* Accepting a connection, and aborting one whose task never ran.
LEMMA UncountedKeeps ==
    ASSUME ClientInv, NEW d \in Dials, NEW to \in {"spawned", "unpolled"},
           stage[d] \in {"new", "spawned"}, Enter(d, to),
           UNCHANGED <<dialVars, no_probe, main, metrics, streaks>>
    PROVE  ClientInv'
<1>1. to \in Stages
  BY DEF Stages
<1>2. /\ UNCHANGED dialVars
      /\ UNCHANGED <<no_probe, main, metrics, failed_in_a_row, refusals, degraded, dead>>
  BY DEF streaks
<1>3. /\ DialInv' /\ HistoryInv' /\ OthersStay(d) /\ UNCHANGED <<pc, settings, rounds, existed>>
      /\ stage'[d] = to /\ stage' \in [Dials -> Stages]
  BY <1>1, <1>2, DialRests, OneEnters
<1>4. PlaceOK(d)'
  BY <1>2, <1>3 DEF ClientInv, PlaceOK
<1>5. ClientTyped'
  BY <1>2, <1>3 DEF ClientInv, ClientTyped
<1>6. Sits(d) /\ Sits(d)'
  BY Membership
<1>7. /\ d \notin Arrived /\ d \notin Arrived' /\ d \notin At(InFlight) /\ d \notin At(InFlight)'
      /\ d \notin Outside /\ d \notin Outside' /\ d \notin Outcome /\ d \notin Outcome'
      /\ d \notin Streamed /\ d \notin Streamed' /\ d \notin Doomed /\ d \notin Doomed'
      /\ d \notin Refused /\ d \notin Refused'
  BY <1>3, <1>6 DEF Sits, InFlight
<1>8. /\ d \notin Weighed /\ d \notin Weighed' /\ d \notin Costed /\ d \notin Costed'
      /\ d \notin Unserved /\ d \notin Unserved' /\ d \notin Rescued /\ d \notin Rescued'
      /\ d \notin Kept /\ d \notin Kept'
  BY <1>3, <1>6, <1>7 DEF Sits
<1>9. \A f \in Metrics : metrics[f] \in Nat /\ metrics'[f] = metrics[f]
  BY <1>2 DEF ClientInv, ClientTyped
<1>10. CountersFollow(d)
  BY <1>7, <1>8, <1>9 DEF CountersFollow, One, Metrics
<1>11. RetriesFollow(d)
  BY <1>7, <1>8, <1>9 DEF RetriesFollow, One, Metrics
<1>12. RefusalsFollow(d)
  BY <1>2, <1>7 DEF RefusalsFollow, One, ClientInv, ClientTyped
<1>13. CostsOK'
  BY <1>2, <1>3, <1>8, CostsStayRight DEF ClientInv
<1> QED BY <1>2, <1>3, <1>4, <1>5, <1>10, <1>11, <1>12, <1>13, StepStaysRight

LEMMA ArriveKeeps ==
    ASSUME ClientInv, NEW d \in Dials, Arrive(d)
    PROVE  ClientInv'
<1>1. /\ stage[d] = "spawned" /\ Enter(d, "arrived") /\ metrics' = Raise("connections")
      /\ UNCHANGED <<no_probe, main, failed_in_a_row, refusals, degraded, dead>>
      /\ UNCHANGED dialVars
  BY DEF Arrive, streaks
<1>2. /\ DialInv' /\ HistoryInv' /\ OthersStay(d) /\ UNCHANGED <<pc, settings, rounds, existed>>
      /\ stage'[d] = "arrived" /\ stage' \in [Dials -> Stages]
  <2>1. "arrived" \in Stages
    BY DEF Stages
  <2> QED BY <1>1, <2>1, DialRests, OneEnters
<1>3. PlaceOK(d)'
  BY <1>1, <1>2 DEF ClientInv, PlaceOK
<1>4. /\ metrics' \in [Metrics -> Nat] /\ metrics'["connections"] = metrics["connections"] + 1
      /\ \A f \in Metrics : metrics[f] \in Nat /\ (f # "connections" => metrics'[f] = metrics[f])
  BY <1>1, OneRaised DEF ClientInv, ClientTyped, Metrics
<1>5. ClientTyped'
  BY <1>1, <1>2, <1>4 DEF ClientInv, ClientTyped
<1>6. Sits(d) /\ Sits(d)'
  BY Membership
<1>7. /\ d \notin Arrived /\ d \in Arrived' /\ d \notin At(InFlight) /\ d \notin At(InFlight)'
      /\ d \notin Outside /\ d \in Outside' /\ d \notin Outcome /\ d \notin Outcome'
      /\ d \notin Streamed /\ d \notin Streamed' /\ d \notin Doomed /\ d \notin Doomed'
      /\ d \notin Refused /\ d \notin Refused'
  BY <1>1, <1>2, <1>6 DEF Sits, InFlight
<1>8. /\ d \notin Weighed /\ d \notin Weighed' /\ d \notin Costed /\ d \notin Costed'
      /\ d \notin Unserved /\ d \notin Unserved' /\ d \notin Rescued /\ d \notin Rescued'
      /\ d \notin Kept /\ d \notin Kept'
  BY <1>1, <1>2, <1>6, <1>7 DEF Sits
<1>9. CountersFollow(d)
  BY <1>4, <1>7, <1>8 DEF CountersFollow, One, Metrics
<1>10. RetriesFollow(d)
  BY <1>4, <1>7, <1>8 DEF RetriesFollow, One, Metrics
<1>11. RefusalsFollow(d)
  BY <1>1, <1>7 DEF RefusalsFollow, One, ClientInv, ClientTyped
<1>12. CostsOK'
  BY <1>2, <1>4, <1>8, CostsStayRight DEF ClientInv, Metrics
<1> QED BY <1>1, <1>2, <1>3, <1>5, <1>9, <1>10, <1>11, <1>12, StepStaysRight

LEMMA CallKeeps ==
    ASSUME ClientInv, NEW d \in Dials, Call(d)
    PROVE  ClientInv'
<1> DEFINE with == [probe |-> ~ no_probe, attempts |-> Attempts, concurrency |-> Concurrency]
<1>1. /\ stage[d] = "arrived" /\ Enter(d, "dialling") /\ Begin(d, with)
      /\ metrics' = Raise("in_flight")
      /\ UNCHANGED <<no_probe, main, failed_in_a_row, refusals, degraded, dead>>
  BY DEF Call, streaks
<1>2. with \in Settings
  BY ClientAssumption DEF Settings, ClientInv, ClientTyped
<1>3. DialInv /\ HistoryInv /\ Typed
  BY TypedWithMutex DEF ClientInv, DialInv
<1>4. DialInv' /\ HistoryInv'
  BY <1>1, <1>2, <1>3, StepKeeps, HistoryOfStep
<1>5. /\ pc' = [pc EXCEPT ![d] = "locking"] /\ settings' = [settings EXCEPT ![d] = with]
      /\ \E rs : rounds' = [rounds EXCEPT ![d] = rs]
      /\ existed' = {s \in existed : s[1] # d}
  BY <1>1 DEF Begin, BeginRound, Move
<1>6. /\ stage'[d] = "dialling" /\ stage' \in [Dials -> Stages]
      /\ \A e \in Dials : e # d => stage'[e] = stage[e]
  <2>1. "dialling" \in Stages
    BY DEF Stages, InFlight
  <2> QED BY <1>1, <2>1, OneEnters
<1>7. pc'[d] = "locking" /\ settings'[d] = with
  BY <1>3, <1>5 DEF Typed
<1>8. OthersStay(d)
  BY <1>3, <1>5, <1>6 DEF OthersStay, Typed
<1>9. PlaceOK(d)'
  BY <1>1, <1>6, <1>7 DEF PlaceOK, Dialling
<1>10. /\ metrics' \in [Metrics -> Nat] /\ metrics'["in_flight"] = metrics["in_flight"] + 1
       /\ \A f \in Metrics : metrics[f] \in Nat /\ (f # "in_flight" => metrics'[f] = metrics[f])
  BY <1>1, OneRaised DEF ClientInv, ClientTyped, Metrics
<1>11. ClientTyped'
  BY <1>1, <1>6, <1>10 DEF ClientInv, ClientTyped
<1>12. Sits(d) /\ Sits(d)'
  BY Membership
<1>13. /\ d \in Arrived /\ d \in Arrived' /\ d \notin At(InFlight) /\ d \in At(InFlight)'
       /\ d \in Outside /\ d \notin Outside' /\ d \notin Outcome /\ d \notin Outcome'
       /\ d \notin Streamed /\ d \notin Streamed' /\ d \notin Doomed /\ d \notin Doomed'
       /\ d \notin Refused /\ d \notin Refused'
  BY <1>1, <1>6, <1>12 DEF Sits, InFlight
<1>14. /\ d \notin Weighed /\ d \notin Weighed' /\ d \notin Costed /\ d \notin Costed'
       /\ d \notin Unserved /\ d \notin Unserved' /\ d \notin Rescued /\ d \notin Rescued'
       /\ d \notin Kept /\ d \notin Kept'
  BY <1>1, <1>6, <1>12, <1>13 DEF Sits
<1>15. CountersFollow(d)
  BY <1>10, <1>13, <1>14 DEF CountersFollow, One, Metrics
<1>16. RetriesFollow(d)
  BY <1>10, <1>13, <1>14 DEF RetriesFollow, One, Metrics
<1>17. RefusalsFollow(d)
  BY <1>1, <1>13 DEF RefusalsFollow, One, ClientInv, ClientTyped
<1>18. CostsOK'
  BY <1>8, <1>10, <1>14, CostsStayRight DEF ClientInv, Metrics
<1> QED BY <1>1, <1>4, <1>8, <1>9, <1>11, <1>15, <1>16, <1>17, <1>18, StepStaysRight

-----------------------------------------------------------------------------
(* A dial that is over. *)

\* Whether a dial was answered is how it ended.
LEMMA AnsweredIsHow ==
    ASSUME DialInv, HistoryInv, NEW d \in Dials
    PROVE  /\ pc[d] \in {"returned", "released"} => Answered(d)
           /\ pc[d] \in Dialling \cup {"gave_up", "cut_short"} => ~ Answered(d)
<1>1. rounds[d] \in Seq(Round)
  BY TypedWithMutex DEF DialInv, Typed
<1>2. Answered(d) <=> AnsweredLast(rounds[d])
  BY DEF Answered, AnsweredLast
<1>3. ASSUME pc[d] \in {"returned", "released"} PROVE Answered(d)
  BY <1>2, <1>3 DEF HistoryInv, HistoryOK, HistoryOf
<1>4. ASSUME pc[d] \in Dialling \cup {"gave_up", "cut_short"} PROVE ~ Answered(d)
  <2>1. \A i \in 1..Len(rounds[d]) : ~ rounds[d][i].answered
    BY <1>4 DEF HistoryInv, HistoryOK, HistoryOf, Dialling
  <2>2. ~ AnsweredLast(rounds[d])
    BY <1>1, <2>1, EmptySeq, LenProperties DEF AnsweredLast
  <2> QED BY <1>2, <2>2
<1> QED BY <1>3, <1>4

LEMMA ReportFolds ==
    ASSUME NEW o, Report!Fold(o), o \in {"Answered", "Unprobed", "NothingOpened", "NothingAnswered"},
           failed_in_a_row \in Nat, refusals \in Nat, dead \in BOOLEAN
    PROVE  /\ failed_in_a_row' \in Nat /\ refusals' \in Nat
           /\ degraded' \in BOOLEAN /\ dead' \in BOOLEAN
           /\ o = "NothingOpened" => refusals' = refusals + 1
           /\ o # "NothingOpened" => refusals' = 0
           /\ dead' => dead \/ refusals' >= RefusalLimit
<1>1. /\ failed_in_a_row' = CASE o \in Report!DeadEnds -> failed_in_a_row + 1
                              [] o = "Answered" -> 0
                              [] o = "Unprobed" -> failed_in_a_row
      /\ refusals' = IF o = "NothingOpened" THEN refusals + 1 ELSE 0
      /\ degraded' = (failed_in_a_row' >= DeadEndLimit)
      /\ dead' = (dead \/ refusals' >= RefusalLimit)
  BY DEF Report!Fold
<1>2. failed_in_a_row' = IF o = "Answered" THEN 0
                         ELSE IF o = "Unprobed" THEN failed_in_a_row ELSE failed_in_a_row + 1
  <2>1. CASE o = "Answered"
    <3>1. o \notin Report!DeadEnds
      BY <2>1 DEF Report!DeadEnds
    <3> QED BY <1>1, <2>1, <3>1, Zenon
  <2>2. CASE o = "Unprobed"
    <3>1. o \notin Report!DeadEnds /\ o # "Answered"
      BY <2>2 DEF Report!DeadEnds
    <3> QED BY <1>1, <2>2, <3>1, Zenon
  <2>3. CASE o \in {"NothingOpened", "NothingAnswered"}
    <3>1. o \in Report!DeadEnds /\ o # "Answered" /\ o # "Unprobed"
      BY <2>3 DEF Report!DeadEnds
    <3> QED BY <1>1, <3>1, Zenon
  <2> QED BY <2>1, <2>2, <2>3
<1>3. failed_in_a_row' \in Nat
  BY <1>2
<1>4. refusals' = IF o = "NothingOpened" THEN refusals + 1 ELSE 0
  BY <1>1
<1>5. degraded' \in BOOLEAN /\ dead' \in BOOLEAN /\ (dead' => dead \/ refusals' >= RefusalLimit)
  <2>1. degraded' = (failed_in_a_row' >= DeadEndLimit)
    BY <1>1, Zenon
  <2>2. dead' = (dead \/ refusals' >= RefusalLimit)
    BY <1>1, Zenon
  <2>3. (failed_in_a_row' >= DeadEndLimit) \in BOOLEAN
    BY <1>3, ClientAssumption
  <2>4. degraded' \in BOOLEAN
    BY <2>1, <2>3, Zenon
  <2>5. dead' \in BOOLEAN
    BY <2>2, Zenon
  <2>6. dead' => dead \/ refusals' >= RefusalLimit
    BY <2>2, Zenon
  <2> QED BY <2>4, <2>5, <2>6
<1> QED BY <1>3, <1>4, <1>5

LEMMA OutcomeIsOne ==
    ASSUME NEW d \in Dials, Probe(d) \in BOOLEAN, pc[d] \in Resolved
    PROVE  /\ OutcomeOf(d) \in {"Answered", "Unprobed", "NothingOpened", "NothingAnswered"}
           /\ OutcomeOf(d) = "NothingOpened" => pc[d] = "gave_up" /\ NothingOpened(rounds[d])
<1>1. CASE pc[d] = "returned" /\ Probe(d)
  <2>1. OutcomeOf(d) = "Answered"
    BY <1>1, Zenon DEF OutcomeOf
  <2> QED BY <2>1
<1>2. CASE pc[d] = "returned" /\ ~ Probe(d)
  <2>1. OutcomeOf(d) = "Unprobed"
    BY <1>2, Zenon DEF OutcomeOf
  <2> QED BY <2>1
<1>3. CASE pc[d] # "returned" /\ NothingOpened(rounds[d])
  <2>1. OutcomeOf(d) = "NothingOpened"
    BY <1>3, Zenon DEF OutcomeOf
  <2> QED BY <1>3, <2>1 DEF Resolved
<1>4. CASE pc[d] # "returned" /\ ~ NothingOpened(rounds[d])
  <2>1. OutcomeOf(d) = "NothingAnswered"
    BY <1>4, Zenon DEF OutcomeOf
  <2> QED BY <2>1
<1> QED BY <1>1, <1>2, <1>3, <1>4

LEMMA FoldKeeps ==
    ASSUME ClientInv, NEW d \in Dials, Fold(d)
    PROVE  ClientInv'
<1> DEFINE to == IF pc[d] = "returned" THEN "carrying" ELSE "leaving"
<1>1. /\ stage[d] = "counted" /\ Report!Fold(OutcomeOf(d)) /\ Enter(d, to)
      /\ UNCHANGED <<no_probe, main, metrics>> /\ UNCHANGED dialVars
  BY DEF Fold
<1>2. DialInv /\ HistoryInv /\ PlaceOK(d) /\ Typed /\ ClientTyped
  BY TypedWithMutex DEF ClientInv, DialInv
<1>3. pc[d] \in Resolved
  BY <1>1, <1>2 DEF PlaceOK
<1>4. (Answered(d) <=> pc[d] = "returned") /\ (pc[d] = "returned" \/ pc[d] = "gave_up")
  BY <1>2, <1>3, AnsweredIsHow DEF Resolved
<1>5. /\ DialInv' /\ HistoryInv' /\ OthersStay(d) /\ UNCHANGED <<pc, settings, rounds, existed>>
      /\ Answered(d)' = Answered(d) /\ stage'[d] = to /\ stage' \in [Dials -> Stages]
  <2>1. to \in Stages
    BY DEF Stages, InFlight
  <2> HIDE DEF to
  <2> QED BY <1>1, <2>1, DialRests, OneEnters
<1>6. PlaceOK(d)'
  BY <1>1, <1>2, <1>4, <1>5 DEF PlaceOK
<1>7. /\ OutcomeOf(d) \in {"Answered", "Unprobed", "NothingOpened", "NothingAnswered"}
      /\ OutcomeOf(d) = "NothingOpened" => pc[d] = "gave_up" /\ NothingOpened(rounds[d])
  <2>1. Probe(d) \in BOOLEAN
    BY <1>2 DEF Typed, Probe, Settings
  <2> QED BY <1>3, <2>1, OutcomeIsOne
<1>8. /\ failed_in_a_row' \in Nat /\ refusals' \in Nat
      /\ degraded' \in BOOLEAN /\ dead' \in BOOLEAN
      /\ OutcomeOf(d) = "NothingOpened" => refusals' = refusals + 1
      /\ OutcomeOf(d) # "NothingOpened" => refusals' = 0
      /\ dead' => dead \/ refusals' >= RefusalLimit
  BY <1>1, <1>2, <1>7, ReportFolds DEF ClientTyped
<1>9. ClientTyped'
  BY <1>1, <1>2, <1>5, <1>8 DEF ClientTyped
<1>10. Sits(d) /\ Sits(d)'
  BY Membership
<1>11. /\ d \in Arrived /\ d \in Arrived' /\ d \in At(InFlight) /\ d \in At(InFlight)'
       /\ d \notin Outside /\ d \notin Outside' /\ d \in Outcome /\ d \in Outcome'
       /\ (d \in Streamed' <=> d \in Streamed) /\ d \notin Doomed /\ d \notin Doomed'
       /\ d \notin Refused
  BY <1>1, <1>4, <1>5, <1>10 DEF Sits, InFlight
<1>12. /\ d \in Weighed /\ d \in Weighed' /\ d \in Costed /\ d \in Costed'
       /\ (d \in Unserved' <=> d \in Unserved) /\ (d \in Rescued' <=> d \in Rescued)
       /\ (d \in Kept' <=> d \in Kept)
  BY <1>5, <1>10, <1>11 DEF Sits
<1>13. OutcomeOf(d) = "NothingOpened" => d \in Refused'
  <2> SUFFICES ASSUME OutcomeOf(d) = "NothingOpened" PROVE d \in Refused'
    OBVIOUS
  <2>1. pc[d] = "gave_up" /\ NothingOpened(rounds[d])
    BY <1>7
  <2>2. Existing(d) = {}
    BY <1>2, <2>1 DEF NothingOpened, HistoryInv, HistoryOK, HistoryOf
  <2>3. \A s \in existed : s[1] # d
    BY <1>2, <2>2 DEF Existing, Typed, Streams
  <2> QED BY <1>5, <1>10, <2>1, <2>3 DEF Sits
<1>14. \A f \in Metrics : metrics[f] \in Nat /\ metrics'[f] = metrics[f]
  BY <1>1, <1>2 DEF ClientTyped
<1>15. CountersFollow(d)
  BY <1>11, <1>12, <1>14 DEF CountersFollow, One, Metrics
<1>16. RetriesFollow(d)
  BY <1>11, <1>12, <1>14 DEF RetriesFollow, One, Metrics
<1>17. RefusalsFollow(d)
  <2>1. refusals \in Nat
    BY <1>2 DEF ClientTyped
  <2>2. refusals' <= refusals + One(d \in Refused') - One(d \in Refused)
    BY <1>8, <1>11, <1>13, <2>1 DEF One
  <2> QED BY <1>8, <1>11, <2>2 DEF RefusalsFollow
<1>18. CostsOK'
  BY <1>5, <1>12, <1>14, CostsStayRight DEF ClientInv, Metrics
<1> QED BY <1>1, <1>5, <1>6, <1>9, <1>15, <1>16, <1>17, <1>18, StepStaysRight

LEMMA FinishKeeps ==
    ASSUME ClientInv, NEW d \in Dials, Finish(d)
    PROVE  ClientInv'
<1>1. /\ stage[d] = "carrying" /\ Enter(d, "spliced") /\ Release(d)
      /\ UNCHANGED <<no_probe, main, metrics, failed_in_a_row, refusals, degraded, dead>>
  BY DEF Finish, streaks
<1>2. DialInv /\ HistoryInv /\ Typed
  BY TypedWithMutex DEF ClientInv, DialInv
<1>3. DialInv' /\ HistoryInv'
  BY <1>1, <1>2, StepKeeps, HistoryOfStep
<1>4. /\ pc[d] = "returned" /\ pc' = [pc EXCEPT ![d] = "released"]
      /\ settings' = settings /\ rounds' = rounds /\ existed' = existed
  BY <1>1 DEF Release, Move
<1>5. /\ stage'[d] = "spliced" /\ stage' \in [Dials -> Stages]
      /\ \A e \in Dials : e # d => stage'[e] = stage[e]
  <2>1. "spliced" \in Stages
    BY DEF Stages, InFlight
  <2> QED BY <1>1, <2>1, OneEnters
<1>6. pc'[d] = "released"
  BY <1>2, <1>4 DEF Typed
<1>7. OthersStay(d)
  BY <1>2, <1>4, <1>5 DEF OthersStay, Typed
<1>8. PlaceOK(d)'
  BY <1>1, <1>4, <1>5, <1>6 DEF PlaceOK, ClientInv
<1>9. Answered(d) /\ Answered(d)'
  BY <1>2, <1>4, AnsweredIsHow DEF Answered
<1>10. ClientTyped'
  BY <1>1, <1>5 DEF ClientInv, ClientTyped
<1>11. Sits(d) /\ Sits(d)'
  BY Membership
<1>12. /\ d \in Arrived /\ d \in Arrived' /\ d \in At(InFlight) /\ d \in At(InFlight)'
       /\ d \notin Outside /\ d \notin Outside' /\ d \in Outcome /\ d \in Outcome'
       /\ d \in Streamed /\ d \in Streamed' /\ d \notin Doomed /\ d \notin Doomed'
       /\ d \notin Refused /\ d \notin Refused'
  BY <1>1, <1>5, <1>9, <1>11 DEF Sits, InFlight
<1>13. /\ d \in Weighed /\ d \in Weighed' /\ d \in Costed /\ d \in Costed'
       /\ d \notin Unserved /\ d \notin Unserved' /\ (d \in Rescued' <=> d \in Rescued)
       /\ d \in Kept /\ d \in Kept'
  BY <1>4, <1>6, <1>9, <1>11, <1>12 DEF Sits
<1>14. \A f \in Metrics : metrics[f] \in Nat /\ metrics'[f] = metrics[f]
  BY <1>1 DEF ClientInv, ClientTyped
<1>15. CountersFollow(d)
  BY <1>12, <1>13, <1>14 DEF CountersFollow, One, Metrics
<1>16. RetriesFollow(d)
  BY <1>12, <1>13, <1>14 DEF RetriesFollow, One, Metrics
<1>17. RefusalsFollow(d)
  BY <1>1, <1>12 DEF RefusalsFollow, One, ClientInv, ClientTyped
<1>18. CostsOK'
  BY <1>4, <1>7, <1>13, <1>14, CostsStayRight DEF ClientInv, Metrics
<1> QED BY <1>1, <1>3, <1>7, <1>8, <1>10, <1>15, <1>16, <1>17, <1>18, StepStaysRight

LEMMA CountEndKeeps ==
    ASSUME ClientInv, NEW d \in Dials, CountEnd(d)
    PROVE  ClientInv'
<1>1. /\ stage[d] = "spliced" /\ Enter(d, "leaving") /\ metrics' = Raise("ended")
      /\ UNCHANGED <<no_probe, main, failed_in_a_row, refusals, degraded, dead>>
      /\ UNCHANGED dialVars
  BY DEF CountEnd, streaks
<1>2. /\ DialInv' /\ HistoryInv' /\ OthersStay(d) /\ UNCHANGED <<pc, settings, rounds, existed>>
      /\ Answered(d)' = Answered(d) /\ stage'[d] = "leaving" /\ stage' \in [Dials -> Stages]
  <2>1. "leaving" \in Stages
    BY DEF Stages, InFlight
  <2> QED BY <1>1, <2>1, DialRests, OneEnters
<1>3. PlaceOK(d) /\ pc[d] = "released" /\ Answered(d)
  <2>1. PlaceOK(d)
    BY DEF ClientInv
  <2> QED BY <1>1, <2>1, AnsweredIsHow DEF ClientInv, PlaceOK
<1>4. PlaceOK(d)'
  BY <1>1, <1>2, <1>3 DEF PlaceOK
<1>5. /\ metrics' \in [Metrics -> Nat] /\ metrics'["ended"] = metrics["ended"] + 1
      /\ \A f \in Metrics : metrics[f] \in Nat /\ (f # "ended" => metrics'[f] = metrics[f])
  BY <1>1, OneRaised DEF ClientInv, ClientTyped, Metrics
<1>6. ClientTyped'
  BY <1>1, <1>2, <1>5 DEF ClientInv, ClientTyped
<1>7. Sits(d) /\ Sits(d)'
  BY Membership
<1>8. /\ d \in Arrived /\ d \in Arrived' /\ d \in At(InFlight) /\ d \in At(InFlight)'
      /\ d \notin Outside /\ d \notin Outside' /\ d \in Outcome /\ d \in Outcome'
      /\ d \in Streamed /\ d \notin Streamed' /\ d \notin Doomed /\ d \notin Doomed'
      /\ d \notin Refused
  BY <1>1, <1>2, <1>3, <1>7 DEF Sits, InFlight
<1>9. /\ d \in Weighed /\ d \in Weighed' /\ d \in Costed /\ d \in Costed'
      /\ d \notin Unserved /\ d \notin Unserved' /\ (d \in Rescued' <=> d \in Rescued)
      /\ d \in Kept /\ d \in Kept'
  BY <1>2, <1>3, <1>7, <1>8 DEF Sits
<1>10. CountersFollow(d)
  BY <1>5, <1>8, <1>9 DEF CountersFollow, One, Metrics
<1>11. RetriesFollow(d)
  BY <1>5, <1>8, <1>9 DEF RetriesFollow, One, Metrics
<1>12. RefusalsFollow(d)
  BY <1>1, <1>8 DEF RefusalsFollow, One, ClientInv, ClientTyped
<1>13. CostsOK'
  BY <1>2, <1>5, <1>9, CostsStayRight DEF ClientInv, Metrics
<1> QED BY <1>1, <1>2, <1>4, <1>6, <1>10, <1>11, <1>12, <1>13, StepStaysRight

LEMMA LeaveKeeps ==
    ASSUME ClientInv, NEW d \in Dials, Leave(d)
    PROVE  ClientInv'
<1>1. /\ stage[d] = "leaving" /\ Enter(d, "closed") /\ metrics' = GuardDropped
      /\ UNCHANGED <<no_probe, main, failed_in_a_row, refusals, degraded, dead>>
      /\ UNCHANGED dialVars
  BY DEF Leave, streaks
<1>2. /\ DialInv' /\ HistoryInv' /\ OthersStay(d) /\ UNCHANGED <<pc, settings, rounds, existed>>
      /\ Answered(d)' = Answered(d) /\ stage'[d] = "closed" /\ stage' \in [Dials -> Stages]
  <2>1. "closed" \in Stages
    BY DEF Stages
  <2> QED BY <1>1, <2>1, DialRests, OneEnters
<1>3. PlaceOK(d)'
  BY <1>1, <1>2 DEF PlaceOK, ClientInv
<1>4. Sits(d) /\ Sits(d)'
  BY Membership
<1>5. /\ d \in Arrived /\ d \in Arrived' /\ d \in At(InFlight) /\ d \notin At(InFlight)'
      /\ d \notin Outside /\ d \in Outside' /\ d \in Outcome /\ d \in Outcome'
      /\ d \notin Streamed /\ d \notin Streamed' /\ d \notin Doomed /\ d \notin Doomed'
      /\ (d \in Refused' <=> d \in Refused)
  BY <1>1, <1>2, <1>4 DEF Sits, InFlight
<1>6. /\ d \in Weighed /\ d \in Weighed' /\ d \in Costed /\ d \in Costed'
      /\ (d \in Unserved' <=> d \in Unserved) /\ (d \in Rescued' <=> d \in Rescued)
      /\ (d \in Kept' <=> d \in Kept)
  BY <1>2, <1>4, <1>5 DEF Sits
<1>7. /\ metrics' \in [Metrics -> Nat]
      /\ metrics'["in_flight"] = metrics["in_flight"] - 1
      /\ \A f \in Metrics : metrics[f] \in Nat /\ (f # "in_flight" => metrics'[f] = metrics[f])
  BY <1>1, <1>5, GuardDrops
<1>8. ClientTyped'
  BY <1>1, <1>2, <1>7 DEF ClientInv, ClientTyped
<1>9. CountersFollow(d)
  BY <1>5, <1>6, <1>7 DEF CountersFollow, One, Metrics
<1>10. RetriesFollow(d)
  BY <1>5, <1>6, <1>7 DEF RetriesFollow, One, Metrics
<1>11. RefusalsFollow(d)
  BY <1>1, <1>5 DEF RefusalsFollow, One, ClientInv, ClientTyped
<1>12. CostsOK'
  BY <1>2, <1>6, <1>7, CostsStayRight DEF ClientInv, Metrics
<1> QED BY <1>1, <1>2, <1>3, <1>8, <1>9, <1>10, <1>11, <1>12, StepStaysRight

LEMMA AbortKeeps ==
    ASSUME ClientInv, NEW d \in Dials, Abort(d)
    PROVE  ClientInv'
<1>1. /\ (stage[d] = "dialling" /\ pc[d] \in Dialling) \/ stage[d] = "carrying"
      /\ Enter(d, "aborted") /\ (Cancel(d) \/ CutShort(d))
      /\ metrics' = GuardDropped
      /\ UNCHANGED <<no_probe, main, failed_in_a_row, refusals, degraded, dead>>
  BY DEF Abort, streaks
<1>2. DialInv /\ HistoryInv /\ Typed /\ PlaceOK(d)
  BY TypedWithMutex DEF ClientInv, DialInv
<1>3. DialInv' /\ HistoryInv'
  BY <1>1, <1>2, StepKeeps, HistoryOfStep
<1>4. /\ settings' = settings /\ rounds' = rounds
      /\ \/ pc' = [pc EXCEPT ![d] = "cancelled"] /\ existed' = existed
         \/ /\ pc[d] = "opening" /\ pc' = [pc EXCEPT ![d] = "cut_short"]
            /\ existed' = existed \cup {<<d, NextAttempt(d)>>}
  BY <1>1 DEF Cancel, CutShort, Dropped, Move
<1>5. /\ stage'[d] = "aborted" /\ stage' \in [Dials -> Stages]
      /\ \A e \in Dials : e # d => stage'[e] = stage[e]
  <2>1. "aborted" \in Stages
    BY DEF Stages
  <2> QED BY <1>1, <2>1, OneEnters
<1>6. pc'[d] \in {"cancelled", "cut_short"} /\ \A e \in Dials : e # d => pc'[e] = pc[e]
  BY <1>2, <1>4 DEF Typed
<1>7. OthersStay(d)
  <2>1. \A e \in Dials : e # d => \A s : s[1] = e => (s \in existed' <=> s \in existed)
    BY <1>4
  <2> QED BY <1>4, <1>5, <1>6, <2>1 DEF OthersStay
<1>8. PlaceOK(d)'
  BY <1>1, <1>2, <1>4, <1>5, <1>6 DEF PlaceOK, Dialling
<1>9. (Answered(d) <=> stage[d] = "carrying") /\ (Answered(d)' <=> Answered(d))
  <2>1. CASE stage[d] = "carrying"
    BY <1>2, <1>4, <2>1, AnsweredIsHow DEF PlaceOK, Answered
  <2>2. CASE stage[d] = "dialling" /\ pc[d] \in Dialling
    BY <1>2, <1>4, <2>2, AnsweredIsHow DEF Answered
  <2> QED BY <1>1, <2>1, <2>2
<1>10. Sits(d) /\ Sits(d)'
  BY Membership
<1>11. /\ d \in Arrived /\ d \in Arrived' /\ d \in At(InFlight) /\ d \notin At(InFlight)'
       /\ d \notin Outside /\ d \in Outside' /\ (d \in Outcome' <=> d \in Outcome)
       /\ (d \in Streamed' <=> d \in Streamed) /\ d \notin Doomed /\ d \notin Doomed'
       /\ d \notin Refused /\ d \notin Refused'
  BY <1>1, <1>5, <1>9, <1>10 DEF Sits, InFlight
<1>12. /\ (d \in Weighed' <=> d \in Weighed) /\ (d \in Costed' <=> d \in Costed)
       /\ d \notin Unserved /\ d \notin Unserved'
       /\ (d \in Costed <=> stage[d] = "carrying")
  <2>1. stage[d] = "carrying" => pc[d] = "returned"
    BY <1>2 DEF PlaceOK
  <2> QED BY <1>1, <1>5, <1>6, <1>9, <1>10, <1>11, <2>1 DEF Sits
<1>13. (d \in Rescued' <=> d \in Rescued) /\ (d \in Kept' <=> d \in Kept)
  BY <1>4, <1>9, <1>10, <1>12 DEF Sits
<1>14. /\ metrics' \in [Metrics -> Nat]
       /\ metrics'["in_flight"] = metrics["in_flight"] - 1
       /\ \A f \in Metrics : metrics[f] \in Nat /\ (f # "in_flight" => metrics'[f] = metrics[f])
  BY <1>1, <1>11, GuardDrops
<1>15. ClientTyped'
  BY <1>1, <1>5, <1>14 DEF ClientInv, ClientTyped
<1>16. CountersFollow(d)
  BY <1>11, <1>12, <1>14 DEF CountersFollow, One, Metrics
<1>17. RetriesFollow(d)
  BY <1>11, <1>12, <1>13, <1>14 DEF RetriesFollow, One, Metrics
<1>18. RefusalsFollow(d)
  BY <1>1, <1>11 DEF RefusalsFollow, One, ClientInv, ClientTyped
<1>19. d \in Costed => existed' = existed
  <2>1. stage[d] = "carrying" => pc[d] = "returned"
    BY <1>2 DEF PlaceOK
  <2> QED BY <1>4, <1>12, <2>1
<1>20. CostsOK'
  BY <1>7, <1>12, <1>13, <1>14, <1>19, CostsStayRight DEF ClientInv, Metrics
<1> QED BY <1>1, <1>3, <1>7, <1>8, <1>15, <1>16, <1>17, <1>18, <1>20, StepStaysRight

-----------------------------------------------------------------------------
(* What a dial costs. *)

LEMMA CostsByField ==
    ASSUME metrics \in [Metrics -> Nat], NEW rs \in Seq(Round)
    PROVE  /\ Dialled(rs) \in [Metrics -> Nat]
           /\ Dialled(rs)["opened"] = metrics["opened"] + CountIn(rs, "opened")
           /\ Dialled(rs)["refused"] = metrics["refused"] + CountIn(rs, "refused")
           /\ Dialled(rs)["unanswered"] = metrics["unanswered"] + CountIn(rs, "unanswered")
           /\ \A f \in {"connections", "in_flight", "first_round_failures", "established",
                        "unestablished", "ended"} : Dialled(rs)[f] = metrics[f]
<1> DEFINE n == Len(rs)
           o == CountIn(rs, "opened")
           r == CountIn(rs, "refused")
           u == CountIn(rs, "unanswered")
           rest == {"connections", "in_flight", "first_round_failures", "established",
                    "unestablished", "ended"}
           m == [metrics EXCEPT !.rounds = @ + n, !.opened = @ + o, !.refused = @ + r,
                                !.unanswered = @ + u]
<1>1. Dialled(rs) = m
  BY DEF Dialled, CountIn, Each
<1>2. n \in Nat /\ o \in Nat /\ r \in Nat /\ u \in Nat
  BY LenProperties, CountInIsNat DEF CountFields
<1> HIDE DEF n, o, r, u
<1>3. \A f \in Metrics : metrics[f] \in Nat
  OBVIOUS
<1>4. m["opened"] = metrics["opened"] + o
  BY DEF Metrics
<1>5. m["refused"] = metrics["refused"] + r
  BY DEF Metrics
<1>6. m["unanswered"] = metrics["unanswered"] + u
  BY DEF Metrics
<1>8. m["rounds"] = metrics["rounds"] + n
  BY DEF Metrics
<1>9. \A f \in rest : m[f] = metrics[f]
  BY DEF Metrics
<1>10. m = [f \in Metrics |-> m[f]]
  OBVIOUS
<1> HIDE DEF m
<1>11. \A f \in Metrics : m[f] \in Nat
  <2>1. \A f \in rest : m[f] \in Nat
    BY <1>3, <1>9 DEF Metrics
  <2>2. \A a, b \in Nat : a + b \in Nat
    OBVIOUS
  <2>3. m["opened"] \in Nat /\ m["refused"] \in Nat
    BY <1>2, <1>3, <1>4, <1>5, <2>2 DEF Metrics
  <2>4. m["unanswered"] \in Nat /\ m["rounds"] \in Nat
    BY <1>2, <1>3, <1>6, <1>8, <2>2 DEF Metrics
  <2> QED BY <2>1, <2>3, <2>4 DEF Metrics
<1>12. m \in [Metrics -> Nat]
  BY <1>10, <1>11
<1> QED BY <1>1, <1>4, <1>5, <1>6, <1>9, <1>12 DEF o, r, u

\* The streams of one dial, as pairs.
LEMMA StreamsOfOne ==
    ASSUME NEW d \in Dials
    PROVE  LET mine == {<<d, k>> : k \in Existing(d)} IN
           IsFiniteSet(mine) /\ Cardinality(mine) = Cardinality(Existing(d))
<1> DEFINE S == Existing(d)
           T == {<<d, k>> : k \in S}
           pair == [k \in S |-> <<d, k>>]
<1>1. IsFiniteSet(S)
  BY AttemptsAreFinite DEF Existing
<1>2. pair \in Bijection(S, T)
  BY DEF Bijection, Injection, Surjection, IsInjective
<1>3. ExistsBijection(S, T)
  BY <1>2 DEF ExistsBijection
<1> QED BY <1>1, <1>3, FS_Bijection

\* What one dial may have spent, in streams and in rounds.
LEMMA CostOfOne ==
    ASSUME ClientInv, NEW d \in Dials, pc[d] \in Resolved
    PROVE  /\ rounds[d] \in Seq(Round)
           /\ CountIn(rounds[d], "opened") \in Nat /\ CountIn(rounds[d], "refused") \in Nat
           /\ CountIn(rounds[d], "unanswered") \in Nat
           /\ CountIn(rounds[d], "opened") = Cardinality(Existing(d))
           /\ CountIn(rounds[d], "opened") + CountIn(rounds[d], "refused") <= Attempts
           /\ pc[d] = "gave_up" => CountIn(rounds[d], "opened") = CountIn(rounds[d], "unanswered")
           /\ pc[d] = "returned" =>
                  /\ CountIn(rounds[d], "unanswered") + 1 <= CountIn(rounds[d], "opened")
                  /\ CountIn(rounds[d], "opened") <= CountIn(rounds[d], "unanswered") + Concurrency
<1>1. DialInv /\ HistoryOK(d) /\ Typed /\ PlaceOK(d) /\ BudgetOK(d) /\ StreamsOK(d)
  BY TypedWithMutex DEF ClientInv, DialInv, HistoryInv
<1>2. /\ rounds[d] \in Seq(Round)
      /\ left[d] \in Nat /\ remaining[d] \in Nat
  BY <1>1 DEF Typed, Counters
<1>3. /\ CountIn(rounds[d], "opened") \in Nat /\ CountIn(rounds[d], "refused") \in Nat
      /\ CountIn(rounds[d], "unanswered") \in Nat
  BY <1>2, CountInIsNat DEF CountFields
<1>4. /\ settings[d].attempts = Attempts /\ settings[d].concurrency = Concurrency
      /\ Attempts \in Nat /\ Attempts >= 1 /\ Concurrency \in Nat /\ Concurrency >= 1
  BY <1>1, ClientAssumption, AttemptsAssumption DEF PlaceOK, Resolved
<1>5. Budget(d) <= Attempts /\ Budget(d) \in Nat /\ Width(d) <= Concurrency /\ Width(d) \in Nat
  BY <1>4 DEF Budget, BudgetOf, Width
<1>6. AttemptedIn(rounds[d]) + left[d] + remaining[d] = Budget(d)
  BY <1>1 DEF BudgetOK, Resolved
<1>7. AttemptedIn(rounds[d]) = CountIn(rounds[d], "opened") + CountIn(rounds[d], "refused")
  BY <1>2, AttemptedIsOpenedOrRefused
<1>8. CountIn(rounds[d], "opened") + CountIn(rounds[d], "refused") <= Attempts
  BY <1>2, <1>3, <1>4, <1>5, <1>6, <1>7
<1>9. CountIn(rounds[d], "opened") = Cardinality(Existing(d))
  BY <1>1 DEF HistoryOK, HistoryOf, Resolved
<1>10. ASSUME pc[d] = "gave_up"
       PROVE  CountIn(rounds[d], "opened") = CountIn(rounds[d], "unanswered")
  <2>1. held[d] = {} /\ Cardinality({}) = 0
    BY <1>1, <1>10, FS_EmptySet DEF StreamsOK
  <2>2. CountIn(rounds[d], "opened") = CountIn(rounds[d], "unanswered") + Cardinality(held[d])
    BY <1>1, <1>10 DEF HistoryOK, HistoryOf
  <2> QED BY <1>3, <2>1, <2>2
<1>11. ASSUME pc[d] = "returned"
       PROVE  /\ CountIn(rounds[d], "unanswered") + 1 <= CountIn(rounds[d], "opened")
              /\ CountIn(rounds[d], "opened") <= CountIn(rounds[d], "unanswered") + Concurrency
  <2>1. /\ CountIn(rounds[d], "unanswered") + 1 <= CountIn(rounds[d], "opened")
        /\ CountIn(rounds[d], "opened") <= CountIn(rounds[d], "unanswered") + Width(d)
    BY <1>1, <1>11 DEF HistoryOK, HistoryOf
  <2> QED BY <1>3, <1>4, <1>5, <2>1
<1> QED BY <1>2, <1>3, <1>8, <1>9, <1>10, <1>11

\* A first round fails for every dial that gives up and for every one a later round saved.
LEMMA FirstRoundOf ==
    ASSUME ClientInv, NEW d \in Dials, pc[d] \in Resolved
    PROVE  FirstRoundFailed(rounds[d]) <=> pc[d] = "gave_up" \/ Len(rounds[d]) > 1
<1>1. DialInv /\ HistoryOK(d) /\ Typed /\ BudgetOK(d)
  BY TypedWithMutex DEF ClientInv, DialInv, HistoryInv
<1>2. rounds[d] # <<>> /\ rounds[d] \in Seq(Round)
  BY <1>1 DEF BudgetOK, Typed, Resolved
<1>3. Len(rounds[d]) \in Nat /\ Len(rounds[d]) >= 1 /\ 1 \in 1..Len(rounds[d])
  BY <1>2, EmptySeq, LenProperties
<1>4. CASE pc[d] = "gave_up"
  <2>1. ~ rounds[d][1].answered
    BY <1>1, <1>3, <1>4 DEF HistoryOK, HistoryOf, Over
  <2> QED BY <1>2, <1>4, <2>1 DEF FirstRoundFailed
<1>5. CASE pc[d] = "returned"
  <2>1. /\ rounds[d][1].answered => 1 = Len(rounds[d])
        /\ rounds[d][Len(rounds[d])].answered
    BY <1>1, <1>3, <1>5 DEF HistoryOK, HistoryOf, AnsweredLast
  <2>2. CASE Len(rounds[d]) = 1
    BY <1>5, <2>1, <2>2 DEF FirstRoundFailed
  <2>3. CASE Len(rounds[d]) > 1
    BY <1>2, <1>3, <2>1, <2>3 DEF FirstRoundFailed
  <2>4. Len(rounds[d]) = 1 \/ Len(rounds[d]) > 1
    <3>1. \A n \in Nat : n >= 1 => n = 1 \/ n > 1
      OBVIOUS
    <3> QED BY <1>3, <3>1
  <2> QED BY <1>5, <2>2, <2>3, <2>4
<1> QED BY <1>4, <1>5 DEF Resolved

\* A dial is counted, once: its streams are the ones the counters gain.
LEMMA CostsAreCounted ==
    ASSUME ClientInv, ClientTyped', NEW d \in Dials, OthersStay(d), existed' = existed,
           pc[d] \in Resolved, d \notin Costed, d \in Costed',
           d \notin Kept, d \in Kept' <=> pc[d] = "returned",
           metrics'.opened = metrics.opened + CountIn(rounds[d], "opened"),
           metrics'.refused = metrics.refused + CountIn(rounds[d], "refused"),
           metrics'.unanswered = metrics.unanswered + CountIn(rounds[d], "unanswered")
    PROVE  CostsOK'
<1> DEFINE o == CountIn(rounds[d], "opened")
           r == CountIn(rounds[d], "refused")
           u == CountIn(rounds[d], "unanswered")
           e == One(pc[d] = "returned")
           mine == {<<d, k>> : k \in Existing(d)}
           n == Cardinality(Costed)
           k == Cardinality(Kept)
<1>1. /\ o \in Nat /\ r \in Nat /\ u \in Nat
      /\ o = Cardinality(Existing(d)) /\ o + r <= Attempts
      /\ pc[d] = "gave_up" => o = u
      /\ pc[d] = "returned" => u + 1 <= o /\ o <= u + Concurrency
  BY CostOfOne
<1>2. /\ (pc[d] = "gave_up" /\ e = 0) \/ (pc[d] = "returned" /\ e = 1)
      /\ e \in Nat
  BY DEF Resolved, One
<1>3. CostsOK /\ IsFiniteSet(Arrived)
  BY DEF ClientInv, ConnectionsOK
<1>4. /\ n \in Nat /\ Cardinality(Costed') = n + 1
      /\ k \in Nat /\ Cardinality(Kept') = k + e
  BY <1>3, OneConnectionMoves DEF One, Grows
<1>5. \A f \in Metrics : metrics[f] \in Nat
  BY DEF ClientInv, ClientTyped
<1>6. /\ metrics.opened \in Nat /\ metrics.refused \in Nat /\ metrics.unanswered \in Nat
  BY <1>5 DEF Metrics
<1>7. CostedStreams' = CostedStreams \cup mine /\ CostedStreams \cap mine = {}
  <2>1. \A s \in existed : s \in Streams /\ s = <<s[1], s[2]>> /\ s[2] \in 1..MaxAttempts
    BY TypedWithMutex DEF ClientInv, DialInv, Typed, Streams
  <2>2. \A s \in existed : s[1] = d => s \in mine
    BY <2>1 DEF Existing
  <2>3. \A j \in Existing(d) : <<d, j>> \in existed /\ <<d, j>>[1] = d
    BY DEF Existing
  <2>4. \A s \in mine : s \in existed /\ s[1] = d
    BY <2>3
  <2>5. \A x : x \in Costed' <=> x \in Costed \/ x = d
    BY OthersCosted
  <2> HIDE DEF mine
  <2> QED BY <2>2, <2>4, <2>5 DEF CostedStreams
<1>8. /\ IsFiniteSet(CostedStreams')
      /\ Cardinality(CostedStreams') = Cardinality(CostedStreams) + o
  <2>1. IsFiniteSet(mine) /\ Cardinality(mine) = o
    BY <1>1, StreamsOfOne
  <2>2. IsFiniteSet(CostedStreams) /\ Cardinality({}) = 0
    BY <1>3, FS_EmptySet DEF CostsOK
  <2> HIDE DEF mine, o
  <2>3. /\ IsFiniteSet(CostedStreams \cup mine)
        /\ Cardinality(CostedStreams \cup mine) =
               Cardinality(CostedStreams) + Cardinality(mine) - Cardinality(CostedStreams \cap mine)
    BY <2>1, <2>2, FS_Union
  <2>4. Cardinality(CostedStreams) \in Nat
    BY <2>2, FS_CardinalityType
  <2>5. Cardinality(CostedStreams \cap mine) = 0
    BY <1>7, <2>2
  <2>6. /\ IsFiniteSet(CostedStreams')
        /\ Cardinality(CostedStreams') =
               Cardinality(CostedStreams) + Cardinality(mine) - Cardinality(CostedStreams \cap mine)
    BY <1>7, <2>3
  <2>7. o \in Nat
    BY <1>1
  <2> QED BY <2>1, <2>4, <2>5, <2>6, <2>7
<1>9. /\ Attempts \in Nat /\ Concurrency \in Nat
  BY ClientAssumption, AttemptsAssumption
<1>10. /\ metrics.opened = Cardinality(CostedStreams)
       /\ metrics.opened + metrics.refused <= Attempts * n
       /\ metrics.unanswered + k <= metrics.opened
       /\ metrics.opened <= metrics.unanswered + Concurrency * k
  BY <1>3 DEF CostsOK
<1>11. /\ metrics'.opened = metrics.opened + o /\ metrics'.refused = metrics.refused + r
       /\ metrics'.unanswered = metrics.unanswered + u
  OBVIOUS
<1> HIDE DEF o, r, u, e, mine, n, k
<1>12. \A a, b \in Nat : a * (b + 1) = a * b + a /\ a * b \in Nat /\ a * (b + 0) = a * b
  OBVIOUS
<1>13. metrics'.opened = Cardinality(CostedStreams')
  BY <1>8, <1>10, <1>11
<1>14. metrics'.opened + metrics'.refused <= Attempts * Cardinality(Costed')
  <2>1. Attempts * Cardinality(Costed') = Attempts * n + Attempts /\ Attempts * n \in Nat
    BY <1>4, <1>9, <1>12
  <2> QED BY <1>1, <1>6, <1>9, <1>10, <1>11, <2>1
<1>15. metrics'.unanswered + Cardinality(Kept') <= metrics'.opened
  BY <1>1, <1>2, <1>4, <1>6, <1>10, <1>11
<1>16. metrics'.opened <= metrics'.unanswered + Concurrency * Cardinality(Kept')
  <2> DEFINE x == Concurrency * k
  <2>1. x \in Nat /\ metrics.opened <= metrics.unanswered + x
    BY <1>4, <1>6, <1>9, <1>10, <1>12
  <2>2. CASE pc[d] = "gave_up" /\ e = 0
    <3>1. Concurrency * Cardinality(Kept') = x
      BY <1>4, <1>9, <1>12, <2>2
    <3> HIDE DEF x
    <3> QED BY <1>1, <1>6, <1>11, <2>1, <2>2, <3>1
  <2>3. CASE pc[d] = "returned" /\ e = 1
    <3>1. Concurrency * Cardinality(Kept') = x + Concurrency
      BY <1>4, <1>9, <1>12, <2>3
    <3> HIDE DEF x
    <3> QED BY <1>1, <1>6, <1>9, <1>11, <2>1, <2>3, <3>1
  <2> QED BY <1>2, <2>2, <2>3
<1> QED BY <1>8, <1>13, <1>14, <1>15, <1>16 DEF CostsOK

LEMMA CountRoundsKeeps ==
    ASSUME ClientInv, NEW d \in Dials, CountRounds(d)
    PROVE  ClientInv'
<1> DEFINE rs == rounds[d]
<1>1. /\ stage[d] = "dialling" /\ pc[d] \in Resolved /\ Enter(d, "costed")
      /\ metrics' = Dialled(rs)
      /\ UNCHANGED <<no_probe, main, failed_in_a_row, refusals, degraded, dead>>
      /\ UNCHANGED dialVars
  BY DEF CountRounds, streaks
<1>2. /\ DialInv' /\ HistoryInv' /\ OthersStay(d) /\ UNCHANGED <<pc, settings, rounds, existed>>
      /\ Answered(d)' = Answered(d) /\ stage'[d] = "costed" /\ stage' \in [Dials -> Stages]
  <2>1. "costed" \in Stages
    BY DEF Stages, InFlight
  <2> QED BY <1>1, <2>1, DialRests, OneEnters
<1>3. PlaceOK(d) /\ DialInv /\ HistoryInv /\ rs \in Seq(Round) /\ metrics \in [Metrics -> Nat]
  BY TypedWithMutex DEF DialInv, Typed, ClientInv, ClientTyped
<1>4. Answered(d) <=> pc[d] = "returned"
  BY <1>1, <1>3, AnsweredIsHow DEF Resolved
<1>5. PlaceOK(d)'
  BY <1>1, <1>2, <1>3 DEF PlaceOK
<1>6. /\ metrics' \in [Metrics -> Nat]
      /\ metrics'["opened"] = metrics["opened"] + CountIn(rs, "opened")
      /\ metrics'["refused"] = metrics["refused"] + CountIn(rs, "refused")
      /\ metrics'["unanswered"] = metrics["unanswered"] + CountIn(rs, "unanswered")
      /\ \A f \in {"connections", "in_flight", "first_round_failures", "established",
                   "unestablished", "ended"} : metrics'[f] = metrics[f]
  BY <1>1, <1>3, CostsByField
<1>7. \A f \in Metrics : metrics[f] \in Nat
  BY <1>3
<1>8. ClientTyped'
  BY <1>1, <1>2, <1>6 DEF ClientInv, ClientTyped
<1>9. Sits(d) /\ Sits(d)'
  BY Membership
<1>10. /\ d \in Arrived /\ d \in Arrived' /\ d \in At(InFlight) /\ d \in At(InFlight)'
       /\ d \notin Outside /\ d \notin Outside' /\ d \notin Outcome /\ d \notin Outcome'
       /\ d \notin Streamed /\ d \notin Streamed' /\ d \notin Doomed /\ d \notin Doomed'
       /\ d \notin Refused /\ d \notin Refused'
  BY <1>1, <1>2, <1>9 DEF Sits, InFlight
<1>11. /\ d \notin Weighed /\ d \notin Weighed' /\ d \notin Costed /\ d \in Costed'
       /\ d \notin Unserved /\ d \notin Unserved' /\ d \notin Rescued /\ d \notin Rescued'
       /\ d \notin Kept /\ (d \in Kept' <=> pc[d] = "returned")
  BY <1>1, <1>2, <1>4, <1>9, <1>10 DEF Sits
<1>12. CountersFollow(d)
  BY <1>6, <1>7, <1>10, <1>11 DEF CountersFollow, One, Metrics
<1>13. RetriesFollow(d)
  BY <1>6, <1>7, <1>10, <1>11 DEF RetriesFollow, One, Metrics
<1>14. RefusalsFollow(d)
  BY <1>1, <1>10 DEF RefusalsFollow, One, ClientInv, ClientTyped
<1>15. CostsOK'
  BY <1>1, <1>2, <1>6, <1>8, <1>11, CostsAreCounted
<1> QED BY <1>1, <1>2, <1>5, <1>8, <1>12, <1>13, <1>14, <1>15, StepStaysRight

LEMMA CountFirstRoundKeeps ==
    ASSUME ClientInv, NEW d \in Dials, CountFirstRound(d)
    PROVE  ClientInv'
<1>1. /\ stage[d] = "costed" /\ Enter(d, "weighed")
      /\ metrics' = IF FirstRoundFailed(rounds[d]) THEN Raise("first_round_failures") ELSE metrics
      /\ UNCHANGED <<no_probe, main, failed_in_a_row, refusals, degraded, dead>>
      /\ UNCHANGED dialVars
  BY DEF CountFirstRound, streaks
<1>2. /\ DialInv' /\ HistoryInv' /\ OthersStay(d) /\ UNCHANGED <<pc, settings, rounds, existed>>
      /\ Answered(d)' = Answered(d) /\ stage'[d] = "weighed" /\ stage' \in [Dials -> Stages]
  <2>1. "weighed" \in Stages
    BY DEF Stages, InFlight
  <2> QED BY <1>1, <2>1, DialRests, OneEnters
<1>3. PlaceOK(d) /\ DialInv /\ HistoryInv /\ pc[d] \in Resolved
  BY <1>1 DEF ClientInv, PlaceOK
<1>4. /\ (Answered(d) <=> pc[d] = "returned") /\ (pc[d] = "returned" \/ pc[d] = "gave_up")
      /\ FirstRoundFailed(rounds[d]) <=> pc[d] = "gave_up" \/ Len(rounds[d]) > 1
  BY <1>3, AnsweredIsHow, FirstRoundOf DEF Resolved
<1>5. PlaceOK(d)'
  BY <1>1, <1>2, <1>3 DEF PlaceOK
<1>6. /\ metrics' \in [Metrics -> Nat]
      /\ metrics'["first_round_failures"] =
             metrics["first_round_failures"] + One(FirstRoundFailed(rounds[d]))
      /\ \A f \in Metrics :
             metrics[f] \in Nat /\ (f # "first_round_failures" => metrics'[f] = metrics[f])
  <2>1. metrics \in [Metrics -> Nat] /\ "first_round_failures" \in Metrics
    BY DEF ClientInv, ClientTyped, Metrics
  <2>2. CASE FirstRoundFailed(rounds[d])
    BY <1>1, <2>1, <2>2, OneRaised DEF One
  <2>3. CASE ~ FirstRoundFailed(rounds[d])
    BY <1>1, <2>1, <2>3 DEF One
  <2> QED BY <2>2, <2>3
<1>7. ClientTyped'
  BY <1>1, <1>2, <1>6 DEF ClientInv, ClientTyped
<1>8. Sits(d) /\ Sits(d)'
  BY Membership
<1>9. /\ d \in Arrived /\ d \in Arrived' /\ d \in At(InFlight) /\ d \in At(InFlight)'
      /\ d \notin Outside /\ d \notin Outside' /\ d \notin Outcome /\ d \notin Outcome'
      /\ d \notin Streamed /\ d \notin Streamed' /\ d \notin Refused /\ d \notin Refused'
      /\ d \notin Doomed /\ (d \in Doomed' <=> pc[d] = "gave_up")
  BY <1>1, <1>2, <1>8 DEF Sits, InFlight
<1>10. /\ d \notin Weighed /\ d \in Weighed' /\ d \in Costed /\ d \in Costed'
       /\ d \notin Unserved /\ d \notin Unserved'
       /\ d \notin Rescued /\ (d \in Rescued' <=> pc[d] = "returned" /\ Len(rounds[d]) > 1)
       /\ (d \in Kept' <=> d \in Kept)
  BY <1>1, <1>2, <1>4, <1>8, <1>9 DEF Sits
<1>11. CountersFollow(d)
  BY <1>6, <1>9, <1>10 DEF CountersFollow, One, Metrics
<1>12. RetriesFollow(d)
  <2>1. CASE pc[d] = "returned"
    BY <1>4, <1>6, <1>9, <1>10, <2>1 DEF RetriesFollow, One, Metrics
  <2>2. CASE pc[d] = "gave_up"
    BY <1>4, <1>6, <1>9, <1>10, <2>2 DEF RetriesFollow, One, Metrics
  <2> QED BY <1>4, <2>1, <2>2
<1>13. RefusalsFollow(d)
  BY <1>1, <1>9 DEF RefusalsFollow, One, ClientInv, ClientTyped
<1>14. CostsOK'
  BY <1>2, <1>6, <1>10, CostsStayRight DEF ClientInv, Metrics
<1> QED BY <1>1, <1>2, <1>5, <1>7, <1>11, <1>12, <1>13, <1>14, StepStaysRight

LEMMA CountOutcomeKeeps ==
    ASSUME ClientInv, NEW d \in Dials, CountOutcome(d)
    PROVE  ClientInv'
<1> DEFINE last == IF pc[d] = "returned" THEN "established" ELSE "unestablished"
<1>1. /\ stage[d] = "weighed" /\ Enter(d, "counted") /\ metrics' = Raise(last)
      /\ UNCHANGED <<no_probe, main, failed_in_a_row, refusals, degraded, dead>>
      /\ UNCHANGED dialVars
  BY DEF CountOutcome, streaks
<1>2. /\ DialInv' /\ HistoryInv' /\ OthersStay(d) /\ UNCHANGED <<pc, settings, rounds, existed>>
      /\ Answered(d)' = Answered(d) /\ stage'[d] = "counted" /\ stage' \in [Dials -> Stages]
  <2>1. "counted" \in Stages
    BY DEF Stages, InFlight
  <2> QED BY <1>1, <2>1, DialRests, OneEnters
<1>3. PlaceOK(d) /\ DialInv /\ HistoryInv /\ pc[d] \in Resolved
  BY <1>1 DEF ClientInv, PlaceOK
<1>4. (Answered(d) <=> pc[d] = "returned") /\ (pc[d] = "returned" \/ pc[d] = "gave_up")
  BY <1>3, AnsweredIsHow DEF Resolved
<1>5. PlaceOK(d)'
  BY <1>1, <1>2, <1>3 DEF PlaceOK
<1>6. /\ metrics' \in [Metrics -> Nat] /\ metrics'[last] = metrics[last] + 1
      /\ \A f \in Metrics : metrics[f] \in Nat /\ (f # last => metrics'[f] = metrics[f])
  <2>1. last \in Metrics
    BY DEF Metrics
  <2> HIDE DEF last
  <2> QED BY <1>1, <2>1, OneRaised DEF ClientInv, ClientTyped
<1>7. ClientTyped'
  BY <1>1, <1>2, <1>6 DEF ClientInv, ClientTyped
<1>8. Sits(d) /\ Sits(d)'
  BY Membership
<1>9. /\ d \in Arrived /\ d \in Arrived' /\ d \in At(InFlight) /\ d \in At(InFlight)'
      /\ d \notin Outside /\ d \notin Outside' /\ d \notin Outcome /\ d \in Outcome'
      /\ d \notin Streamed /\ (d \in Streamed' <=> pc[d] = "returned")
      /\ (d \in Doomed <=> pc[d] = "gave_up") /\ d \notin Doomed'
      /\ d \notin Refused /\ d \notin Refused'
  BY <1>1, <1>2, <1>4, <1>8 DEF Sits, InFlight
<1>10. /\ d \in Weighed /\ d \in Weighed' /\ d \in Costed /\ d \in Costed'
       /\ d \notin Unserved /\ (d \in Unserved' <=> pc[d] = "gave_up")
       /\ (d \in Rescued' <=> d \in Rescued) /\ (d \in Kept' <=> d \in Kept)
  BY <1>1, <1>2, <1>8, <1>9 DEF Sits
<1>11. /\ metrics'["established"] = metrics["established"] + One(pc[d] = "returned")
       /\ metrics'["unestablished"] = metrics["unestablished"] + One(pc[d] = "gave_up")
       /\ \A f \in Metrics \ {"established", "unestablished"} : metrics'[f] = metrics[f]
  <2>1. CASE pc[d] = "returned"
    BY <1>6, <2>1 DEF Metrics, One
  <2>2. CASE pc[d] = "gave_up"
    BY <1>6, <2>2 DEF Metrics, One
  <2> QED BY <1>4, <2>1, <2>2
<1>12. CountersFollow(d)
  <2>1. CASE pc[d] = "returned"
    BY <1>6, <1>9, <1>10, <1>11, <2>1 DEF CountersFollow, One, Metrics
  <2>2. CASE pc[d] = "gave_up"
    BY <1>6, <1>9, <1>10, <1>11, <2>2 DEF CountersFollow, One, Metrics
  <2> QED BY <1>4, <2>1, <2>2
<1>13. RetriesFollow(d)
  <2>1. CASE pc[d] = "returned"
    BY <1>6, <1>9, <1>10, <1>11, <2>1 DEF RetriesFollow, One, Metrics
  <2>2. CASE pc[d] = "gave_up"
    BY <1>6, <1>9, <1>10, <1>11, <2>2 DEF RetriesFollow, One, Metrics
  <2> QED BY <1>4, <2>1, <2>2
<1>14. RefusalsFollow(d)
  BY <1>1, <1>9 DEF RefusalsFollow, One, ClientInv, ClientTyped
<1>15. CostsOK'
  BY <1>2, <1>10, <1>11, CostsStayRight DEF ClientInv, Metrics
<1> QED BY <1>1, <1>2, <1>5, <1>7, <1>12, <1>13, <1>14, <1>15, StepStaysRight

-----------------------------------------------------------------------------
(* The invariant, and what it says. *)

LEMMA ClientStutterKeeps ==
    ASSUME ClientInv, UNCHANGED <<dialVars, no_probe, stage, metrics, streaks>>,
           main' \in {"serving", "draining", "aborting"}
    PROVE  ClientInv'
<1>1. /\ UNCHANGED dialVars
      /\ UNCHANGED <<no_probe, stage, metrics, failed_in_a_row, refusals, degraded, dead>>
  BY DEF streaks
<1>2. UNCHANGED <<pc, settings, rounds, existed>>
  BY <1>1 DEF dialVars
<1>3. DialInv' /\ HistoryInv'
  BY <1>1, StutterKeeps, HistoryOfStutter DEF ClientInv
<1>4. ClientTyped'
  BY <1>1 DEF ClientInv, ClientTyped
<1>5. \A d \in Dials : PlaceOK(d)'
  BY <1>1, <1>2 DEF ClientInv, PlaceOK
<1>6. /\ Arrived' = Arrived /\ At(InFlight)' = At(InFlight) /\ Outside' = Outside
      /\ Outcome' = Outcome /\ Weighed' = Weighed /\ Costed' = Costed
      /\ Streamed' = Streamed /\ Doomed' = Doomed /\ Refused' = Refused
  BY <1>1, <1>2 DEF Arrived, At, Outside, Outcome, Weighed, Costed, Streamed, Doomed, Refused,
                    Answered
<1>7. /\ Unserved' = Unserved /\ Rescued' = Rescued /\ Kept' = Kept
      /\ CostedStreams' = CostedStreams
  BY <1>2, <1>6 DEF Unserved, Rescued, Kept, CostedStreams, Answered
<1>8. ConnectionsOK'
  BY <1>1, <1>6, <1>7 DEF ClientInv, ConnectionsOK
<1>9. RetriesOK' /\ RefusalsOK'
  BY <1>1, <1>6, <1>7 DEF ClientInv, RetriesOK, RefusalsOK
<1>10. CostsOK'
  BY <1>1, <1>6, <1>7 DEF ClientInv, CostsOK
<1> QED BY <1>3, <1>4, <1>5, <1>8, <1>9, <1>10 DEF ClientInv

LEMMA ClientInitEstablishes == Init => ClientInv
<1> SUFFICES ASSUME Init PROVE ClientInv
  OBVIOUS
<1>1. /\ DialInit /\ no_probe \in BOOLEAN /\ stage = [d \in Dials |-> "new"] /\ main = "serving"
      /\ metrics = [connections |-> 0, in_flight |-> 0, rounds |-> 0, opened |-> 0, refused |-> 0,
                    unanswered |-> 0, first_round_failures |-> 0, established |-> 0,
                    unestablished |-> 0, ended |-> 0]
      /\ failed_in_a_row = 0 /\ refusals = 0 /\ degraded = FALSE /\ dead = FALSE
  BY DEF Init
<1>2. DialInv /\ HistoryInv
  BY <1>1, InitEstablishes, HistoryOfInit
<1>3. DOMAIN metrics = Metrics /\ \A f \in Metrics : metrics[f] = 0
  BY <1>1 DEF Metrics
<1>4. metrics \in [Metrics -> Nat]
  <2>1. metrics = [f \in Metrics |-> metrics[f]]
    BY <1>1, <1>3 DEF Metrics
  <2> QED BY <1>3, <2>1
<1>5. ClientTyped
  BY <1>1, <1>4 DEF ClientTyped, Stages
<1>6. \A d \in Dials : PlaceOK(d)
  BY <1>1 DEF PlaceOK, DialInit
<1>7. /\ Arrived = {} /\ At(InFlight) = {} /\ Outside = {}
      /\ Outcome = {} /\ At({"weighed"}) = {} /\ At({"costed"}) = {}
      /\ Streamed = {} /\ Doomed = {} /\ Refused = {}
  BY <1>1 DEF Arrived, At, InFlight, Outside, Outcome, Streamed, Doomed, Refused
<1>8. /\ Weighed = {} /\ Costed = {} /\ Unserved = {} /\ Rescued = {} /\ Kept = {}
      /\ CostedStreams = {}
  BY <1>7 DEF Weighed, Costed, Unserved, Rescued, Kept, CostedStreams
<1>9. IsFiniteSet({}) /\ Cardinality({}) = 0
  BY FS_EmptySet
<1>10. /\ metrics.connections = 0 /\ metrics.in_flight = 0 /\ metrics.ended = 0
       /\ metrics.established = 0 /\ metrics.unestablished = 0 /\ metrics.first_round_failures = 0
       /\ metrics.opened = 0 /\ metrics.refused = 0 /\ metrics.unanswered = 0
  BY <1>3 DEF Metrics
<1>11. ConnectionsOK /\ RetriesOK
  BY <1>7, <1>8, <1>9, <1>10 DEF ConnectionsOK, RetriesOK
<1>12. RefusalsOK
  BY <1>1, <1>7, <1>9 DEF RefusalsOK
<1>13. CostsOK
  <2>1. Attempts * 0 = 0 /\ Concurrency * 0 = 0
    BY ClientAssumption, AttemptsAssumption
  <2> QED BY <1>7, <1>8, <1>9, <1>10, <2>1 DEF CostsOK
<1> QED BY <1>2, <1>5, <1>6, <1>11, <1>12, <1>13 DEF ClientInv

LEMMA ClientNextKeeps == ClientInv /\ [Next]_vars => ClientInv'
<1> SUFFICES ASSUME ClientInv, [Next]_vars PROVE ClientInv'
  OBVIOUS
<1>1. ASSUME NEW d \in Dials, Carry(d) PROVE ClientInv'
  <2>1. CASE Accept(d)
    BY <2>1, UncountedKeeps DEF Accept
  <2>2. CASE Arrive(d)
    BY <2>2, ArriveKeeps
  <2>3. CASE Call(d)
    BY <2>3, CallKeeps
  <2>4. CASE GetOn(d)
    BY <2>4, GetOnKeeps
  <2>5. CASE CountRounds(d)
    BY <2>5, CountRoundsKeeps
  <2>6. CASE CountFirstRound(d)
    BY <2>6, CountFirstRoundKeeps
  <2>7. CASE CountOutcome(d)
    BY <2>7, CountOutcomeKeeps
  <2>8. CASE Fold(d)
    BY <2>8, FoldKeeps
  <2>9. CASE Finish(d)
    BY <2>9, FinishKeeps
  <2>10. CASE CountEnd(d)
    BY <2>10, CountEndKeeps
  <2>11. CASE Leave(d)
    BY <2>11, LeaveKeeps
  <2>12. CASE Abort(d)
    BY <2>12, AbortKeeps
  <2>13. CASE AbortUnpolled(d)
    BY <2>13, UncountedKeeps DEF AbortUnpolled
  <2> QED BY <1>1, <2>1, <2>2, <2>3, <2>4, <2>5, <2>6, <2>7, <2>8, <2>9, <2>10, <2>11, <2>12,
             <2>13 DEF Carry
<1>2. CASE Shutdown \/ GraceRunsOut
  BY <1>2, ClientStutterKeeps DEF Shutdown, GraceRunsOut
<1>3. CASE UNCHANGED vars
  <2>1. UNCHANGED <<dialVars, no_probe, stage, metrics, streaks>> /\ main' = main
    BY <1>3 DEF vars, clientVars
  <2> QED BY <2>1, ClientStutterKeeps DEF ClientInv, ClientTyped
<1> QED BY <1>1, <1>2, <1>3 DEF Next

LEMMA ClientInvariance == Spec => []ClientInv
<1> QED BY ClientInitEstablishes, ClientNextKeeps, PTL DEF Spec

\* What the counters of the streams say of those nobody accounts for.
LEMMA StreamsInvAddsUp ==
    ASSUME ClientInv
    PROVE  StreamsAddUp
<1> DEFINE k == Cardinality(Kept)
           x == (Concurrency - 1) * k
<1>1. \A f \in Metrics : metrics[f] \in Nat
  BY DEF ClientInv, ClientTyped
<1>2. metrics.opened \in Nat /\ metrics.unanswered \in Nat
  BY <1>1 DEF Metrics
<1>3. k \in Nat
  BY ArrivedAreFinite, FS_CardinalityType DEF ClientInv, ConnectionsOK
<1>4. Concurrency \in Nat /\ Concurrency >= 1
  BY ClientAssumption, AttemptsAssumption
<1>5. CostsOK
  BY DEF ClientInv
<1>6. x \in Int /\ Concurrency * k = x + k
  <2>1. \A a, b \in Int : (a - 1) * b \in Int /\ a * b = (a - 1) * b + b
    OBVIOUS
  <2> QED BY <1>3, <1>4, <2>1
<1>7. metrics.unanswered + k <= metrics.opened /\ metrics.opened <= metrics.unanswered + (x + k)
  BY <1>5, <1>6 DEF CostsOK
<1>8. metrics.opened - metrics.unanswered - k \in 0..x
  <2> HIDE DEF k, x
  <2> QED BY <1>2, <1>3, <1>6, <1>7
<1> QED BY <1>5, <1>8 DEF StreamsAddUp, CostsOK, CostedStreams, Kept

\* What the invariant says of the client.
LEMMA ClientIsRight ==
    ClientInv => /\ TypeOK /\ StreamsAccountedFor /\ BudgetIsSpentExactly /\ VerdictFollowsTheEcho
                 /\ ConnectionsAddUp /\ RetriesExplainTheGap /\ StreamsAddUp /\ DeadClientWasRefused
<1> SUFFICES ASSUME ClientInv
             PROVE  /\ TypeOK /\ StreamsAccountedFor /\ BudgetIsSpentExactly /\ VerdictFollowsTheEcho
                    /\ ConnectionsAddUp /\ RetriesExplainTheGap /\ StreamsAddUp
                    /\ DeadClientWasRefused
  OBVIOUS
<1>1. DialTypeOK /\ StreamsAccountedFor /\ BudgetIsSpentExactly /\ VerdictFollowsTheEcho
  BY DialsAreRight DEF ClientInv
<1>2. TypeOK
  BY <1>1 DEF TypeOK, ClientInv, ClientTyped, Metrics
<1>3. ConnectionsAddUp
  BY DEF ConnectionsAddUp, ClientInv, ConnectionsOK, Outside, Streamed, Unserved
<1>4. \A f \in Metrics : metrics[f] \in Nat
  BY DEF ClientInv, ClientTyped
<1>5. /\ metrics.first_round_failures \in Nat /\ metrics.unestablished \in Nat
      /\ metrics.connections \in Nat
  BY <1>4 DEF Metrics
<1>6. Cardinality(Weighed) <= Cardinality(Arrived) /\ Cardinality(Weighed) \in Nat
      /\ Cardinality(Rescued) \in Nat /\ Cardinality(Doomed) \in Nat
  <2>1. Weighed \subseteq Arrived
    BY DEF Weighed, Outcome, Arrived, At
  <2>2. IsFiniteSet(Arrived) /\ IsFiniteSet(Rescued) /\ IsFiniteSet(Doomed)
    BY ArrivedAreFinite DEF ClientInv, ConnectionsOK
  <2> QED BY <2>1, <2>2, FS_Subset, FS_CardinalityType
<1>7. RetriesExplainTheGap
  <2>1. /\ metrics.first_round_failures =
               metrics.unestablished + Cardinality(Rescued) + Cardinality(Doomed)
        /\ metrics.first_round_failures <= Cardinality(Weighed)
        /\ metrics.connections = Cardinality(Arrived)
    BY DEF ClientInv, RetriesOK, ConnectionsOK
  <2>2. metrics.first_round_failures - metrics.unestablished =
            Cardinality(Rescued) + Cardinality(Doomed)
    BY <1>5, <1>6, <2>1
  <2>3. metrics.first_round_failures <= metrics.connections
    BY <1>5, <1>6, <2>1
  <2> QED BY <2>2, <2>3 DEF RetriesExplainTheGap, Rescued, Doomed
<1>8. StreamsAddUp
  BY StreamsInvAddsUp
<1>9. DeadClientWasRefused
  BY DEF DeadClientWasRefused, ClientInv, RefusalsOK, Refused
<1> QED BY <1>1, <1>2, <1>3, <1>7, <1>8, <1>9

\* The client's connections keep every dial in its place at the mutex, whatever the number of
\* connections and of attempts.
THEOREM ClientKeepsItsTypes == Spec => []TypeOK
<1>1. ClientInv => TypeOK
  BY ClientIsRight
<1> QED BY <1>1, ClientInvariance, PTL

\* Serving, being refused and being aborted at shutdown leave no stream registered without an owner,
\* except, for a dial aborted in the middle of an open, the one stream it was opening.
THEOREM ClientStreamsHaveOwners == Spec => []StreamsAccountedFor
<1>1. ClientInv => StreamsAccountedFor
  BY ClientIsRight
<1> QED BY <1>1, ClientInvariance, PTL

\* Every connection's dial spends the attempts of the command line, exactly.
THEOREM ClientSpendsItsBudget == Spec => []BudgetIsSpentExactly
<1>1. ClientInv => BudgetIsSpentExactly
  BY ClientIsRight
<1> QED BY <1>1, ClientInvariance, PTL

\* A connection is carried over a stream that echoed, unless it is not probed.
THEOREM ClientTrustsTheEcho == Spec => []VerdictFollowsTheEcho
<1>1. ClientInv => VerdictFollowsTheEcho
  BY ClientIsRight
<1> QED BY <1>1, ClientInvariance, PTL

\* The gauge and the connection counters of ClientMetrics agree with the connections themselves, on
\* every path out of `carry`, between any two writes and whatever a shutdown aborts.
THEOREM ConnectionCountersAddUp == Spec => []ConnectionsAddUp
<1>1. ClientInv => ConnectionsAddUp
  BY ClientIsRight
<1> QED BY <1>1, ClientInvariance, PTL

\* First-round failures less connections given up are the connections a later round saved, and those
\* about to be counted as given up.
THEOREM TheGapIsTheRetries == Spec => []RetriesExplainTheGap
<1>1. ClientInv => RetriesExplainTheGap
  BY ClientIsRight
<1> QED BY <1>1, ClientInvariance, PTL

\* The stream counters leave unaccounted only the siblings a round cancelled, of which there are fewer
\* than the concurrency for every stream kept.
THEOREM StreamCountersAddUp == Spec => []StreamsAddUp
<1>1. ClientInv => StreamsAddUp
  BY ClientIsRight
<1> QED BY <1>1, ClientInvariance, PTL

\* The client gives up on its local client only once as many connections as the limit were refused
\* every stream.
THEOREM OnlyRefusalsKill == Spec => []DeadClientWasRefused
<1>1. ClientInv => DeadClientWasRefused
  BY ClientIsRight
<1> QED BY <1>1, ClientInvariance, PTL

=============================================================================
