-------------------------------- MODULE Tunnel -------------------------------
(***************************************************************************)
(* One wallet connection from end to end: the dialling half (`carry` of    *)
(* src/src/bin/client.rs), the mixnet, the listening half (`serve` of      *)
(* src/src/bin/server.rs) and the upstream, over the handshake the halves  *)
(* exchange (src/src/handshake.rs) and the deadlines they give up by.      *)
(*                                                                         *)
(* The mixnet delivers what is sent on a stream in order, or late, or not  *)
(* at all, and a stream's first payload may reach the listener before the  *)
(* Open that registers it: the SDK discards it then, tells nobody, and     *)
(* holds what follows for ever.  Nobody is told of a stream that is        *)
(* dropped either.  Modules Dial, Serve and Splice have each half in       *)
(* detail; here a dial tries one stream at a time, a chunk is read and     *)
(* written in one step, and a deadline may pass at any moment, whether     *)
(* what it waits for is lost or still under way.                           *)
(***************************************************************************)
EXTENDS Integers, Sequences

CONSTANTS
    Attempts,   \* ProbeSettings.attempts
    Requests,   \* bound: the requests the wallet writes
    AnswerLen   \* the chunks the upstream answers each request with

ASSUME TunnelAssumption ==
    Attempts \in Nat \ {0} /\ Requests \in Nat /\ AnswerLen \in Nat \ {0}

Streams == 1..Attempts

\* On a stream travel the header and the chunks of the wallet or of the upstream: 1, 2, ...
Header == 0

VARIABLES
    probed,     \* --no-probe was not given
    carry,      \* where the wallet's connection is in `carry`
    cur,        \* the last stream tried, which carries if one does
    asked,      \* requests the wallet wrote
    forwarded,  \* how many of them were recorded as written to the stream
    got,        \* the chunks written to the wallet
    settled,    \* forwarded, when the last of those was recorded
    tied,       \* what was written since was all stamped with the millisecond of that record
    opens,      \* opens[s]: whether the Open of a stream was sent, and has arrived
    uplink,     \* uplink[s]: what is on its way to the listening half
    deaf,       \* the streams whose first payload was discarded
    downlink,   \* downlink[s]: what is on its way back
    at,         \* at[s]: where the stream is in `serve`
    opening,    \* opening[s]: the request the stream was opened with
    received,   \* received[s]: the requests written to the upstream
    answered    \* answered[s]: how many chunks it answered with

dialler == <<probed, carry, cur, asked, forwarded, got, settled, tied>>
listener == <<at, opening, received, answered>>
vars == <<dialler, opens, uplink, deaf, downlink, listener>>

Init ==
    /\ probed \in BOOLEAN
    /\ carry = "dialling"
    /\ cur = 0
    /\ asked = 0 /\ forwarded = 0 /\ got = <<>> /\ settled = 0
    /\ tied = FALSE
    /\ opens = [s \in Streams |-> "unsent"]
    /\ uplink = [s \in Streams |-> <<>>]
    /\ deaf = {}
    /\ downlink = [s \in Streams |-> <<>>]
    /\ at = [s \in Streams |-> "unknown"]
    /\ opening = [s \in Streams |-> <<>>]
    /\ received = [s \in Streams |-> <<>>]
    /\ answered = [s \in Streams |-> 0]

Push(net, s, frame) == [net EXCEPT ![s] = Append(@, frame)]

Pop(net, s) == [net EXCEPT ![s] = Tail(@)]

-----------------------------------------------------------------------------
(* The wallet, and the dialling half. *)

(* The wallet writes a request, if need be while its connection is dialled. *)
Ask ==
    /\ carry # "closed"
    /\ asked < Requests
    /\ asked' = asked + 1
    /\ UNCHANGED <<probed, carry, cur, forwarded, got, settled, tied,
                   opens, uplink, deaf, downlink, listener>>

Budget == IF probed THEN Attempts ELSE 1

Tried(to) ==
    /\ carry = "dialling" /\ cur < Budget
    /\ cur' = cur + 1
    /\ carry' = to
    /\ UNCHANGED <<probed, asked, forwarded, got, settled, tied, deaf, downlink, listener>>

(* A stream is opened and sent the header; without a probe that is enough. *)
OpenStream ==
    /\ Tried(IF probed THEN "probing" ELSE "carrying")
    /\ opens' = [opens EXCEPT ![cur + 1] = "sent"]
    /\ uplink' = Push(uplink, cur + 1, Header)

OpenRefused == Tried("dialling") /\ UNCHANGED <<opens, uplink>>

Echoed == downlink[cur] # <<>> /\ Head(downlink[cur]) = Header

\* A mutant: a header that was sent is a header that arrived.
KeepUnheard ==
    /\ carry = "probing"
    /\ carry' = "carrying"
    /\ UNCHANGED <<probed, cur, asked, forwarded, got, settled, tied,
                   opens, uplink, deaf, downlink, listener>>

(* The echo is read, and the stream kept... *)
Keep ==
    /\ carry = "probing"
    /\ Echoed
    /\ carry' = "carrying"
    /\ downlink' = Pop(downlink, cur)
    /\ UNCHANGED <<probed, cur, asked, forwarded, got, settled, tied, opens, uplink, deaf, listener>>

(* ... or the probe's deadline passes, and it is dropped. *)
ProbeDeadline ==
    /\ carry = "probing"
    /\ carry' = "dialling"
    /\ UNCHANGED <<probed, cur, asked, forwarded, got, settled, tied,
                   opens, uplink, deaf, downlink, listener>>

\* The wallet's connection is dropped, and what it asked with it.
Close ==
    /\ carry' = "closed"
    /\ UNCHANGED <<probed, cur, asked, forwarded, got, settled, tied,
                   opens, uplink, deaf, downlink, listener>>

GiveUp == carry = "dialling" /\ cur = Budget /\ Close

\* A mutant: the wallet's bytes do not wait for the probe.
HasSomeStream == carry \in {"probing", "carrying"}

HasStream == carry = "carrying"

\* A write stamped in the millisecond of the last answer does not look later than it.
MayTie == tied \/ (got # <<>> /\ settled = forwarded)

(* The splice forwards a request. *)
Forward ==
    /\ HasStream
    /\ forwarded < asked
    /\ forwarded' = forwarded + 1
    /\ tied' \in {FALSE, MayTie}
    /\ uplink' = Push(uplink, cur, forwarded + 1)
    /\ UNCHANGED <<probed, carry, cur, asked, got, settled, opens, deaf, downlink, listener>>

(* It writes a chunk that came back to the wallet. *)
TakeAnswer ==
    /\ carry = "carrying"
    /\ downlink[cur] # <<>>
    /\ got' = Append(got, Head(downlink[cur]))
    /\ downlink' = Pop(downlink, cur)
    /\ settled' = forwarded
    /\ tied' = FALSE
    /\ UNCHANGED <<probed, carry, cur, asked, forwarded, opens, uplink, deaf, listener>>

\* A mutant: a far side that has answered once is not watched any more.
NeverAnswered == forwarded > 0 /\ got = <<>>

\* The far side was written to and has answered nothing since.
Outstanding == forwarded > settled /\ ~ tied

(* The stall deadline passes. *)
Stall == carry = "carrying" /\ Outstanding /\ Close

(* The wallet leaves, or a read or a write fails or ends: among them the    *)
(* read that ends when the SDK, which sweeps streams nothing has moved on,  *)
(* lets the dialling half's go after half an hour.                          *)
SpliceEnds == carry = "carrying" /\ Close

-----------------------------------------------------------------------------
(* The mixnet. *)

(* An Open arrives, and the listener has a permit for the stream or drops it. *)
OpenArrives(s) ==
    /\ opens[s] = "sent"
    /\ opens' = [opens EXCEPT ![s] = "arrived"]
    /\ \E to \in {"handshaking", "gone"} : at' = [at EXCEPT ![s] = to]
    /\ UNCHANGED <<dialler, uplink, deaf, downlink, opening, received, answered>>

(* The first payload arrives before it. *)
Overtake(s) ==
    /\ opens[s] = "sent"
    /\ uplink[s] # <<>>
    /\ uplink' = Pop(uplink, s)
    /\ deaf' = deaf \cup {s}
    /\ UNCHANGED <<dialler, opens, downlink, listener>>

-----------------------------------------------------------------------------
(* The listening half, and the upstream. *)

Arrived(s) == s \notin deaf /\ uplink[s] # <<>>

\* The header says whether its dialler waits for an echo.
EchoedIfAsked(s) == IF probed THEN Push(downlink, s, Header) ELSE downlink

(* The header arrives, and is echoed if the dialler waits for it. *)
Introduce(s) ==
    /\ at[s] = "handshaking"
    /\ Arrived(s)
    /\ uplink' = Pop(uplink, s)
    /\ downlink' = EchoedIfAsked(s)
    /\ at' = [at EXCEPT ![s] = "awaiting"]
    /\ UNCHANGED <<dialler, opens, deaf, opening, received, answered>>

(* The first request arrives, and the upstream is dialled. *)
FirstRequest(s) ==
    /\ at[s] = "awaiting"
    /\ Arrived(s)
    /\ uplink' = Pop(uplink, s)
    /\ opening' = [opening EXCEPT ![s] = <<Head(uplink[s])>>]
    /\ at' = [at EXCEPT ![s] = "connecting"]
    /\ UNCHANGED <<dialler, opens, deaf, downlink, received, answered>>

\* A mutant: what was read to see whether there was a request is dropped.
OpeningDropped(s) == <<>>

OpeningWritten(s) == opening[s]

(* The upstream is connected, and written the request. *)
ConnectUpstream(s) ==
    /\ at[s] = "connecting"
    /\ at' = [at EXCEPT ![s] = "splicing"]
    /\ received' = [received EXCEPT ![s] = @ \o OpeningWritten(s)]
    /\ UNCHANGED <<dialler, opens, uplink, deaf, downlink, opening, answered>>

(* The splice carries one more. *)
CarryRequest(s) ==
    /\ at[s] = "splicing"
    /\ Arrived(s)
    /\ uplink' = Pop(uplink, s)
    /\ received' = [received EXCEPT ![s] = Append(@, Head(uplink[s]))]
    /\ UNCHANGED <<dialler, opens, deaf, downlink, at, opening, answered>>

(* The upstream answers with one more chunk, which the splice sends back. *)
CarryAnswer(s) ==
    /\ at[s] = "splicing"
    /\ answered[s] < AnswerLen * Len(received[s])
    /\ answered' = [answered EXCEPT ![s] = @ + 1]
    /\ downlink' = Push(downlink, s, answered[s] + 1)
    /\ UNCHANGED <<dialler, opens, uplink, deaf, at, opening, received>>

Gone(s) ==
    /\ at' = [at EXCEPT ![s] = "gone"]
    /\ UNCHANGED <<dialler, opens, uplink, deaf, downlink, opening, received, answered>>

\* A deadline runs on the handshake, on the first request, and on a splice nothing moves on.
UnderADeadline == {"handshaking", "awaiting", "splicing"}

(* It passes, or what it runs on ends or fails before. *)
LetGo(s) == at[s] \in UnderADeadline /\ Gone(s)

ConnectFails(s) == at[s] = "connecting" /\ Gone(s)

-----------------------------------------------------------------------------
Dialler ==
    \/ OpenStream \/ OpenRefused \/ Keep \/ ProbeDeadline \/ GiveUp
    \/ Forward \/ TakeAnswer \/ Stall \/ SpliceEnds

Listener(s) ==
    \/ Introduce(s) \/ FirstRequest(s) \/ ConnectUpstream(s) \/ ConnectFails(s)
    \/ CarryRequest(s) \/ CarryAnswer(s) \/ LetGo(s)

Next ==
    \/ Ask
    \/ Dialler
    \/ \E s \in Streams : OpenArrives(s) \/ Overtake(s) \/ Listener(s)

Spec == Init /\ [][Next]_vars

(* The timers of this program fire, and writing to a stream only queues a   *)
(* message.  Nothing is promised of the mixnet, the wallet or the upstream, *)
(* nor of the SDK's half-hour sweep of silent streams (SpliceEnds): what is *)
(* required under this fairness is what the program's own deadlines bring   *)
(* about.                                                                   *)
TimersFire ==
    /\ WF_vars(OpenStream \/ OpenRefused)
    /\ WF_vars(Keep \/ ProbeDeadline)
    /\ WF_vars(GiveUp)
    /\ WF_vars(Forward)
    /\ WF_vars(Stall)
    /\ \A s \in Streams : WF_vars(LetGo(s))

FairSpec == Spec /\ TimersFire

-----------------------------------------------------------------------------
(* Properties *)

\* What the probe is for: the wallet's bytes are never handed to a stream whose first payload the
\* listener lost, or that it has not accepted.
ProbedStreamIsWhole ==
    probed /\ carry = "carrying" => cur \notin deaf /\ at[cur] \notin {"unknown", "handshaking"}

\* The upstream hears of the stream that carries and of no other, however late what was sent on a
\* stream the dialler dropped arrives.
OnlyTheKeptStreamIsServed ==
    \A s \in Streams : at[s] \in {"connecting", "splicing"} \/ received[s] # <<>> =>
        s = cur /\ carry \in {"carrying", "closed"}

\* The one stream the upstream heard on (any, if it heard on none).
Served == CHOOSE s \in Streams : \A t \in Streams : received[t] # <<>> => t = s

\* A wallet connection over the mixnet is an ordinary one that may end: what reaches the upstream, and
\* what reaches the wallet, is what was sent, in order, once, with nothing left out before it.
Promised == INSTANCE Conduit WITH
    through <- received[Served],
    answered <- answered[Served],
    open <- carry # "closed"

TunnelIsAConduit == Promised!Spec

\* "Never hang": whatever the mixnet loses or delays and whatever the upstream does, after a request
\* something comes back or the wallet's connection is closed.  A write the watchdog cannot tell from
\* the answer before it (run splice_ties) is excepted for as long as nothing else is written.
RequestsEnd ==
    []<>(~ tied) =>
        \A r \in 1..Requests : asked >= r ~> settled >= r \/ carry = "closed"

-----------------------------------------------------------------------------
(* What an option and a decision record promise and the code does not keep. *)

\* client.rs:78-79, --stall-timeout-secs: "How long a connection may wait for an answer that never comes
\* before it is closed", and docs/decisions/0004-deadlines-are-the-only-close.md:42-43: an idle
\* deadline "is far too slow to be what a waiting wallet relies on".  After a request its whole
\* answer comes back, or a deadline of this program closes the wallet's connection.
DeadlinesEndTheWait ==
    []<>(~ tied) =>
        \A r \in 1..Requests : asked >= r ~> Len(got) >= AnswerLen * r \/ carry = "closed"

=============================================================================
