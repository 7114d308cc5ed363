-------------------------------- MODULE Serve -------------------------------
(***************************************************************************)
(* The listening half once it serves (`main` and `serve` of                *)
(* src/src/bin/server.rs, `accept` of src/src/handshake.rs): every mixnet  *)
(* stream is given one of a fixed number of permits or dropped, must       *)
(* introduce itself, must carry a request before the upstream is touched,  *)
(* and is then spliced to it.  A shutdown lets streams finish for a grace  *)
(* and aborts the rest.                                                    *)
(*                                                                         *)
(* What the splice does in between is module Splice; here it carries       *)
(* chunks and ends.  Deadlines are not timed: one may pass whenever what   *)
(* it waits for has not arrived, and the read is polled before its         *)
(* deadline, so never when it has.                                         *)
(***************************************************************************)
EXTENDS Integers, FiniteSets, FiniteSetsExt

CONSTANTS
    Streams,        \* the mixnet streams diallers open
    MaxStreams,     \* --max-streams
    MaxChunks,      \* bound: the chunks a dialler sends on one stream
    MaxSent         \* bound: the chunks the diallers send in all

ASSUME ServeAssumption ==
    /\ IsFiniteSet(Streams)
    /\ MaxStreams \in Nat \ {0}
    /\ MaxChunks \in Nat
    /\ MaxSent \in Nat

VARIABLES
    at,         \* at[s]: where the stream is in `serve`, or outside it
    header,     \* header[s]: what the dialler's first bytes turned out to be
    sent,       \* sent[s]: chunks of the wallet's bytes that arrived behind the header
    read,       \* read[s]: how many of them were read
    permits,    \* the semaphore's available permits
    main,       \* the main loop: accepting, draining, out of grace or stopped
    counted,    \* the ServerMetrics counters
    in_flight,  \* the connections_in_flight gauge
    transfer,   \* transfer[s]: chunks the splice counted towards the upstream
    carried,    \* history: chunks written to the upstream for each stream
    touched,    \* history: the streams the upstream was connected for
    left        \* history: left[s]: where in `serve` the stream was when it ended

vars == <<at, header, sent, read, permits, main, counted, in_flight, transfer, carried, touched, left>>

Waiting == {"handshaking", "echoing", "awaiting"}   \* the upstream is not involved yet
Upstream == {"opening", "splicing"}                 \* the upstream is connected
Held == Waiting \cup {"connecting"} \cup Upstream   \* a task, and so a permit
Over == {"dropped", "gone", "aborted"}

Counters == {"over_capacity", "rejected", "accepted", "without_request", "upstream_failures",
             "upstream_connections", "ended", "from_mixnet"}

In(set) == {s \in Streams : at[s] \in set}

Init ==
    /\ at = [s \in Streams |-> "unopened"]
    /\ header = [s \in Streams |-> "none"]
    /\ sent = [s \in Streams |-> 0]
    /\ read = [s \in Streams |-> 0]
    /\ permits = MaxStreams
    /\ main = "accepting"
    /\ counted = [counter \in Counters |-> 0]
    /\ in_flight = 0
    /\ transfer = [s \in Streams |-> 0]
    /\ carried = [s \in Streams |-> 0]
    /\ touched = {}
    /\ left = [s \in Streams |-> "none"]

Move(s, to) == at' = [at EXCEPT ![s] = to]

Raise(counter) == counted' = [counted EXCEPT ![counter] = @ + 1]

-----------------------------------------------------------------------------
(* The dialler. *)

(* A stream's Open reaches the listener. *)
Dial(s) ==
    /\ at[s] = "unopened"
    /\ Move(s, "queued")
    /\ UNCHANGED <<header, sent, read, permits, main, counted, in_flight, transfer, carried, touched, left>>

(* Its first bytes arrive: a header that asks for an echo or one that does  *)
(* not, or something no header of this build.                               *)
Introduce(s, what) ==
    /\ at[s] \notin {"unopened"} \cup Over
    /\ header[s] = "none"
    /\ header' = [header EXCEPT ![s] = what]
    /\ UNCHANGED <<at, sent, read, permits, main, counted, in_flight, transfer, carried, touched, left>>

(* A chunk of the wallet's bytes arrives behind the header. *)
Send(s) ==
    /\ at[s] \notin {"unopened"} \cup Over
    /\ header[s] \in {"probe", "announce"}
    /\ sent[s] < MaxChunks
    /\ MapThenSumSet(LAMBDA t : sent[t], Streams) < MaxSent
    /\ sent' = [sent EXCEPT ![s] = @ + 1]
    /\ UNCHANGED <<at, header, read, permits, main, counted, in_flight, transfer, carried, touched, left>>

-----------------------------------------------------------------------------
(* The main loop accepts. *)

\* A mutant: the permit does not outlive the arm that took it.
PermitDropped == permits

\* try_acquire_owned, the permit moving into the task.
PermitTaken == permits - 1

(* The accept arm with a permit to give. *)
Admit(s) ==
    /\ main = "accepting"
    /\ at[s] = "queued"
    /\ permits > 0
    /\ permits' = PermitTaken
    /\ Move(s, "handshaking")
    /\ UNCHANGED <<header, sent, read, main, counted, in_flight, transfer, carried, touched, left>>

(* The accept arm without one: the stream is dropped unread. *)
Refuse(s) ==
    /\ main = "accepting"
    /\ at[s] = "queued"
    /\ permits = 0
    /\ Move(s, "dropped")
    /\ Raise("over_capacity")
    /\ UNCHANGED <<header, sent, read, permits, main, in_flight, transfer, carried, touched, left>>

(* `serve` returns, dropping the stream and the permit. *)
Return(s) ==
    /\ Move(s, "gone")
    /\ permits' = permits + 1
    /\ left' = [left EXCEPT ![s] = at[s]]

-----------------------------------------------------------------------------
(* The handshake. *)

(* A header arrived, and it asks for an echo or the stream is accepted.     *)
ReadHeader(s) ==
    /\ at[s] = "handshaking"
    /\ \/ /\ header[s] = "probe"
          /\ Move(s, "echoing")
          /\ UNCHANGED counted
       \/ /\ header[s] = "announce"
          /\ Move(s, "awaiting")
          /\ Raise("accepted")
    /\ UNCHANGED <<header, sent, read, permits, main, in_flight, transfer, carried, touched, left>>

\* A mutant: a stream that was probed is accepted without being counted.
EchoUncounted(s) ==
    /\ at[s] = "echoing"
    /\ Move(s, "awaiting")
    /\ UNCHANGED <<header, sent, read, permits, main, counted, in_flight, transfer, carried, touched, left>>

(* The echo is written, and the stream accepted. *)
Echo(s) ==
    /\ at[s] = "echoing"
    /\ Move(s, "awaiting")
    /\ Raise("accepted")
    /\ UNCHANGED <<header, sent, read, permits, main, in_flight, transfer, carried, touched, left>>

(* The handshake fails: no header in time, one this build does not speak,   *)
(* or a stream that breaks while it is read from or echoed to.              *)
Reject(s) ==
    /\ \/ at[s] = "handshaking" /\ header[s] \in {"none", "foreign"}
       \/ at[s] = "echoing"
    /\ Return(s)
    /\ Raise("rejected")
    /\ UNCHANGED <<header, sent, read, main, in_flight, transfer, carried, touched>>

-----------------------------------------------------------------------------
(* The request and the upstream. *)

\* A mutant: the upstream is connected as soon as the stream is accepted.
Accepted(s) == at[s] = "awaiting"

\* The first read returned bytes.
Requested(s) == at[s] = "awaiting" /\ read[s] < sent[s]

(* The first request is read, and the upstream is dialled. *)
ReadRequest(s) ==
    /\ Requested(s)
    /\ read' = [read EXCEPT ![s] = @ + 1]
    /\ Move(s, "connecting")
    /\ UNCHANGED <<header, sent, permits, main, counted, in_flight, transfer, carried, touched, left>>

\* A mutant: the wait for a request has no deadline, and the transport never says a stream closed.
NeverGivenUp(s) == FALSE

\* The deadline passed, or the stream ended or broke, with nothing to read.
GivenUp(s) == at[s] = "awaiting" /\ read[s] = sent[s]

(* The stream is let go without a request. *)
NoRequest(s) ==
    /\ GivenUp(s)
    /\ Return(s)
    /\ Raise("without_request")
    /\ UNCHANGED <<header, sent, read, main, in_flight, transfer, carried, touched>>

(* TcpStream::connect fails. *)
Unreachable(s) ==
    /\ at[s] = "connecting"
    /\ Return(s)
    /\ Raise("upstream_failures")
    /\ UNCHANGED <<header, sent, read, main, in_flight, transfer, carried, touched>>

(* It succeeds, and the in-flight guard is taken. *)
Connect(s) ==
    /\ at[s] = "connecting"
    /\ Move(s, "opening")
    /\ Raise("upstream_connections")
    /\ in_flight' = in_flight + 1
    /\ touched' = touched \cup {s}
    /\ UNCHANGED <<header, sent, read, permits, main, transfer, carried, left>>

(* The request is written upstream, and the splice begins. *)
WriteOpening(s) ==
    /\ at[s] = "opening"
    /\ Move(s, "splicing")
    /\ carried' = [carried EXCEPT ![s] = @ + 1]
    /\ UNCHANGED <<header, sent, read, permits, main, counted, in_flight, transfer, touched, left>>

(* Writing it fails: the stream and the guard are dropped, nothing counted. *)
OpeningFails(s) ==
    /\ at[s] = "opening"
    /\ Return(s)
    /\ in_flight' = in_flight - 1
    /\ UNCHANGED <<header, sent, read, main, counted, transfer, carried, touched>>

(* The splice carries a chunk to the upstream. *)
Carry(s) ==
    /\ at[s] = "splicing"
    /\ read[s] < sent[s]
    /\ read' = [read EXCEPT ![s] = @ + 1]
    /\ transfer' = [transfer EXCEPT ![s] = @ + 1]
    /\ carried' = [carried EXCEPT ![s] = @ + 1]
    /\ UNCHANGED <<at, header, sent, permits, main, counted, in_flight, touched, left>>

\* A mutant: the guard is leaked with the splice's outcome.
GuardKept == in_flight

GuardDropped == in_flight - 1

(* The splice ends, and what it carried is counted. *)
Finish(s) ==
    /\ at[s] = "splicing"
    /\ Return(s)
    /\ counted' = [counted EXCEPT !["ended"] = @ + 1, !["from_mixnet"] = @ + transfer[s]]
    /\ in_flight' = GuardDropped
    /\ UNCHANGED <<header, sent, read, main, transfer, carried, touched>>

-----------------------------------------------------------------------------
(* Shutdown. *)

(* A signal, or the mixnet listener closing. *)
Shutdown ==
    /\ main = "accepting"
    /\ main' = "draining"
    /\ UNCHANGED <<at, header, sent, read, permits, counted, in_flight, transfer, carried, touched, left>>

(* The grace runs out before the last stream has finished. *)
GraceRunsOut ==
    /\ main = "draining"
    /\ In(Held) # {}
    /\ main' = "overdue"
    /\ UNCHANGED <<at, header, sent, read, permits, counted, in_flight, transfer, carried, touched, left>>

\* Every stream finished, or the timeout around waiting for them elapsed.
Drained ==
    \/ main = "draining" /\ In(Held) = {}
    \/ main = "overdue"

(* The drain ends and the tasks left are aborted with the set that held     *)
(* them; each drops its stream, its permit and its guard.                   *)
Stop ==
    /\ Drained
    /\ main' = "stopped"
    /\ at' = [s \in Streams |-> IF at[s] \in Held THEN "aborted" ELSE at[s]]
    /\ permits' = permits + Cardinality(In(Held))
    /\ in_flight' = in_flight - Cardinality(In(Upstream))
    /\ left' = [s \in Streams |-> IF at[s] \in Held THEN at[s] ELSE left[s]]
    /\ UNCHANGED <<header, sent, read, counted, transfer, carried, touched>>

Serving(s) ==
    \/ ReadHeader(s) \/ Echo(s) \/ Reject(s)
    \/ ReadRequest(s) \/ NoRequest(s)
    \/ Unreachable(s) \/ Connect(s) \/ WriteOpening(s) \/ OpeningFails(s)
    \/ Carry(s) \/ Finish(s)

Next ==
    \/ \E s \in Streams :
          \/ Dial(s) \/ Send(s) \/ \E what \in {"probe", "announce", "foreign"} : Introduce(s, what)
          \/ Admit(s) \/ Refuse(s)
          \/ Serving(s)
    \/ Shutdown
    \/ GraceRunsOut
    \/ Stop

Spec == Init /\ [][Next]_vars

(* The handshake and first-request deadlines pass, the echo, which only     *)
(* queues a message, is written, and the main loop takes what it is handed. *)
(* Nothing is promised of the upstream, which has no deadline on connecting *)
(* or being written to, or of a splice, which may carry on for ever.        *)
DeadlinesPass ==
    \A s \in Streams :
        /\ WF_vars(Admit(s) \/ Refuse(s))
        /\ WF_vars(ReadHeader(s) \/ Echo(s) \/ Reject(s) \/ ReadRequest(s) \/ NoRequest(s))

FairSpec == Spec /\ DeadlinesPass

-----------------------------------------------------------------------------
(* Properties *)

\* Every variable stays within its type: no more permits than there are, no chunk read that was not
\* sent.
TypeOK ==
    /\ at \in [Streams -> {"unopened", "queued"} \cup Held \cup Over]
    /\ header \in [Streams -> {"none", "probe", "announce", "foreign"}]
    /\ sent \in [Streams -> 0..MaxChunks]
    /\ read \in [Streams -> 0..MaxChunks]
    /\ permits \in 0..MaxStreams
    /\ main \in {"accepting", "draining", "overdue", "stopped"}
    /\ counted \in [Counters -> Nat]
    /\ in_flight \in Int
    /\ transfer \in [Streams -> 0..MaxChunks]
    /\ carried \in [Streams -> 0..MaxChunks]
    /\ touched \in SUBSET Streams
    /\ left \in [Streams -> Held \cup {"none"}]

\* The cap is the only control this half has: however streams arrive, end, fail or are aborted, every
\* one that is held has a permit and no permit is lost, so at most MaxStreams are held at once.
CapacityIsKept == permits + Cardinality(In(Held)) = MaxStreams

\* The gauge is the streams connected to the upstream, on every path out of `serve`.
GaugeIsHonest == in_flight = Cardinality(In(Upstream))

\* The upstream is never touched for a stream that was only probed, for a sibling the dialler did not
\* keep or for a stranger: every stream it was connected for introduced itself and carried a request,
\* and what was written to it is what that stream carried, in no more chunks than it sent.
UpstreamOnlyForRequests ==
    /\ \A s \in touched : header[s] \in {"probe", "announce"} /\ sent[s] > 0
    /\ \A s \in Streams : carried[s] <= read[s] /\ read[s] <= sent[s] /\ (carried[s] > 0 => s \in touched)

Aborted(stages) == Cardinality({s \in In({"aborted"}) : left[s] \in stages})

\* Every stream the listener was handed is in exactly one count, still held, or was aborted: the
\* counters of each stage add up to those of the stage before, whatever the others do meanwhile.
\* Only a stream whose first request could not be written leaves the last stage uncounted.
CountersAddUp ==
    /\ counted.over_capacity + counted.rejected + counted.accepted
           + Cardinality(In({"handshaking", "echoing"})) + Aborted({"handshaking", "echoing"})
         = Cardinality(Streams \ In({"unopened", "queued"}))
    /\ counted.without_request + counted.upstream_failures + counted.upstream_connections
           + Cardinality(In({"awaiting", "connecting"})) + Aborted({"awaiting", "connecting"})
         = counted.accepted
    /\ counted.ended + in_flight + Aborted(Upstream)
           + Cardinality({s \in In({"gone"}) : left[s] = "opening"})
         = counted.upstream_connections

\* A permit is never lost to a stream that says nothing: one that has not carried a request leaves
\* the handshake and the wait for a request, whatever the upstream and the other streams do.
SilentStreamsAreLetGo == \A s \in Streams : at[s] \in Waiting ~> at[s] \notin Waiting

-----------------------------------------------------------------------------
(* What a comment promises and the code does not keep. *)

\* metrics.rs:27: "Bytes carried, per direction, for either half."  When every stream that was
\* connected to the upstream has been spliced to its end, what was counted from the mixnet is what
\* was carried from it.
BytesAreWhatWasCarried ==
    counted.ended = Cardinality(touched) =>
        counted.from_mixnet = MapThenSumSet(LAMBDA s : carried[s], Streams)

=============================================================================
