------------------------------- MODULE Conduit ------------------------------
(***************************************************************************)
(* What the two halves together promise one wallet connection: an ordinary *)
(* connection to the upstream, which may end at any moment and loses what  *)
(* was under way, but never repeats, reorders or leaves out anything       *)
(* before what it delivered, in either direction.  Module Tunnel is how    *)
(* it is kept over a mixnet that promises less.                            *)
(***************************************************************************)
EXTENDS Integers, Sequences

CONSTANTS
    AnswerLen   \* the chunks the upstream answers each request with

VARIABLES
    asked,      \* the requests the wallet wrote, which are 1, 2, ... asked
    through,    \* the requests that reached the upstream, in the order they did
    answered,   \* the chunks the upstream answered with, which are 1, 2, ... answered
    got,        \* the chunks that reached the wallet, in the order they did
    open        \* the wallet's socket is open

conduit == <<asked, through, answered, got, open>>

Init == asked = 0 /\ through = <<>> /\ answered = 0 /\ got = <<>> /\ open = TRUE

Ask == open /\ asked' = asked + 1 /\ UNCHANGED <<through, answered, got, open>>

Deliver ==
    /\ Len(through) < asked
    /\ through' = Append(through, Len(through) + 1)
    /\ UNCHANGED <<asked, answered, got, open>>

Answer ==
    /\ answered < AnswerLen * Len(through)
    /\ answered' = answered + 1
    /\ UNCHANGED <<asked, through, got, open>>

Return ==
    /\ open
    /\ Len(got) < answered
    /\ got' = Append(got, Len(got) + 1)
    /\ UNCHANGED <<asked, through, answered, open>>

Close == open /\ open' = FALSE /\ UNCHANGED <<asked, through, answered, got>>

Next == Ask \/ Deliver \/ Answer \/ Return \/ Close

Spec == Init /\ [][Next]_conduit

=============================================================================
