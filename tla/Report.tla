------------------------------- MODULE Report -------------------------------
(***************************************************************************)
(* What the client half promises to say about its dials: one dial at a     *)
(* time, the number of dials in a row that ended with nothing, whether     *)
(* that makes it degraded, and whether the local client is to be given up  *)
(* on.  Module Streaks is the code that keeps it.                          *)
(***************************************************************************)
EXTENDS Integers

CONSTANTS
    RefusalLimit,   \* REFUSAL_LIMIT
    DeadEndLimit    \* DEAD_END_LIMIT

Outcomes == {"Answered", "Unprobed", "NothingOpened", "NothingAnswered"}

DeadEnds == {"NothingOpened", "NothingAnswered"}

VARIABLES
    failed,     \* dials in a row that ended with nothing
    refused,    \* dials in a row the local client refused outright
    degraded,   \* what the health flag says
    dead        \* the main loop has been told to give up on the local client

report == <<failed, refused, degraded, dead>>

Init == failed = 0 /\ refused = 0 /\ degraded = FALSE /\ dead = FALSE

Fold(o) ==
    /\ failed' = CASE o \in DeadEnds -> failed + 1
                   [] o = "Answered" -> 0
                   [] o = "Unprobed" -> failed
    /\ refused' = IF o = "NothingOpened" THEN refused + 1 ELSE 0
    /\ degraded' = (failed' >= DeadEndLimit)
    /\ dead' = (dead \/ refused' >= RefusalLimit)

Next == \E o \in Outcomes : Fold(o)

Spec == Init /\ [][Next]_report

=============================================================================
