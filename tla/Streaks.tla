------------------------------- MODULE Streaks ------------------------------
(***************************************************************************)
(* The dial streaks of the client half (src/src/streaks.rs), with the      *)
(* gauge, the health flag and the notification they are published through, *)
(* and the main loop that exits on the last (src/src/bin/client.rs).       *)
(*                                                                         *)
(* Connections resolve their dials on any thread.  `fold` does everything  *)
(* under one lock but publishes in three writes, and whoever scrapes       *)
(* /metrics or /health takes no lock, so each write is a step of its own.  *)
(* A poisoned lock is taken all the same: a fold has nothing to panic on   *)
(* between its writes, and none is modelled.                               *)
(***************************************************************************)
EXTENDS Integers, Sequences, FiniteSets

CONSTANTS
    Tasks,          \* the tasks that fold; one carries many connections in turn
    RefusalLimit,   \* REFUSAL_LIMIT
    DeadEndLimit,   \* DEAD_END_LIMIT
    MaxFolds        \* bound: the dials that resolve in a behaviour

ASSUME StreakAssumption ==
    /\ RefusalLimit \in Nat \ {0}
    /\ DeadEndLimit \in Nat \ {0}
    /\ MaxFolds \in Nat

Outcomes == {"Answered", "Unprobed", "NothingOpened", "NothingAnswered"}

DeadEnds == {"NothingOpened", "NothingAnswered"}

Nobody == "nobody"

ASSUME TaskAssumption == Nobody \notin Tasks

VARIABLES
    lock,       \* who holds the counts, or Nobody
    step,       \* step[t]: the write task t makes next, or "idle"
    refusals,   \* Counts.refusals
    dead_ends,  \* Counts.dead_ends
    gauge,      \* connections_failed_in_a_row
    degraded,   \* Health.degraded
    permit,     \* client_is_dead has been notified and nobody has noticed
    main,       \* the main loop: serving, or exiting because the client is dead
    log,        \* history: the outcomes folded, in order
    settled     \* history: what was published when the lock was last released

vars == <<lock, step, refusals, dead_ends, gauge, degraded, permit, main, log, settled>>

Init ==
    /\ lock = Nobody
    /\ step = [t \in Tasks |-> "idle"]
    /\ refusals = 0
    /\ dead_ends = 0
    /\ gauge = 0
    /\ degraded = FALSE
    /\ permit = FALSE
    /\ main = "serving"
    /\ log = <<>>
    /\ settled = [failed |-> 0, refused |-> 0, degraded |-> FALSE, dead |-> FALSE]

\* A mutant: the counts are kept without a lock.
NoLock(t) == TRUE

LockFree(t) == lock = Nobody

\* A mutant: a dial whose streams opened leaves the refusal run alone.
RefusalsUnlessAnswered(o) ==
    CASE o = "NothingOpened" -> refusals + 1
      [] o \in {"Answered", "Unprobed"} -> 0
      [] o = "NothingAnswered" -> refusals

RefusalsAfter(o) == IF o = "NothingOpened" THEN refusals + 1 ELSE 0

DeadEndsAfter(o) ==
    CASE o \in DeadEnds -> dead_ends + 1
      [] o = "Answered" -> 0
      [] o = "Unprobed" -> dead_ends

(* fold takes the lock and counts the outcome. *)
Count(t, o) ==
    /\ step[t] = "idle"
    /\ LockFree(t)
    /\ Len(log) < MaxFolds
    /\ lock' = t
    /\ step' = [step EXCEPT ![t] = "gauge"]
    /\ refusals' = RefusalsAfter(o)
    /\ dead_ends' = DeadEndsAfter(o)
    /\ log' = Append(log, o)
    /\ UNCHANGED <<gauge, degraded, permit, main, settled>>

SetGauge(t) ==
    /\ step[t] = "gauge"
    /\ gauge' = dead_ends
    /\ step' = [step EXCEPT ![t] = "flag"]
    /\ UNCHANGED <<lock, refusals, dead_ends, degraded, permit, main, log, settled>>

\* A mutant: the flag is raised and never lowered.
StaysDegraded == degraded \/ dead_ends >= DeadEndLimit

Degraded == dead_ends >= DeadEndLimit

(* The flag is stored when it differs from what it was. *)
SetFlag(t) ==
    /\ step[t] = "flag"
    /\ degraded' = Degraded
    /\ step' = [step EXCEPT ![t] = "notify"]
    /\ UNCHANGED <<lock, refusals, dead_ends, gauge, permit, main, log, settled>>

\* A mutant: one refusal more than the limit is waited for.
PastTheLimit == refusals > RefusalLimit

ClientIsDead == refusals >= RefusalLimit

(* The main loop is notified if need be, and the lock is released. *)
Notify(t) ==
    /\ step[t] = "notify"
    /\ permit' = (permit \/ ClientIsDead)
    /\ lock' = Nobody
    /\ step' = [step EXCEPT ![t] = "idle"]
    /\ settled' = [failed |-> gauge, refused |-> refusals, degraded |-> degraded,
                   dead |-> permit' \/ main = "exiting"]
    /\ UNCHANGED <<refusals, dead_ends, gauge, degraded, main, log>>

(* The main loop notices, and gives the local client up.  Nothing takes the *)
(* notification back in between.                                            *)
Exit ==
    /\ main = "serving"
    /\ permit
    /\ permit' = FALSE
    /\ main' = "exiting"
    /\ UNCHANGED <<lock, step, refusals, dead_ends, gauge, degraded, log, settled>>

Publish(t) == SetGauge(t) \/ SetFlag(t) \/ Notify(t)

Next ==
    \/ \E t \in Tasks : Publish(t) \/ \E o \in Outcomes : Count(t, o)
    \/ Exit

Spec == Init /\ [][Next]_vars

(* A fold never awaits, so a thread that began one finishes it; the main    *)
(* loop is polled once it is woken.                                         *)
FairSpec == Spec /\ (\A t \in Tasks : WF_vars(Publish(t))) /\ WF_vars(Exit)

-----------------------------------------------------------------------------
(* Properties *)

Types ==
    /\ lock \in Tasks \cup {Nobody}
    /\ step \in [Tasks -> {"idle", "gauge", "flag", "notify"}]
    /\ refusals \in Nat /\ dead_ends \in Nat /\ gauge \in Nat
    /\ degraded \in BOOLEAN /\ permit \in BOOLEAN
    /\ main \in {"serving", "exiting"}
    /\ log \in Seq(Outcomes)
    /\ settled \in [failed : Nat, refused : Nat, degraded : BOOLEAN, dead : BOOLEAN]

\* Only the task that holds the lock is inside fold, and it is inside while it holds it.
LockInv ==
    /\ \A t \in Tasks : step[t] # "idle" => lock = t
    /\ lock # Nobody => step[lock] # "idle"

\* Every variable stays within its type, and at most one task is ever inside fold: the one that holds
\* the lock.
TypeOK == Types /\ LockInv

\* "Once a fold returns, the number reported and the flag reported describe the same moment": while
\* nobody is folding, the gauge is the run of dead ends and the flag says whether it is too long.
EveryFoldLeavesThemAgreeing ==
    lock = Nobody =>
        /\ gauge = dead_ends
        /\ degraded = (gauge >= DeadEndLimit)

Folds == DOMAIN log

\* Dials i - n + 1 to i were all refused by the local client.
RefusedRun(i, n) == \A j \in 1..n : i - j + 1 \in Folds /\ log[i - j + 1] = "NothingOpened"

\* The process ends itself only for a dead local client: RefusalLimit dials in a row opened nothing.
\* A far side or a transport that answers nothing never ends it.
ExitIsEarned ==
    permit \/ main = "exiting" => \E i \in Folds : RefusedRun(i, RefusalLimit)

\* And it never carries on with one: once such a run has been folded, the main loop has been told.
DeadClientIsReported ==
    lock = Nobody /\ (\E i \in Folds : RefusedRun(i, RefusalLimit)) =>
        permit \/ main = "exiting"

\* What is told is acted on, even when dials have worked again meanwhile.
DeadClientEndsTheProcess ==
    (\E i \in Folds : RefusedRun(i, RefusalLimit)) ~> main = "exiting"

Atomic == INSTANCE Report WITH
    failed <- settled.failed, refused <- settled.refused,
    degraded <- settled.degraded, dead <- settled.dead

\* Concurrent folds publish what folding the same dials one at a time would: every release of the
\* lock moves the whole report by one outcome, and nothing else moves it.
FoldsAreAtomic == Atomic!Spec

=============================================================================
