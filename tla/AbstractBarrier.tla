--------------------------- MODULE AbstractBarrier ---------------------------
(***************************************************************************)
(* What the start/stop barrier of a threaded benchmark promises, with no   *)
(* counter, no phase number and no condition variable: the sets of threads *)
(* that have arrived in this round, that have been let go, and that have   *)
(* left the benchmark for good.                                            *)
(***************************************************************************)
EXTENDS FiniteSets

CONSTANT Threads

VARIABLES
  arrived,    \* threads blocked in the current round
  released,   \* threads whose round is complete and that have not returned yet
  last,       \* the released thread that will be told it was the last one
  removed     \* threads that will never come back

absVars == <<arrived, released, last, removed>>

Running == Threads \ removed

Outside == Running \ (arrived \cup released)

Init ==
  /\ arrived = {}
  /\ released = {}
  /\ last = {}
  /\ removed = {}

Arrive(t) ==
  /\ t \in Outside
  /\ arrived \cup {t} # Running
  /\ arrived' = arrived \cup {t}
  /\ UNCHANGED <<released, last, removed>>

\* The round is complete only when every running thread is in it; t is the one
\* thread of the round that learns that it was the last.
CompleteRound(t) ==
  /\ arrived \cup {t} = Running
  /\ arrived' = {}
  /\ released' = Running
  /\ last' = {t}
  /\ UNCHANGED removed

ArriveLast(t) == t \in Outside /\ CompleteRound(t)

\* The others have given up: a thread that is already inside completes the round.
TakeOver(t) == t \in arrived /\ CompleteRound(t)

Return(t) ==
  /\ t \in released
  /\ released' = released \ {t}
  /\ last' = last \ {t}
  /\ UNCHANGED <<arrived, removed>>

Remove(t) ==
  /\ t \in Outside
  /\ removed' = removed \cup {t}
  /\ UNCHANGED <<arrived, released, last>>

Next ==
  \E t \in Threads :
    Arrive(t) \/ ArriveLast(t) \/ TakeOver(t) \/ Return(t) \/ Remove(t)

Spec == Init /\ [][Next]_absVars

\* A round in which everybody still running is inside completes, and a released
\* thread gets back to its caller.
Fairness ==
  /\ WF_absVars(\E t \in Threads : TakeOver(t))
  /\ \A t \in Threads : WF_absVars(Return(t))
=============================================================================
