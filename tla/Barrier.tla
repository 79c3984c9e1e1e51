------------------------------- MODULE Barrier -------------------------------
(***************************************************************************)
(* class Barrier of src/mutex.h: the barrier at which the threads of one   *)
(* DoNIterations call meet before the timed loop and after it.             *)
(*                                                                         *)
(* All of the barrier's state is guarded by lock_, so one critical section *)
(* is one action. A critical section ends where lock_ is given up: at the  *)
(* condition wait, or before notify_all in wait(). at[t] says where thread *)
(* t is:                                                                   *)
(*   outside    not in a call of this class                                *)
(*   asleep     parked on phase_condition_                                 *)
(*   awake      woken, wants lock_ to test the predicate again             *)
(*   notifying  createBarrier returned true, lock_ released, notify_all    *)
(*              still to be called                                         *)
(*   gone       has called removeThread()                                  *)
(***************************************************************************)
EXTENDS Integers, FiniteSets

CONSTANTS
  Threads,    \* the threads of one DoNIterations call
  MaxPhase    \* bound: no thread enters once phase_number_ is MaxPhase

ASSUME ThreadsAssumption == IsFiniteSet(Threads) /\ Threads # {}
ASSUME MaxPhaseAssumption == MaxPhase \in Nat

VARIABLES running_threads_, phase_number_, entered_, at, phase_number_cp

counters == <<running_threads_, phase_number_, entered_>>
vars == <<running_threads_, phase_number_, entered_, at, phase_number_cp>>

Places == {"outside", "asleep", "awake", "notifying", "gone"}

Waiting(t) == at[t] \in {"asleep", "awake"}

Init ==
  /\ running_threads_ = Cardinality(Threads)
  /\ phase_number_ = 0
  /\ entered_ = 0
  /\ at = [t \in Threads |-> "outside"]
  /\ phase_number_cp = [t \in Threads |-> 0]

Woken(places) ==
  [t \in Threads |-> IF places[t] = "asleep" THEN "awake" ELSE places[t]]

-----------------------------------------------------------------------------
(* wait(): the critical section of createBarrier up to its condition wait. *)

MayEnter(t) == at[t] = "outside" /\ phase_number_ < MaxPhase

EnterAndWait(t) ==
  /\ MayEnter(t)
  /\ entered_ + 1 < running_threads_
  /\ entered_' = entered_ + 1
  /\ phase_number_cp' = [phase_number_cp EXCEPT ![t] = phase_number_]
  /\ at' = [at EXCEPT ![t] = "asleep"]
  /\ UNCHANGED <<running_threads_, phase_number_>>

\* Bug variant: entered_ keeps the count of the finished phase.
StartNextPhaseKeepingEntered(t) ==
  /\ phase_number_' = phase_number_ + 1
  /\ entered_' = entered_ + 1
  /\ at' = [at EXCEPT ![t] = "notifying"]
  /\ UNCHANGED <<running_threads_, phase_number_cp>>

\* The tail of createBarrier, for the thread that is the last one.
StartNextPhase(t) ==
  /\ phase_number_' = phase_number_ + 1
  /\ entered_' = 0
  /\ at' = [at EXCEPT ![t] = "notifying"]
  /\ UNCHANGED <<running_threads_, phase_number_cp>>

EnterAsLast(t) ==
  /\ MayEnter(t)
  /\ entered_ + 1 >= running_threads_
  /\ StartNextPhase(t)

\* Bug variant: notify_one where notify_all is needed.
NotifyOneAndReturn(t) ==
  /\ at[t] = "notifying"
  /\ \/ \E u \in Threads : /\ at[u] = "asleep"
                           /\ at' = [at EXCEPT ![t] = "outside", ![u] = "awake"]
     \/ /\ \A u \in Threads : at[u] # "asleep"
        /\ at' = [at EXCEPT ![t] = "outside"]
  /\ UNCHANGED <<counters, phase_number_cp>>

\* The last thread, past lock_, calls notify_all and returns true.
NotifyAndReturn(t) ==
  /\ at[t] = "notifying"
  /\ at' = Woken([at EXCEPT ![t] = "outside"])
  /\ UNCHANGED <<counters, phase_number_cp>>

-----------------------------------------------------------------------------
(* wait(): a thread parked on phase_condition_.                            *)

\* std::condition_variable may wake a waiter that nobody notified.
SpuriousWakeup(t) ==
  /\ at[t] = "asleep"
  /\ at' = [at EXCEPT ![t] = "awake"]
  /\ UNCHANGED <<counters, phase_number_cp>>

PhasePassed(t) == phase_number_ > phase_number_cp[t]

SleepAgain(t) ==
  /\ at[t] = "awake"
  /\ ~PhasePassed(t)
  /\ entered_ # running_threads_
  /\ at' = [at EXCEPT ![t] = "asleep"]
  /\ UNCHANGED <<counters, phase_number_cp>>

\* Bug variant: the re-check of the phase number is dropped.
ReturnWithoutCheck(t) ==
  /\ at[t] = "awake"
  /\ at' = [at EXCEPT ![t] = "outside"]
  /\ UNCHANGED <<counters, phase_number_cp>>

ReturnReleased(t) ==
  /\ at[t] = "awake"
  /\ PhasePassed(t)
  /\ at' = [at EXCEPT ![t] = "outside"]
  /\ UNCHANGED <<counters, phase_number_cp>>

\* Every thread that has not entered has been removed: this waiter is the last.
TakeOver(t) ==
  /\ at[t] = "awake"
  /\ ~PhasePassed(t)
  /\ entered_ = running_threads_
  /\ StartNextPhase(t)

-----------------------------------------------------------------------------
(* removeThread(): its notify_all is inside the critical section.          *)

\* Bug variant: the waiters are not told that there is nobody left to wait for.
RemoveThreadSilently(t) ==
  /\ at[t] = "outside"
  /\ running_threads_' = running_threads_ - 1
  /\ at' = [at EXCEPT ![t] = "gone"]
  /\ UNCHANGED <<phase_number_, entered_, phase_number_cp>>

\* Bug variant: a thread that has been removed may be removed again.
RemoveThreadTwice(t) ==
  /\ at[t] \in {"outside", "gone"}
  /\ running_threads_' = running_threads_ - 1
  /\ at' = [at EXCEPT ![t] = "gone"]
  /\ UNCHANGED <<phase_number_, entered_, phase_number_cp>>

RemoveThread(t) ==
  /\ at[t] = "outside"
  /\ running_threads_' = running_threads_ - 1
  /\ at' = LET places == [at EXCEPT ![t] = "gone"]
           IN  IF entered_ # 0 THEN Woken(places) ELSE places
  /\ UNCHANGED <<phase_number_, entered_, phase_number_cp>>

-----------------------------------------------------------------------------
Call(t) == EnterAndWait(t) \/ EnterAsLast(t) \/ RemoveThread(t)

Resume(t) == ReturnReleased(t) \/ TakeOver(t)

Step(t) ==
  \/ Call(t)
  \/ NotifyAndReturn(t)
  \/ SpuriousWakeup(t)
  \/ SleepAgain(t)
  \/ Resume(t)

Next == \E t \in Threads : Step(t)

Spec == Init /\ [][Next]_vars

\* A thread of the runner does not stay outside for ever: it either comes to the
\* barrier or reports completion (RunInThread calls NotifyThreadComplete on every
\* path). Nothing forces a spurious wakeup.
Fairness ==
  \A t \in Threads :
    /\ WF_vars(Call(t))
    /\ WF_vars(NotifyAndReturn(t))
    /\ WF_vars(Resume(t))

FairSpec == Spec /\ Fairness

-----------------------------------------------------------------------------
\* Type invariant of the barrier's fields and of the threads' positions.
TypeOK ==
  /\ running_threads_ \in Nat
  /\ phase_number_ \in Nat
  /\ entered_ \in Nat
  /\ at \in [Threads -> Places]
  /\ phase_number_cp \in [Threads -> Nat]

\* The waiters of the phase that is still open.
Entered == {t \in Threads : Waiting(t) /\ ~PhasePassed(t)}

NotGone == {t \in Threads : at[t] # "gone"}

\* The two counters count what they are for: running_threads_ the threads that
\* have not been removed and entered_ the waiters of the open phase only, so that
\* a thread released earlier but not scheduled yet is in the first, not the second.
CountersExact ==
  /\ running_threads_ = Cardinality(NotGone)
  /\ entered_ = Cardinality(Entered)

\* BM_CHECK_LT(entered_, running_threads_) of createBarrier holds for every thread
\* that may call wait() next, however removals and releases interleave with it.
EntryCheckHolds ==
  \A t \in Threads : at[t] = "outside" => entered_ < running_threads_

\* No wakeup is lost: a thread asleep in a passed phase has its notify_all still to
\* come, and when nobody is left to wait for, one of the waiters is awake.
NoLostWakeup ==
  /\ (\E t \in Threads : at[t] = "asleep" /\ PhasePassed(t))
        => \E t \in Threads : at[t] = "notifying"
  /\ (entered_ # 0 /\ entered_ = running_threads_)
        => \E t \in Threads : at[t] = "awake"

\* Every call of wait() returns, whatever the other threads do, as long as each of
\* them comes to the barrier too or is removed.
EveryWaitReturns == \A t \in Threads : Waiting(t) ~> at[t] = "outside"

-----------------------------------------------------------------------------
\* The barrier implements the abstract one: rounds of sets of threads.
LastThreads == {t \in Threads : at[t] = "notifying"}

Released ==
  {t \in Threads : at[t] = "notifying" \/ (Waiting(t) /\ PhasePassed(t))}

Gone == {t \in Threads : at[t] = "gone"}

Abs == INSTANCE AbstractBarrier WITH
  arrived <- Entered, released <- Released, last <- LastThreads, removed <- Gone

\* Nobody leaves the barrier before every running thread has reached it or has been
\* removed, and one thread of each round learns that it was the last.
RefinesRounds == Abs!Spec

\* A round that has become complete is let go, and every released thread returns,
\* whether the last thread arrived, or the missing ones were removed.
RoundsComplete == Abs!Fairness
=============================================================================
