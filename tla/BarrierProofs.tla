---------------------------- MODULE BarrierProofs ----------------------------
(***************************************************************************)
(* Proofs about Barrier for every finite set of threads and every bound on *)
(* the phases. The argument is one of counting: entered_ and               *)
(* running_threads_ are the cardinalities of two sets, the first included  *)
(* in the second, so that their equality means the sets are equal.         *)
(***************************************************************************)
EXTENDS Barrier, FiniteSetTheorems, TLAPS

\* A waiter is at most one phase behind: the phase it waits for cannot be passed
\* twice before it has returned.
PhaseLag ==
  \A t \in Threads :
    Waiting(t) => phase_number_ \in {phase_number_cp[t], phase_number_cp[t] + 1}

\* At most one thread is between its createBarrier and its notify_all.
OneNotifier ==
  \A t, u \in Threads : at[t] = "notifying" /\ at[u] = "notifying" => t = u

\* The inductive invariant.
BInv ==
  /\ TypeOK
  /\ CountersExact
  /\ PhaseLag
  /\ OneNotifier

-----------------------------------------------------------------------------
\* The two sets that are counted are finite, and one includes the other.
LEMMA SetsFinite ==
  ASSUME TypeOK
  PROVE  /\ IsFiniteSet(Entered) /\ IsFiniteSet(NotGone)
         /\ Cardinality(Entered) \in Nat /\ Cardinality(NotGone) \in Nat
         /\ Entered \subseteq NotGone
<1>1. Entered \subseteq Threads /\ NotGone \subseteq Threads
  BY DEF Entered, NotGone
<1>2. IsFiniteSet(Entered) /\ IsFiniteSet(NotGone)
  BY <1>1, FS_Subset, ThreadsAssumption
<1>3. Entered \subseteq NotGone
  BY DEF Entered, NotGone, Waiting
<1> QED
  BY <1>2, <1>3, FS_CardinalityType

\* entered_ stays below running_threads_ as long as some running thread is not a
\* waiter of the open phase.
LEMMA SomeoneMissing ==
  ASSUME TypeOK, CountersExact, NEW t \in NotGone, t \notin Entered
  PROVE  entered_ < running_threads_
<1>1. Cardinality(Entered) <= Cardinality(NotGone)
  BY SetsFinite, FS_Subset
<1>2. Cardinality(Entered) # Cardinality(NotGone)
  BY SetsFinite, FS_Subset
<1> QED
  BY <1>1, <1>2, SetsFinite DEF CountersExact

\* When the counters say that t is the last one, every other running thread is a
\* waiter of the open phase.
LEMMA AllInside ==
  ASSUME TypeOK, CountersExact, NEW t \in Threads,
         \/ at[t] = "outside" /\ entered_ + 1 >= running_threads_
         \/ t \in Entered /\ entered_ = running_threads_
  PROVE  NotGone = Entered \cup {t}
<1>1. IsFiniteSet(Entered \cup {t})
      /\ Cardinality(Entered \cup {t}) =
           IF t \in Entered THEN Cardinality(Entered) ELSE Cardinality(Entered) + 1
  BY SetsFinite, FS_AddElement
<1>2. Entered \cup {t} \subseteq NotGone
  BY SetsFinite DEF NotGone, Entered, Waiting
<1>3. Cardinality(Entered \cup {t}) <= Cardinality(NotGone)
  BY <1>2, SetsFinite, FS_Subset
<1>4. at[t] = "outside" => t \notin Entered
  BY DEF Entered, Waiting
<1>5. Cardinality(Entered \cup {t}) = Cardinality(NotGone)
  BY <1>1, <1>3, <1>4, SetsFinite DEF CountersExact
<1> QED
  BY <1>2, <1>5, SetsFinite, FS_Subset

\* What the step of the last thread needs and what it leaves behind.
LEMMA NextPhase ==
  ASSUME BInv, NEW t \in Threads, StartNextPhase(t),
         NotGone = Entered \cup {t}
  PROVE  BInv'
<1> USE DEF BInv
<1>1. TypeOK'
  BY DEF TypeOK, StartNextPhase, Places
<1>2. \A u \in Threads : Waiting(u)' => u \in Entered
  BY DEF TypeOK, StartNextPhase, Waiting, NotGone
<1>3. \A u \in Threads : Waiting(u)' => PhasePassed(u)'
  <2> SUFFICES ASSUME NEW u \in Threads, Waiting(u)'
               PROVE  PhasePassed(u)'
    OBVIOUS
  <2>1. u \in Entered
    BY <1>2
  <2>2. phase_number_ \in {phase_number_cp[u], phase_number_cp[u] + 1}
        /\ phase_number_cp[u] \in Nat
    BY <2>1 DEF Entered, PhaseLag, TypeOK
  <2> QED
    BY <2>2 DEF StartNextPhase, PhasePassed, TypeOK
<1>4. Entered' = {}
  BY <1>3 DEF Entered
<1>5. NotGone' = NotGone
  BY DEF TypeOK, StartNextPhase, NotGone, Entered, Waiting
<1>6. CountersExact'
  BY <1>4, <1>5, FS_EmptySet DEF CountersExact, StartNextPhase
<1>7. PhaseLag'
  <2> SUFFICES ASSUME NEW u \in Threads, Waiting(u)'
               PROVE  phase_number_' = phase_number_cp'[u] + 1
    BY DEF PhaseLag
  <2>1. u \in Entered
    BY <1>2
  <2>2. phase_number_ = phase_number_cp[u]
    BY <2>1 DEF Entered, PhaseLag, PhasePassed, TypeOK
  <2> QED
    BY <2>2 DEF StartNextPhase
<1>8. OneNotifier'
  <2>1. \A u \in Threads : at[u] # "notifying" \/ u = t
    BY DEF NotGone, Entered, Waiting
  <2> QED
    BY <2>1 DEF OneNotifier, StartNextPhase, TypeOK
<1> QED
  BY <1>1, <1>6, <1>7, <1>8

-----------------------------------------------------------------------------
\* A new barrier satisfies the invariant.
LEMMA BInvInit == Init => BInv
<1> SUFFICES ASSUME Init PROVE BInv
  OBVIOUS
<1> USE DEF Init
<1>1. TypeOK
  BY ThreadsAssumption, FS_CardinalityType DEF TypeOK, Places
<1>2. Entered = {} /\ NotGone = Threads
  BY DEF Entered, NotGone, Waiting
<1>3. CountersExact
  BY <1>2, FS_EmptySet DEF CountersExact
<1>4. PhaseLag /\ OneNotifier
  BY DEF PhaseLag, OneNotifier, Waiting
<1> QED
  BY <1>1, <1>3, <1>4 DEF BInv

\* A step that moves threads between outside, asleep, awake and notifying without
\* changing the two sets that are counted.
LEMMA SameCounters ==
  ASSUME CountersExact, UNCHANGED counters,
         Entered' = Entered, NotGone' = NotGone
  PROVE  CountersExact'
BY DEF CountersExact, counters

\* Every critical section of the barrier keeps the invariant.
LEMMA BInvNext == BInv /\ [Next]_vars => BInv'
<1> SUFFICES ASSUME BInv, [Next]_vars PROVE BInv'
  OBVIOUS
<1> USE DEF BInv
<1>1. ASSUME NEW t \in Threads, EnterAndWait(t) PROVE BInv'
  <2> USE <1>1 DEF EnterAndWait, MayEnter
  <2>1. TypeOK'
    BY DEF TypeOK, Places
  <2>2. Entered' = Entered \cup {t}
    BY DEF Entered, Waiting, PhasePassed, TypeOK
  <2>3. NotGone' = NotGone
    BY DEF NotGone, TypeOK
  <2>4. t \notin Entered
    BY DEF Entered, Waiting
  <2>5. Cardinality(Entered') = Cardinality(Entered) + 1
    BY <2>2, <2>4, SetsFinite, FS_AddElement
  <2>6. CountersExact'
    BY <2>3, <2>5 DEF CountersExact
  <2>7. PhaseLag'
    BY DEF PhaseLag, Waiting, TypeOK
  <2>8. OneNotifier'
    BY DEF OneNotifier, TypeOK
  <2> QED
    BY <2>1, <2>6, <2>7, <2>8
<1>2. ASSUME NEW t \in Threads, EnterAsLast(t) PROVE BInv'
  <2>1. NotGone = Entered \cup {t}
    BY <1>2, AllInside DEF EnterAsLast, MayEnter
  <2> QED
    BY <1>2, <2>1, NextPhase DEF EnterAsLast
<1>3. ASSUME NEW t \in Threads, NotifyAndReturn(t) PROVE BInv'
  <2> USE <1>3 DEF NotifyAndReturn, Woken
  <2>1. TypeOK'
    BY DEF TypeOK, Places, counters
  <2>2. Entered' = Entered /\ NotGone' = NotGone
    BY DEF Entered, NotGone, Waiting, PhasePassed, TypeOK, counters
  <2>3. CountersExact'
    BY <2>2, SameCounters
  <2>4. PhaseLag' /\ OneNotifier'
    BY DEF PhaseLag, OneNotifier, Waiting, TypeOK, counters
  <2> QED
    BY <2>1, <2>3, <2>4
<1>4. ASSUME NEW t \in Threads, SpuriousWakeup(t) \/ SleepAgain(t) PROVE BInv'
  <2> USE <1>4 DEF SpuriousWakeup, SleepAgain
  <2>1. TypeOK'
    BY DEF TypeOK, Places, counters
  <2>2. Entered' = Entered /\ NotGone' = NotGone
    BY DEF Entered, NotGone, Waiting, PhasePassed, TypeOK, counters
  <2>3. CountersExact'
    BY <2>2, SameCounters DEF counters
  <2>4. PhaseLag' /\ OneNotifier'
    BY DEF PhaseLag, OneNotifier, Waiting, TypeOK, counters
  <2> QED
    BY <2>1, <2>3, <2>4
<1>5. ASSUME NEW t \in Threads, ReturnReleased(t) PROVE BInv'
  <2> USE <1>5 DEF ReturnReleased
  <2>1. TypeOK'
    BY DEF TypeOK, Places, counters
  <2>2. Entered' = Entered /\ NotGone' = NotGone
    BY DEF Entered, NotGone, Waiting, PhasePassed, TypeOK, counters
  <2>3. CountersExact'
    BY <2>2, SameCounters
  <2>4. PhaseLag' /\ OneNotifier'
    BY DEF PhaseLag, OneNotifier, Waiting, TypeOK, counters
  <2> QED
    BY <2>1, <2>3, <2>4
<1>6. ASSUME NEW t \in Threads, TakeOver(t) PROVE BInv'
  <2>1. t \in Entered /\ entered_ = running_threads_
    BY <1>6 DEF TakeOver, Entered, Waiting
  <2>2. NotGone = Entered \cup {t}
    BY <2>1, AllInside
  <2> QED
    BY <1>6, <2>2, NextPhase DEF TakeOver
<1>7. ASSUME NEW t \in Threads, RemoveThread(t) PROVE BInv'
  <2> USE <1>7 DEF RemoveThread, Woken
  <2>1. t \in NotGone /\ t \notin Entered
    BY DEF NotGone, Entered, Waiting
  <2>2. entered_ < running_threads_
    BY <2>1, SomeoneMissing
  <2>3. TypeOK'
    BY <2>2 DEF TypeOK, Places
  <2>4. Entered' = Entered
    BY DEF Entered, Waiting, PhasePassed, TypeOK
  <2>5. NotGone' = NotGone \ {t}
    BY DEF NotGone, TypeOK
  <2>6. Cardinality(NotGone') = Cardinality(NotGone) - 1
    BY <2>1, <2>5, SetsFinite, FS_RemoveElement
  <2>7. CountersExact'
    BY <2>4, <2>6 DEF CountersExact
  <2>8. PhaseLag' /\ OneNotifier'
    BY DEF PhaseLag, OneNotifier, Waiting, TypeOK
  <2> QED
    BY <2>3, <2>7, <2>8
<1>8. CASE UNCHANGED vars
  BY <1>8 DEF vars, TypeOK, CountersExact, PhaseLag, OneNotifier, Entered, NotGone,
              Waiting, PhasePassed
<1> QED
  BY <1>1, <1>2, <1>3, <1>4, <1>5, <1>6, <1>7, <1>8 DEF Next, Step, Call, Resume

\* The fields of the barrier and the places of the threads keep their types.
THEOREM TypeCorrect == Spec => []TypeOK
BY BInvInit, BInvNext, PTL DEF Spec, BInv

\* running_threads_ and entered_ count exactly what they stand for, for any
\* interleaving of arrivals, spurious wakeups, releases and removals.
THEOREM CountersCorrect == Spec => []CountersExact
BY BInvInit, BInvNext, PTL DEF Spec, BInv

\* No waiter falls more than one phase behind.
THEOREM PhaseLagCorrect == Spec => []PhaseLag
BY BInvInit, BInvNext, PTL DEF Spec, BInv

\* The BM_CHECK_LT of createBarrier can never fail.
THEOREM EntryCheckCorrect == Spec => []EntryCheckHolds
<1>1. BInv => EntryCheckHolds
  BY SomeoneMissing DEF BInv, EntryCheckHolds, NotGone, Entered, Waiting
<1> QED
  BY <1>1, BInvInit, BInvNext, PTL DEF Spec

-----------------------------------------------------------------------------
\* Nobody sleeps at first.
LEMMA WakeupInit == Init => NoLostWakeup
<1> SUFFICES ASSUME Init PROVE NoLostWakeup
  OBVIOUS
<1> QED
  BY DEF Init, NoLostWakeup, PhasePassed

\* Whoever must act is awake, or the thread that will notify it is on its way.
LEMMA WakeupNext == BInv /\ NoLostWakeup /\ [Next]_vars => NoLostWakeup'
<1> SUFFICES ASSUME BInv, NoLostWakeup, [Next]_vars PROVE NoLostWakeup'
  OBVIOUS
<1> USE DEF BInv
<1>1. ASSUME NEW t \in Threads, EnterAndWait(t) PROVE NoLostWakeup'
  <2> USE <1>1 DEF EnterAndWait, MayEnter
  <2>1. \A u \in Threads : at[u] = "notifying" => at'[u] = "notifying"
    BY DEF TypeOK
  <2>2. \A u \in Threads :
          at'[u] = "asleep" /\ PhasePassed(u)' => at[u] = "asleep" /\ PhasePassed(u)
    BY DEF TypeOK, PhasePassed
  <2>3. entered_' # running_threads_'
    BY DEF TypeOK
  <2> QED
    BY <2>1, <2>2, <2>3 DEF NoLostWakeup
<1>2. ASSUME NEW t \in Threads, StartNextPhase(t) PROVE NoLostWakeup'
  BY <1>2 DEF StartNextPhase, NoLostWakeup, TypeOK
<1>3. ASSUME NEW t \in Threads, NotifyAndReturn(t) PROVE NoLostWakeup'
  <2> USE <1>3 DEF NotifyAndReturn, Woken, counters
  <2>1. \A u \in Threads : at'[u] # "asleep"
    BY DEF TypeOK
  <2>2. \A u \in Threads : at[u] = "awake" => at'[u] = "awake"
    BY DEF TypeOK
  <2> QED
    BY <2>1, <2>2 DEF NoLostWakeup
<1>4. ASSUME NEW t \in Threads, SpuriousWakeup(t) PROVE NoLostWakeup'
  <2> USE <1>4 DEF SpuriousWakeup, counters
  <2>1. \A u \in Threads : at[u] \in {"awake", "notifying"} => at'[u] = at[u]
    BY DEF TypeOK
  <2>2. \A u \in Threads : at'[u] = "asleep" => at[u] = "asleep"
    BY DEF TypeOK
  <2> QED
    BY <2>1, <2>2 DEF NoLostWakeup, PhasePassed
<1>5. ASSUME NEW t \in Threads, SleepAgain(t) PROVE NoLostWakeup'
  <2> USE <1>5 DEF SleepAgain, counters
  <2>1. \A u \in Threads : at[u] = "notifying" => at'[u] = "notifying"
    BY DEF TypeOK
  <2>2. \A u \in Threads :
          at'[u] = "asleep" /\ PhasePassed(u)' => at[u] = "asleep" /\ PhasePassed(u)
    BY DEF TypeOK, PhasePassed
  <2> QED
    BY <2>1, <2>2 DEF NoLostWakeup
<1>6. ASSUME NEW t \in Threads, ReturnReleased(t) PROVE NoLostWakeup'
  <2> USE <1>6 DEF ReturnReleased, counters
  <2>1. t \in NotGone /\ t \notin Entered
    BY DEF NotGone, Entered
  <2>2. entered_' # running_threads_'
    BY <2>1, SomeoneMissing DEF TypeOK
  <2>3. \A u \in Threads : /\ at[u] = "notifying" => at'[u] = "notifying"
                          /\ at'[u] = "asleep" => at[u] = "asleep"
    BY DEF TypeOK
  <2> QED
    BY <2>2, <2>3 DEF NoLostWakeup, PhasePassed
<1>7. ASSUME NEW t \in Threads, RemoveThread(t) PROVE NoLostWakeup'
  <2> USE <1>7 DEF RemoveThread, Woken
  <2>1. CASE entered_ = 0
    <3>1. \A u \in Threads : /\ at[u] = "notifying" => at'[u] = "notifying"
                            /\ at'[u] = "asleep" => at[u] = "asleep"
      BY <2>1 DEF TypeOK
    <3> QED
      BY <2>1, <3>1 DEF NoLostWakeup, PhasePassed
  <2>2. CASE entered_ # 0
    <3>1. \A u \in Threads : at'[u] # "asleep"
      BY <2>2 DEF TypeOK
    <3>2. PICK u \in Entered : TRUE
      BY <2>2, FS_EmptySet DEF CountersExact
    <3>3. at'[u] = "awake"
      BY <2>2, <3>2 DEF Entered, Waiting, TypeOK
    <3> QED
      BY <3>1, <3>2, <3>3 DEF NoLostWakeup, Entered
  <2> QED
    BY <2>1, <2>2
<1>8. CASE UNCHANGED vars
  BY <1>8 DEF vars, NoLostWakeup, PhasePassed
<1> QED
  BY <1>1, <1>2, <1>3, <1>4, <1>5, <1>6, <1>7, <1>8
     DEF Next, Step, Call, Resume, EnterAsLast, TakeOver

\* No wakeup is ever lost: the notify_all of wait(), made after lock_ is given up,
\* and the one of removeThread() between them reach every thread that must act.
THEOREM NoLostWakeupCorrect == Spec => []NoLostWakeup
BY BInvInit, BInvNext, WakeupInit, WakeupNext, PTL DEF Spec

-----------------------------------------------------------------------------
\* The abstract barrier's sets, read off the concrete state.
LEMMA MappedSets ==
  ASSUME TypeOK
  PROVE  /\ Abs!Running = NotGone
         /\ Abs!Outside = {t \in Threads : at[t] = "outside"}
BY DEF Abs!Running, Abs!Outside, NotGone, Entered, Released, Gone, Waiting, TypeOK,
       Places

\* The initial states of the barrier are initial states of the abstract one.
LEMMA RefineInit == Init => Abs!Init
BY DEF Init, Abs!Init, Entered, Released, LastThreads, Gone, Waiting

\* The last thread completes the round of the abstract barrier.
LEMMA RefineComplete ==
  ASSUME BInv, NEW t \in Threads, StartNextPhase(t),
         NotGone = Entered \cup {t}
  PROVE  Abs!CompleteRound(t)
<1> USE DEF BInv
<1>1. \A u \in Threads : at'[u] = IF u = t THEN "notifying" ELSE at[u]
  BY DEF StartNextPhase, TypeOK
<1>2. \A u \in Entered : phase_number_' > phase_number_cp'[u]
  <2> SUFFICES ASSUME NEW u \in Entered PROVE phase_number_' > phase_number_cp'[u]
    OBVIOUS
  <2>1. phase_number_ \in {phase_number_cp[u], phase_number_cp[u] + 1}
        /\ phase_number_cp[u] \in Nat
    BY DEF Entered, PhaseLag, TypeOK
  <2> QED
    BY <2>1 DEF StartNextPhase, TypeOK
<1>3. \A u \in Threads : at'[u] \in {"asleep", "awake"} => u \in Entered
  BY <1>1 DEF NotGone
<1>4. Entered' = {}
  BY <1>2, <1>3 DEF Entered, Waiting, PhasePassed
<1>5. LastThreads' = {t}
  BY <1>1 DEF NotGone, Entered, Waiting, LastThreads
<1>6. \A u \in Entered : u = t \/ at'[u] \in {"asleep", "awake"}
  BY <1>1 DEF Entered, Waiting
<1>7. Released' = NotGone
  <2>1. NotGone \subseteq Released'
    BY <1>1, <1>2, <1>6 DEF Released, Waiting, PhasePassed, Entered
  <2>2. Released' \subseteq NotGone
    BY <1>1, <1>3 DEF Released, Waiting, PhasePassed, NotGone
  <2> QED
    BY <2>1, <2>2
<1>8. Gone' = Gone
  BY <1>1 DEF NotGone, Entered, Waiting, Gone
<1> QED
  BY <1>4, <1>5, <1>7, <1>8, MappedSets DEF Abs!CompleteRound

\* Every step is a step of the abstract barrier or leaves its state alone.
LEMMA RefineNext == BInv /\ [Next]_vars => [Abs!Next]_(Abs!absVars)
<1> SUFFICES ASSUME BInv, [Next]_vars PROVE [Abs!Next]_(Abs!absVars)
  OBVIOUS
<1> USE DEF BInv
<1>1. ASSUME NEW t \in Threads, EnterAndWait(t) PROVE Abs!Arrive(t)
  <2> USE <1>1 DEF EnterAndWait, MayEnter
  <2>1. Entered' = Entered \cup {t}
    BY DEF Entered, Waiting, PhasePassed, TypeOK
  <2>2. Entered \cup {t} # NotGone
    <3>1. t \notin Entered
      BY DEF Entered, Waiting
    <3>2. Cardinality(Entered \cup {t}) = entered_ + 1
      BY <3>1, SetsFinite, FS_AddElement DEF CountersExact
    <3>3. Cardinality(Entered \cup {t}) # Cardinality(NotGone)
      BY <3>2 DEF CountersExact, TypeOK
    <3> QED
      BY <3>3
  <2>3. Released' = Released /\ LastThreads' = LastThreads /\ Gone' = Gone
    BY DEF Released, LastThreads, Gone, Waiting, PhasePassed, TypeOK
  <2> QED
    BY <2>1, <2>2, <2>3, MappedSets DEF Abs!Arrive
<1>2. ASSUME NEW t \in Threads, EnterAsLast(t) PROVE Abs!ArriveLast(t)
  <2>1. NotGone = Entered \cup {t}
    BY <1>2, AllInside DEF EnterAsLast, MayEnter
  <2> QED
    BY <1>2, <2>1, RefineComplete, MappedSets
       DEF EnterAsLast, MayEnter, Abs!ArriveLast
<1>3. ASSUME NEW t \in Threads, NotifyAndReturn(t) PROVE Abs!Return(t)
  <2> USE <1>3 DEF NotifyAndReturn, Woken, counters
  <2>1. Entered' = Entered /\ Gone' = Gone
    BY DEF Entered, Gone, Waiting, PhasePassed, TypeOK
  <2>2. Released' = Released \ {t} /\ LastThreads' = LastThreads \ {t}
    BY DEF Released, LastThreads, Waiting, PhasePassed, TypeOK
  <2>3. t \in Released
    BY DEF Released
  <2> QED
    BY <2>1, <2>2, <2>3 DEF Abs!Return
<1>4. ASSUME NEW t \in Threads, SpuriousWakeup(t) \/ SleepAgain(t)
      PROVE  UNCHANGED Abs!absVars
  <2> USE <1>4 DEF SpuriousWakeup, SleepAgain, counters
  <2>1. Entered' = Entered /\ Gone' = Gone
    BY DEF Entered, Gone, Waiting, PhasePassed, TypeOK
  <2>2. Released' = Released /\ LastThreads' = LastThreads
    BY DEF Released, LastThreads, Waiting, PhasePassed, TypeOK
  <2> QED
    BY <2>1, <2>2 DEF Abs!absVars
<1>5. ASSUME NEW t \in Threads, ReturnReleased(t) PROVE Abs!Return(t)
  <2> USE <1>5 DEF ReturnReleased, counters
  <2>1. Entered' = Entered /\ Gone' = Gone
    BY DEF Entered, Gone, Waiting, PhasePassed, TypeOK
  <2>2. Released' = Released \ {t} /\ LastThreads' = LastThreads \ {t}
    BY DEF Released, LastThreads, Waiting, PhasePassed, TypeOK
  <2>3. t \in Released
    BY DEF Released, Waiting
  <2> QED
    BY <2>1, <2>2, <2>3 DEF Abs!Return
<1>6. ASSUME NEW t \in Threads, TakeOver(t) PROVE Abs!TakeOver(t)
  <2>1. t \in Entered /\ entered_ = running_threads_
    BY <1>6 DEF TakeOver, Entered, Waiting
  <2>2. NotGone = Entered \cup {t}
    BY <2>1, AllInside
  <2> QED
    BY <1>6, <2>1, <2>2, RefineComplete DEF TakeOver, Abs!TakeOver
<1>7. ASSUME NEW t \in Threads, RemoveThread(t) PROVE Abs!Remove(t)
  <2> USE <1>7 DEF RemoveThread, Woken
  <2>1. Entered' = Entered /\ Gone' = Gone \cup {t}
    BY DEF Entered, Gone, Waiting, PhasePassed, TypeOK
  <2>2. Released' = Released /\ LastThreads' = LastThreads
    BY DEF Released, LastThreads, Waiting, PhasePassed, TypeOK
  <2> QED
    BY <2>1, <2>2, MappedSets DEF Abs!Remove
<1>8. CASE UNCHANGED vars
  BY <1>8 DEF vars, Abs!absVars, Entered, Released, LastThreads, Gone, Waiting,
              PhasePassed
<1> QED
  BY <1>1, <1>2, <1>3, <1>4, <1>5, <1>6, <1>7, <1>8
     DEF Next, Step, Call, Resume, Abs!Next

\* The counters, the phase numbers and the condition variable implement rounds of
\* sets: nobody is let go before every running thread has arrived, and exactly one
\* thread of each round is the last.
THEOREM BarrierRefinesRounds == Spec => RefinesRounds
BY BInvInit, BInvNext, RefineInit, RefineNext, PTL
   DEF Spec, RefinesRounds, Abs!Spec
=============================================================================
