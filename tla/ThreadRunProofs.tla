---------------------------- MODULE ThreadRunProofs ----------------------------
(***************************************************************************)
(* What holds of ThreadRun for every number of threads, loop and benchmark,*)
(* whatever the barrier does: the timer is stopped where RunInThread reads *)
(* it, and a skip is reported as one thread gave it.                       *)
(*                                                                         *)
(* Both speak of each thread's own State, so the invariant does, too, and  *)
(* only the kind and the message of the skip relate it to the results.     *)
(*                                                                         *)
(* Then MeetTogether: the one barrier serves the start of the loop and its *)
(* end, and the two stay apart. The phase number tells which meeting is    *)
(* over: in phase 0 nobody is past the start, in phase 1 everybody who is  *)
(* left has started and nobody is past the end, in phase 2 everybody who   *)
(* is left has finished. That the phase moves only when all who are left   *)
(* are inside is the counting argument of BarrierProofs, taken from there. *)
(*                                                                         *)
(* Last are TypeOK and CompleteUnlessSkipped, which rest on what the       *)
(* meetings say of a thread: what the results add up to.                   *)
(***************************************************************************)
EXTENDS ThreadRun, FiniteSetTheorems, TLAPS

Fields == DOMAIN NewState

\* The records are records, which is all that updating a field needs.
Shapes ==
  /\ DOMAIN st = Threads /\ DOMAIN pc = Threads /\ DOMAIN loop = Threads
  /\ \A t \in Threads : DOMAIN st[t] = Fields
  /\ \A t \in Threads : st[t].skipped_ \in Skips \cup {"NotSkipped"}
  /\ \A t \in Threads : st[t].running_ \in BOOLEAN
  /\ DOMAIN results = DOMAIN NoResult

\* A thread that skipped, or has begun to leave its loop, is not timed.
NotTimed(t) == skipped(st[t]) \/ pc[t] = "stopwait" \/ loop[t] = "after" => ~st[t].running_

\* The results know of a skip as soon as a State does, and its thread.
OneSkip ==
  /\ results.skipped_ = "NotSkipped" <=> \A t \in Threads : ~skipped(st[t])
  /\ results.skip_message_ # NoMessage =>
       /\ results.skip_message_ \in Threads
       /\ skipped(st[results.skip_message_])
       /\ results.skipped_ = st[results.skip_message_].skipped_

ThreadInv == Shapes /\ (\A t \in Threads : NotTimed(t)) /\ OneSkip

-----------------------------------------------------------------------------
\* The absence of a message is no thread.
LEMMA ThreadsAreNumbers == NoMessage \notin Threads
  BY NumThreadsAssumption DEF NoMessage, Threads

\* A new State is neither timed nor skipped.
THEOREM ThreadRunInitial == Init => ThreadInv
<1> SUFFICES ASSUME Init
             PROVE  ThreadInv
  OBVIOUS
<1>1. Shapes
  BY DEF Init, Shapes, Fields, NewState, NoResult
<1>2. \A t \in Threads : NotTimed(t)
  BY DEF Init, NotTimed, NewState, skipped
<1>3. OneSkip
  BY DEF Init, OneSkip, NewState, NoResult, skipped
<1> QED
  BY <1>1, <1>2, <1>3 DEF ThreadInv

\* A thread's State changes in anything but the skip, and is not timed where it must
\* not be.
LEMMA StateChanges ==
  ASSUME ThreadInv, NEW t \in Threads, UNCHANGED results,
         DOMAIN st' = Threads, DOMAIN pc' = Threads, DOMAIN loop' = Threads,
         \A u \in Threads \ {t} : st'[u] = st[u] /\ pc'[u] = pc[u] /\ loop'[u] = loop[u],
         DOMAIN st'[t] = Fields, st'[t].skipped_ = st[t].skipped_, st'[t].running_ \in BOOLEAN,
         NotTimed(t)'
  PROVE  ThreadInv'
<1>1. Shapes'
  BY DEF ThreadInv, Shapes
<1>2. \A u \in Threads : NotTimed(u)'
  BY DEF ThreadInv, NotTimed, skipped
<1>3. \A u \in Threads : st'[u].skipped_ = st[u].skipped_
  OBVIOUS
<1>4. OneSkip'
  BY <1>3 DEF ThreadInv, OneSkip, skipped
<1> QED
  BY <1>1, <1>2, <1>4 DEF ThreadInv

\* A thread goes on to its next line.
LEMMA GoKeeps ==
  ASSUME ThreadInv, NEW t \in Threads, NEW s, NEW where, NEW inLoop,
         Go(t, s, where, inLoop), UNCHANGED results,
         DOMAIN s = Fields, s.skipped_ = st[t].skipped_, s.running_ \in BOOLEAN,
         skipped(s) \/ where = "stopwait" \/ inLoop = "after" => ~s.running_
  PROVE  ThreadInv'
<1>1. /\ st' = [st EXCEPT ![t] = s] /\ pc' = [pc EXCEPT ![t] = where]
      /\ loop' = [loop EXCEPT ![t] = inLoop]
      /\ DOMAIN st = Threads /\ DOMAIN pc = Threads /\ DOMAIN loop = Threads
  BY DEF Go, ThreadInv, Shapes
<1>2. /\ st'[t] = s /\ pc'[t] = where /\ loop'[t] = inLoop
      /\ \A u \in Threads \ {t} : st'[u] = st[u] /\ pc'[u] = pc[u] /\ loop'[u] = loop[u]
      /\ DOMAIN st' = Threads /\ DOMAIN pc' = Threads /\ DOMAIN loop' = Threads
  BY <1>1
<1>3. NotTimed(t)'
  BY <1>2 DEF NotTimed, skipped
<1> QED
  BY <1>2, <1>3, StateChanges

\* A thread skips that had not skipped before: the first one stays the one reported.
LEMMA SkipKeeps ==
  ASSUME ThreadInv, NEW t \in Threads, NEW kind \in Skips, ~skipped(st[t]), Skip(t, kind),
         UNCHANGED <<pc, loop>>
  PROVE  ThreadInv'
<1> DEFINE s == [st[t] EXCEPT !.skipped_ = kind, !.total_iterations_ = 0, !.running_ = FALSE]
<1>1. /\ st' = [st EXCEPT ![t] = s]
      /\ results' = IF results.skipped_ = "NotSkipped"
                    THEN [results EXCEPT !.skip_message_ = t, !.skipped_ = kind]
                    ELSE results
  BY Zenon DEF Skip
<1>2. DOMAIN st = Threads /\ DOMAIN st[t] = Fields /\ DOMAIN results = DOMAIN NoResult
  BY DEF ThreadInv, Shapes
<1>3. kind # "NotSkipped"
  BY DEF Skips
<1>4. DOMAIN s = Fields /\ s.skipped_ = kind /\ s.running_ = FALSE
  BY <1>2 DEF Fields, NewState
<1> HIDE DEF s
<1>5. /\ st'[t] = s
      /\ \A u \in Threads \ {t} : st'[u] = st[u]
      /\ DOMAIN st' = Threads
  BY <1>1, <1>2
<1>6. DOMAIN results' = DOMAIN NoResult
  BY <1>1, <1>2
<1>7. Shapes'
  BY <1>4, <1>5, <1>6 DEF ThreadInv, Shapes
<1>8. ASSUME NEW u \in Threads
      PROVE  NotTimed(u)'
  BY <1>4, <1>5 DEF ThreadInv, NotTimed, skipped
<1>9. OneSkip'
  <2>1. CASE results.skipped_ = "NotSkipped"
    <3>1. results'.skip_message_ = t /\ results'.skipped_ = kind
      BY <1>1, <1>2, <2>1 DEF NoResult
    <3> QED
      BY <1>3, <1>4, <1>5, <3>1 DEF OneSkip, skipped
  <2>2. CASE results.skipped_ # "NotSkipped"
    <3>1. results' = results
      BY <1>1, <2>2
    <3>2. results.skip_message_ # t
      BY ThreadsAreNumbers DEF ThreadInv, OneSkip
    <3> QED
      BY <1>3, <1>4, <1>5, <2>2, <3>1, <3>2 DEF ThreadInv, OneSkip, skipped
  <2> QED
    BY <2>1, <2>2
<1> QED
  BY <1>7, <1>8, <1>9 DEF ThreadInv

\* A step that touches neither the States nor what is reported of a skip, and sends no
\* thread into the end of its loop.
LEMMA StatesLeftAlone ==
  ASSUME ThreadInv, UNCHANGED <<st, loop>>,
         DOMAIN pc' = Threads,
         \A t \in Threads : pc'[t] = "stopwait" => pc[t] = "stopwait",
         DOMAIN results' = DOMAIN NoResult,
         results'.skipped_ = results.skipped_,
         results'.skip_message_ = results.skip_message_
  PROVE  ThreadInv'
<1>1. Shapes'
  BY DEF ThreadInv, Shapes
<1>2. \A t \in Threads : NotTimed(t)'
  BY DEF ThreadInv, NotTimed, skipped
<1>3. OneSkip'
  BY DEF ThreadInv, OneSkip, skipped
<1> QED
  BY <1>1, <1>2, <1>3 DEF ThreadInv

\* The test of the loop: whoever leaves it is not timed any more.
LEMMA LoopTestKeeps ==
  ASSUME ThreadInv, NEW t \in Threads, NEW s, LoopTest(t, s), UNCHANGED results,
         DOMAIN s = Fields, s.skipped_ = st[t].skipped_, s.running_ \in BOOLEAN,
         skipped(s) => ~s.running_
  PROVE  ThreadInv'
<1>1. CASE HasMore(s)
  <2> DEFINE taken == TakeIterations(s)
  <2>1. Go(t, taken, "user", "body")
    BY <1>1, Zenon DEF LoopTest
  <2>2. DOMAIN taken = Fields /\ taken.skipped_ = s.skipped_ /\ taken.running_ = s.running_
    BY DEF TakeIterations, Fields, NewState
  <2> HIDE DEF taken
  <2> QED
    BY <2>1, <2>2, GoKeeps DEF skipped
<1>2. CASE ~HasMore(s)
  <2> DEFINE finished == FinishedState(s)
  <2>1. Go(t, finished, "stopwait", "body")
    BY <1>2, Zenon DEF LoopTest
  <2>2. /\ DOMAIN finished = Fields /\ finished.skipped_ = s.skipped_
        /\ finished.running_ = IF skipped(s) THEN s.running_ ELSE FALSE
    BY DEF FinishedState, Fields, NewState
  <2> HIDE DEF finished
  <2> QED
    BY <2>1, <2>2, GoKeeps DEF skipped
<1> QED
  BY <1>1, <1>2

-----------------------------------------------------------------------------
\* The user's steps in the loop.
LEMMA LoopStepsKeep ==
  ASSUME ThreadInv, NEW t \in Threads,
         StartKeepRunning(t) \/ NextIteration(t) \/ PassStart(t) \/ PassStop(t)
  PROVE  ThreadInv'
<1>1. /\ DOMAIN st[t] = Fields /\ st[t].running_ \in BOOLEAN
      /\ skipped(st[t]) => ~st[t].running_
  BY DEF ThreadInv, Shapes, NotTimed
<1>2. CASE StartKeepRunning(t)
  <2> DEFINE left == IF skipped(st[t]) THEN 0 ELSE Iters
             s == [st[t] EXCEPT !.started_ = TRUE, !.total_iterations_ = left,
                                !.cached_ = IF written.kind = "range" THEN left ELSE 0]
  <2>1. Go(t, s, "startwait", "before") /\ UNCHANGED results
    BY <1>2, Zenon DEF StartKeepRunning
  <2>2. DOMAIN s = Fields /\ s.skipped_ = st[t].skipped_ /\ s.running_ = st[t].running_
    BY <1>1 DEF Fields, NewState
  <2> HIDE DEF s
  <2> QED
    BY <1>1, <2>1, <2>2, GoKeeps DEF skipped
<1>3. CASE NextIteration(t)
  <2> DEFINE s == IF written.kind = "range" THEN [st[t] EXCEPT !.cached_ = @ - 1] ELSE st[t]
  <2>1. LoopTest(t, s) /\ UNCHANGED results
    BY <1>3, Zenon DEF NextIteration
  <2>2. DOMAIN s = Fields /\ s.skipped_ = st[t].skipped_ /\ s.running_ = st[t].running_
    BY <1>1 DEF Fields, NewState
  <2> HIDE DEF s
  <2> QED
    BY <1>1, <2>1, <2>2, LoopTestKeeps DEF skipped
<1>4. CASE PassStart(t)
  <2> DEFINE s == [st[t] EXCEPT !.running_ = ~skipped(st[t])]
  <2>1. LoopTest(t, s) /\ UNCHANGED results
    BY <1>4, Zenon DEF PassStart
  <2>2. DOMAIN s = Fields /\ s.skipped_ = st[t].skipped_
        /\ s.running_ = ~skipped(st[t])
    BY <1>1 DEF Fields, NewState
  <2>3. (~skipped(st[t])) \in BOOLEAN
    BY DEF skipped
  <2> HIDE DEF s
  <2> QED
    BY <2>1, <2>2, <2>3, LoopTestKeeps DEF skipped
<1>5. CASE PassStop(t)
  <2>1. Go(t, st[t], "user", "after") /\ UNCHANGED results /\ pc[t] = "stopwait"
    BY <1>5 DEF PassStop
  <2>2. ~st[t].running_
    BY <2>1 DEF ThreadInv, NotTimed
  <2> QED
    BY <1>1, <2>1, <2>2, GoKeeps
<1> QED
  BY <1>2, <1>3, <1>4, <1>5

\* The timer is stopped or resumed in the body of the loop, before any skip.
LEMMA PauseResumeKeep ==
  ASSUME ThreadInv, NEW t \in Threads, PauseTiming(t) \/ ResumeTiming(t) \/ SetIterationTime(t)
  PROVE  ThreadInv'
<1>1. /\ DOMAIN st[t] = Fields /\ st[t].running_ \in BOOLEAN
      /\ DOMAIN st = Threads /\ DOMAIN pc = Threads /\ DOMAIN loop = Threads
  BY DEF ThreadInv, Shapes
<1>2. /\ pc[t] = "user" /\ loop[t] = "body" /\ ~skipped(st[t])
      /\ UNCHANGED <<pc, loop, results>>
  BY DEF PauseTiming, ResumeTiming, SetIterationTime, InUser
<1>3. PICK s : /\ st' = [st EXCEPT ![t] = s]
               /\ DOMAIN s = Fields /\ s.skipped_ = st[t].skipped_ /\ s.running_ \in BOOLEAN
  <2>1. CASE PauseTiming(t)
    <3> DEFINE s == [st[t] EXCEPT !.running_ = FALSE]
    <3>1. st' = [st EXCEPT ![t] = s]
      BY <2>1, Zenon DEF PauseTiming
    <3>2. DOMAIN s = Fields /\ s.skipped_ = st[t].skipped_ /\ s.running_ = FALSE
      BY <1>1 DEF Fields, NewState
    <3> HIDE DEF s
    <3> QED
      BY <3>1, <3>2
  <2>2. CASE ResumeTiming(t)
    <3> DEFINE s == [st[t] EXCEPT !.running_ = TRUE]
    <3>1. st' = [st EXCEPT ![t] = s]
      BY <2>2, Zenon DEF ResumeTiming
    <3>2. DOMAIN s = Fields /\ s.skipped_ = st[t].skipped_ /\ s.running_ = TRUE
      BY <1>1 DEF Fields, NewState
    <3> HIDE DEF s
    <3> QED
      BY <3>1, <3>2
  <2>3. CASE SetIterationTime(t)
    <3> DEFINE s == [st[t] EXCEPT !.manual_time_used_ = @ + 1]
    <3>1. st' = [st EXCEPT ![t] = s]
      BY <2>3, Zenon DEF SetIterationTime
    <3>2. DOMAIN s = Fields /\ s.skipped_ = st[t].skipped_ /\ s.running_ = st[t].running_
      BY <1>1 DEF Fields, NewState
    <3> HIDE DEF s
    <3> QED
      BY <1>1, <3>1, <3>2
  <2> QED
    BY <2>1, <2>2, <2>3
<1>4. /\ st'[t] = s /\ DOMAIN st' = Threads
      /\ \A u \in Threads \ {t} : st'[u] = st[u]
  BY <1>1, <1>3
<1>5. NotTimed(t)'
  BY <1>2, <1>3, <1>4 DEF NotTimed, skipped
<1> QED
  BY <1>1, <1>2, <1>3, <1>4, <1>5, StateChanges

\* A skip by the user, or because a benchmark left its loop.
LEMMA SkipsKeep ==
  ASSUME ThreadInv, NEW t \in Threads, UserSkips(t) \/ DidNotRun(t)
  PROVE  ThreadInv'
<1>1. CASE UserSkips(t)
  <2> PICK kind \in UserSkipKinds : Skip(t, kind)
    BY <1>1 DEF UserSkips
  <2>1. kind \in Skips /\ ~skipped(st[t]) /\ UNCHANGED <<pc, loop>>
    BY <1>1, SkipKindsAssumption DEF UserSkips
  <2> QED
    BY <2>1, SkipKeeps
<1>2. CASE DidNotRun(t)
  <2>1. /\ "SkippedWithError" \in Skips /\ Skip(t, "SkippedWithError")
        /\ ~skipped(st[t]) /\ UNCHANGED <<pc, loop>>
    BY <1>2 DEF DidNotRun, RanOrSkipped, Skips
  <2> QED
    BY <2>1, SkipKeeps
<1> QED
  BY <1>1, <1>2

\* Threads come and go, and wait.
LEMMA OtherStepsKeep ==
  ASSUME ThreadInv, NEW t \in Threads,
         \/ Spawn(t) \/ Return(t) \/ Merge(t) \/ NotifyThreadComplete(t)
         \/ EnterBarrier(t) \/ StayInBarrier(t) \/ BecomeLast(t)
  PROVE  ThreadInv'
<1>1. DOMAIN pc = Threads /\ DOMAIN results = DOMAIN NoResult
  BY DEF ThreadInv, Shapes
<1>2. CASE Spawn(t)
  BY <1>1, <1>2, StatesLeftAlone DEF Spawn
<1>3. CASE Return(t)
  BY <1>1, <1>3, StatesLeftAlone DEF Return
<1>4. CASE Merge(t)
  <2>1. /\ results'.skipped_ = results.skipped_
        /\ results'.skip_message_ = results.skip_message_
        /\ DOMAIN results' = DOMAIN NoResult
    BY <1>1, <1>4 DEF Merge, NoResult
  <2> QED
    BY <1>1, <1>4, <2>1, StatesLeftAlone DEF Merge
<1>5. CASE NotifyThreadComplete(t)
  BY <1>1, <1>5, StatesLeftAlone DEF NotifyThreadComplete
<1>6. CASE EnterBarrier(t) \/ StayInBarrier(t) \/ BecomeLast(t)
  <2>1. UNCHANGED <<pc, loop, st, results>>
    BY <1>6 DEF EnterBarrier, StayInBarrier, BecomeLast, InBarrier
  <2> QED
    BY <1>1, <2>1, StatesLeftAlone
<1> QED
  BY <1>2, <1>3, <1>4, <1>5, <1>6

\* Every step keeps the invariant.
THEOREM ThreadRunInductive == ThreadInv /\ [Next]_vars => ThreadInv'
<1> SUFFICES ASSUME ThreadInv, [Next]_vars
             PROVE  ThreadInv'
  OBVIOUS
<1>1. ASSUME NEW t \in Threads, Spawn(t)
      PROVE  ThreadInv'
  BY <1>1, OtherStepsKeep
<1>2. ASSUME NEW t \in Threads, UserStep(t)
      PROVE  ThreadInv'
  BY <1>2, LoopStepsKeep, PauseResumeKeep, SkipsKeep, OtherStepsKeep DEF UserStep
<1>3. ASSUME NEW t \in Threads, BarrierStep(t)
      PROVE  ThreadInv'
  BY <1>3, LoopStepsKeep, OtherStepsKeep DEF BarrierStep
<1>4. ASSUME NEW t \in Threads, Tail(t)
      PROVE  ThreadInv'
  BY <1>4, SkipsKeep, OtherStepsKeep DEF Tail
<1>5. CASE UNCHANGED <<pc, loop, st, results>>
  <2>1. DOMAIN pc = Threads /\ DOMAIN results = DOMAIN NoResult
    BY DEF ThreadInv, Shapes
  <2> QED
    BY <1>5, <2>1, StatesLeftAlone
<1>6. CASE Join
  BY <1>5, <1>6 DEF Join
<1>7. CASE Finished \/ UNCHANGED vars
  BY <1>5, <1>7 DEF Finished, vars
<1> QED
  BY <1>1, <1>2, <1>3, <1>4, <1>6, <1>7 DEF Next

\* The invariant, of the behaviours.
LEMMA ThreadRunInvariant == Spec => []ThreadInv
  BY ThreadRunInitial, ThreadRunInductive, PTL DEF Spec

\* RunInThread merges the times of a timer that is stopped, whatever the benchmark did
\* within the rules, for every number of threads.
THEOREM TimerStoppedCorrect == Spec => []TimerStoppedAtMerge
<1>1. ThreadInv => TimerStoppedAtMerge
  BY DEF ThreadInv, NotTimed, TimerStoppedAtMerge
<1> QED
  BY <1>1, ThreadRunInvariant, PTL

\* A skip is reported if and only if there was one, as one thread gave it.
THEOREM SkipReportedCorrect == Spec => []SkipReported
<1>1. ThreadInv => SkipReported
  BY DEF ThreadInv, OneSkip, SkipReported
<1> QED
  BY <1>1, ThreadRunInvariant, PTL

-----------------------------------------------------------------------------
(* The two meetings at the barrier.                                        *)

BP == INSTANCE BarrierProofs WITH Threads <- Threads, MaxPhase <- 3

\* Let go by the barrier, and still in it.
Released(t) == at[t] = "notifying" \/ (BP!Waiting(t) /\ BP!PhasePassed(t))

\* Where a thread is in the benchmark, in its State and in the barrier.
Place(t) ==
  /\ pc[t] \in {"unspawned", "user", "startwait", "stopwait", "returned", "merged", "done"}
  /\ loop[t] \in {"before", "body", "after"}
  /\ st[t].started_ <=> loop[t] # "before" \/ pc[t] = "startwait"
  /\ st[t].finished_ <=> loop[t] = "after" \/ pc[t] = "stopwait"
  /\ pc[t] = "startwait" => loop[t] = "before"
  /\ pc[t] = "stopwait" => loop[t] = "body"
  /\ at[t] = "gone" <=> pc[t] = "done"
  /\ at[t] \in {"asleep", "awake", "notifying"} => pc[t] \in {"startwait", "stopwait"}

\* What the phase says of a thread.
Phase(t) ==
  /\ phase_number_ = 0 =>
       /\ loop[t] = "before" /\ ~st[t].running_
       /\ pc[t] # "stopwait" /\ at[t] # "notifying"
  /\ phase_number_ = 1 =>
       /\ pc[t] = "done" \/ st[t].started_
       /\ loop[t] # "after"
       /\ pc[t] = "startwait" => Released(t)
       /\ pc[t] = "stopwait" => ~Released(t)
  /\ phase_number_ = 2 =>
       /\ pc[t] = "done" \/ st[t].finished_
       /\ pc[t] # "startwait"
       /\ pc[t] = "stopwait" => Released(t)

Meetings ==
  /\ phase_number_ \in 0 .. 2
  /\ \A t \in Threads : Place(t) /\ Phase(t)

MeetingInv == ThreadInv /\ BP!BInv /\ Meetings

-----------------------------------------------------------------------------
\* The threads of a run are a finite set that is not empty, as BarrierProofs assumes.
LEMMA ThreadsFinite == BP!IsFiniteSet(Threads) /\ Threads # {}
<1>1. IsFiniteSet(0 .. NumThreads - 1)
  BY NumThreadsAssumption, FS_Interval
<1>2. BP!IsFiniteSet(Threads)
  BY <1>1 DEF BP!IsFiniteSet, IsFiniteSet, Threads
<1>3. 0 \in Threads
  BY NumThreadsAssumption DEF Threads
<1> QED
  BY <1>2, <1>3

\* A run begins with a new barrier.
LEMMA NewBarrier == Init => BP!Init
<1>1. \A S : B!Cardinality(S) = BP!Cardinality(S)
  BY Zenon DEF B!Cardinality, BP!Cardinality
<1> QED
  BY <1>1 DEF Init, B!Init, BP!Init

\* Nobody has met anybody yet.
LEMMA MeetingInitial == Init => MeetingInv
<1> SUFFICES ASSUME Init
             PROVE  Meetings
  BY ThreadRunInitial, NewBarrier, ThreadsFinite, BP!BInvInit DEF MeetingInv
<1>1. phase_number_ = 0 /\ at = [t \in Threads |-> "outside"]
  BY DEF Init, B!Init
<1>2. ASSUME NEW t \in Threads
      PROVE  Place(t) /\ Phase(t)
  BY <1>1 DEF Init, NewState, Place, Phase
<1> QED
  BY <1>1, <1>2 DEF Meetings

\* The steps of the barrier that ThreadRun takes are those BarrierProofs is about.
LEMMA BarrierSteps ==
  ASSUME NEW t \in Threads,
         \/ B!EnterAndWait(t) \/ B!EnterAsLast(t) \/ B!SpuriousWakeup(t) \/ B!SleepAgain(t)
         \/ B!TakeOver(t) \/ B!NotifyAndReturn(t) \/ B!ReturnReleased(t) \/ B!RemoveThread(t)
  PROVE  BP!Next
<1>1. /\ B!EnterAndWait(t) => BP!EnterAndWait(t)
      /\ B!EnterAsLast(t) => BP!EnterAsLast(t)
  BY DEF B!EnterAndWait, BP!EnterAndWait, B!MayEnter, BP!MayEnter,
         B!EnterAsLast, BP!EnterAsLast, B!StartNextPhase, BP!StartNextPhase
<1>2. /\ B!SpuriousWakeup(t) => BP!SpuriousWakeup(t)
      /\ B!SleepAgain(t) => BP!SleepAgain(t)
      /\ B!ReturnReleased(t) => BP!ReturnReleased(t)
      /\ B!TakeOver(t) => BP!TakeOver(t)
  BY DEF B!SpuriousWakeup, BP!SpuriousWakeup, B!SleepAgain, BP!SleepAgain,
         B!ReturnReleased, BP!ReturnReleased, B!TakeOver, BP!TakeOver,
         B!PhasePassed, BP!PhasePassed, B!StartNextPhase, BP!StartNextPhase,
         B!counters, BP!counters
<1>3. /\ B!NotifyAndReturn(t) => BP!NotifyAndReturn(t)
      /\ B!RemoveThread(t) => BP!RemoveThread(t)
  BY DEF B!NotifyAndReturn, BP!NotifyAndReturn, B!RemoveThread, BP!RemoveThread,
         B!Woken, BP!Woken, B!counters, BP!counters
<1> QED
  BY <1>1, <1>2, <1>3 DEF BP!Next, BP!Step, BP!Call, BP!Resume
-----------------------------------------------------------------------------
\* While the phase stays, what is said of the other threads stays, too: a notify_all
\* wakes them, nothing else happens to them.
LEMMA OneThread ==
  ASSUME MeetingInv, NEW t \in Threads, UNCHANGED phase_number_,
         \A u \in Threads \ {t} :
           /\ st'[u] = st[u] /\ pc'[u] = pc[u] /\ loop'[u] = loop[u]
           /\ phase_number_cp'[u] = phase_number_cp[u]
           /\ at'[u] = at[u] \/ (at[u] = "asleep" /\ at'[u] = "awake"),
         Place(t)', Phase(t)'
  PROVE  Meetings'
<1>1. ASSUME NEW u \in Threads \ {t}
      PROVE  Place(u)' /\ Phase(u)'
  <2>1. Place(u) /\ Phase(u)
    BY DEF MeetingInv, Meetings
  <2>2. Released(u)' = Released(u)
    BY <1>1 DEF Released, BP!Waiting, BP!PhasePassed
  <2>3. Place(u)'
    BY <2>1 DEF Place
  <2>4. Phase(u)'
    BY <2>1, <2>2 DEF Phase
  <2> QED
    BY <2>3, <2>4
<1> QED
  BY <1>1 DEF MeetingInv, Meetings

\* The place of one thread, read off the invariant.
LEMMA Typed ==
  ASSUME MeetingInv, NEW t \in Threads
  PROVE  /\ DOMAIN st = Threads /\ DOMAIN pc = Threads /\ DOMAIN loop = Threads
         /\ DOMAIN st[t] = Fields
         /\ at \in [Threads -> BP!Places] /\ phase_number_cp \in [Threads -> Nat]
         /\ phase_number_ \in {0, 1, 2}
         /\ BP!Waiting(t) => phase_number_ \in {phase_number_cp[t], phase_number_cp[t] + 1}
         /\ Place(t) /\ Phase(t)
  BY DEF MeetingInv, Meetings, ThreadInv, Shapes, BP!BInv, BP!TypeOK, BP!PhaseLag

\* The steps of the user's function that neither begin nor end the loop, and those of
\* RunInThread before it tells the barrier.
LEMMA QuietSteps ==
  ASSUME MeetingInv, NEW t \in Threads,
         \/ Spawn(t) \/ PauseTiming(t) \/ ResumeTiming(t) \/ SetIterationTime(t)
         \/ UserSkips(t) \/ Return(t) \/ DidNotRun(t) \/ Merge(t)
  PROVE  Meetings'
<1>1. UNCHANGED <<loop, barrierVars>>
  BY DEF Spawn, PauseTiming, ResumeTiming, SetIterationTime, UserSkips, Return, DidNotRun, Merge
<1>2. /\ st'[t].started_ = st[t].started_ /\ st'[t].finished_ = st[t].finished_
      /\ st'[t].running_ => st[t].running_ \/ loop[t] = "body"
      /\ \A u \in Threads \ {t} : st'[u] = st[u]
  <2>1. CASE UNCHANGED st
    BY <2>1
  <2>2. CASE PauseTiming(t)
    BY <2>2, Typed DEF PauseTiming, Fields, NewState
  <2>3. CASE ResumeTiming(t)
    BY <2>3, Typed DEF ResumeTiming, Fields, NewState
  <2>4. CASE SetIterationTime(t)
    BY <2>4, Typed DEF SetIterationTime, Fields, NewState
  <2>5. ASSUME NEW kind, Skip(t, kind)
        PROVE  /\ st'[t].started_ = st[t].started_ /\ st'[t].finished_ = st[t].finished_
               /\ st'[t].running_ => st[t].running_ \/ loop[t] = "body"
               /\ \A u \in Threads \ {t} : st'[u] = st[u]
    BY <2>5, Typed DEF Skip, Fields, NewState
  <2> QED
    BY <2>1, <2>2, <2>3, <2>4, <2>5 DEF Spawn, UserSkips, Return, DidNotRun, Merge
<1>3. /\ \A u \in Threads \ {t} : pc'[u] = pc[u]
      /\ pc[t] \in {"unspawned", "user", "returned"}
      /\ pc'[t] \in {"user", "returned", "merged"}
  BY Typed DEF Spawn, PauseTiming, ResumeTiming, SetIterationTime, UserSkips, Return, DidNotRun,
               Merge, InUser
<1>4. Place(t)'
  BY <1>1, <1>2, <1>3, Typed DEF Place, barrierVars
<1>5. Phase(t)'
  BY <1>1, <1>2, <1>3, Typed DEF Place, Phase, barrierVars
<1> QED
  BY <1>1, <1>2, <1>3, <1>4, <1>5, OneThread DEF barrierVars

\* Thread t goes on and its State's start and end are where the thread is.
LEMMA GoMeets ==
  ASSUME MeetingInv, NEW t \in Threads, NEW s, NEW where, NEW inLoop,
         Go(t, s, where, inLoop)
  PROVE  /\ st'[t] = s /\ pc'[t] = where /\ loop'[t] = inLoop
         /\ \A u \in Threads \ {t} : st'[u] = st[u] /\ pc'[u] = pc[u] /\ loop'[u] = loop[u]
  BY Typed DEF Go

\* The loop test leads into the body or, with the State finished, to the stop barrier.
LEMMA LoopTestMeets ==
  ASSUME MeetingInv, NEW t \in Threads, NEW s, LoopTest(t, s), DOMAIN s = Fields,
         s.finished_ = st[t].finished_, ~st[t].finished_, s.started_ = st[t].started_
  PROVE  /\ loop'[t] = "body" /\ st'[t].started_ = st[t].started_
         /\ \/ pc'[t] = "user" /\ ~st'[t].finished_
            \/ pc'[t] = "stopwait" /\ st'[t].finished_
         /\ \A u \in Threads \ {t} : st'[u] = st[u] /\ pc'[u] = pc[u] /\ loop'[u] = loop[u]
<1>1. CASE HasMore(s)
  <2> DEFINE taken == TakeIterations(s)
  <2>1. Go(t, taken, "user", "body")
    BY <1>1, Zenon DEF LoopTest
  <2>2. taken.finished_ = s.finished_ /\ taken.started_ = s.started_
    BY DEF TakeIterations, Fields, NewState
  <2> HIDE DEF taken
  <2> QED
    BY <2>1, <2>2, GoMeets
<1>2. CASE ~HasMore(s)
  <2> DEFINE finished == FinishedState(s)
  <2>1. Go(t, finished, "stopwait", "body")
    BY <1>2, Zenon DEF LoopTest
  <2>2. finished.finished_ = TRUE /\ finished.started_ = s.started_
    BY DEF FinishedState, Fields, NewState
  <2> HIDE DEF finished
  <2> QED
    BY <2>1, <2>2, GoMeets
<1> QED
  BY <1>1, <1>2

\* StartKeepRunning is called in phase 0 only: later on, who is left has started.
LEMMA StartMeets ==
  ASSUME MeetingInv, NEW t \in Threads, StartKeepRunning(t)
  PROVE  Meetings'
<1> DEFINE left == IF skipped(st[t]) THEN 0 ELSE Iters
           s == [st[t] EXCEPT !.started_ = TRUE, !.total_iterations_ = left,
                              !.cached_ = IF written.kind = "range" THEN left ELSE 0]
<1>1. Go(t, s, "startwait", "before") /\ UNCHANGED barrierVars
  BY Zenon DEF StartKeepRunning
<1>2. s.started_ = TRUE /\ s.finished_ = st[t].finished_ /\ s.running_ = st[t].running_
  BY Typed DEF Fields, NewState
<1>3. pc[t] = "user" /\ loop[t] = "before"
  BY DEF StartKeepRunning, InUser
<1> HIDE DEF s
<1>4. phase_number_ = 0
  BY <1>3, Typed DEF Place, Phase
<1>5. Place(t)' /\ Phase(t)'
  BY <1>1, <1>2, <1>3, <1>4, GoMeets, Typed DEF Place, Phase, barrierVars
<1> QED
  BY <1>1, <1>5, GoMeets, OneThread DEF barrierVars

\* A thread in the body is in phase 1; it goes on or begins to leave the loop.
LEMMA IterationMeets ==
  ASSUME MeetingInv, NEW t \in Threads, NextIteration(t)
  PROVE  Meetings'
<1> DEFINE s == IF written.kind = "range" THEN [st[t] EXCEPT !.cached_ = @ - 1] ELSE st[t]
<1>1. LoopTest(t, s) /\ UNCHANGED barrierVars
  BY Zenon DEF NextIteration
<1>2. /\ DOMAIN s = Fields
      /\ s.finished_ = st[t].finished_ /\ s.started_ = st[t].started_
  BY Typed DEF Fields, NewState
<1>3. pc[t] = "user" /\ loop[t] = "body"
  BY DEF NextIteration, InUser
<1> HIDE DEF s
<1>4. ~st[t].finished_ /\ st[t].started_ /\ phase_number_ = 1 /\ at[t] = "outside"
  BY <1>3, Typed DEF Place, Phase, BP!Places
<1>5. /\ loop'[t] = "body" /\ st'[t].started_
      /\ \/ pc'[t] = "user" /\ ~st'[t].finished_
         \/ pc'[t] = "stopwait" /\ st'[t].finished_
      /\ \A u \in Threads \ {t} : st'[u] = st[u] /\ pc'[u] = pc[u] /\ loop'[u] = loop[u]
  BY <1>1, <1>2, <1>4, LoopTestMeets
<1>6. Place(t)' /\ Phase(t)'
  BY <1>1, <1>4, <1>5 DEF Place, Phase, Released, BP!Waiting, barrierVars
<1> QED
  BY <1>1, <1>5, <1>6, OneThread DEF barrierVars

\* A thread that comes out of the barrier was let go by it, and nobody but those asleep
\* moves.
LEMMA ReturnsReleased ==
  ASSUME MeetingInv, NEW t \in Threads, WaitReturns(t)
  PROVE  /\ Released(t) /\ at'[t] = "outside" /\ UNCHANGED <<phase_number_, phase_number_cp>>
         /\ \A u \in Threads \ {t} : at'[u] = at[u] \/ (at[u] = "asleep" /\ at'[u] = "awake")
<1>1. CASE B!NotifyAndReturn(t)
  BY <1>1, Typed DEF B!NotifyAndReturn, B!Woken, B!counters, Released
<1>2. CASE B!ReturnReleased(t)
  BY <1>2, Typed DEF B!ReturnReleased, B!PhasePassed, B!counters, Released, BP!Waiting,
                     BP!PhasePassed
<1> QED
  BY <1>1, <1>2 DEF WaitReturns

\* Out of the start barrier: phase 1.
LEMMA PassStartMeets ==
  ASSUME MeetingInv, NEW t \in Threads, PassStart(t)
  PROVE  Meetings'
<1> DEFINE s == [st[t] EXCEPT !.running_ = ~skipped(st[t])]
<1>1. LoopTest(t, s) /\ WaitReturns(t) /\ pc[t] = "startwait"
  BY Zenon DEF PassStart
<1>2. /\ DOMAIN s = Fields
      /\ s.finished_ = st[t].finished_ /\ s.started_ = st[t].started_
  BY Typed DEF Fields, NewState
<1> HIDE DEF s
<1>3. ~st[t].finished_ /\ st[t].started_ /\ phase_number_ = 1
  <2>1. phase_number_ # 0
    BY ReturnsReleased, <1>1, Typed DEF Released, Phase, BP!PhasePassed
  <2> QED
    BY <1>1, <2>1, Typed DEF Place, Phase
<1>4. /\ loop'[t] = "body" /\ st'[t].started_
      /\ \/ pc'[t] = "user" /\ ~st'[t].finished_
         \/ pc'[t] = "stopwait" /\ st'[t].finished_
      /\ \A u \in Threads \ {t} : st'[u] = st[u] /\ pc'[u] = pc[u] /\ loop'[u] = loop[u]
  BY <1>1, <1>2, <1>3, LoopTestMeets
<1>5. Place(t)' /\ Phase(t)'
  BY <1>1, <1>3, <1>4, ReturnsReleased DEF Place, Phase, Released, BP!Waiting
<1> QED
  BY <1>1, <1>4, <1>5, ReturnsReleased, OneThread

\* Out of the stop barrier: phase 2.
LEMMA PassStopMeets ==
  ASSUME MeetingInv, NEW t \in Threads, PassStop(t)
  PROVE  Meetings'
<1>1. Go(t, st[t], "user", "after") /\ WaitReturns(t) /\ pc[t] = "stopwait"
  BY DEF PassStop
<1>2. st[t].finished_ /\ st[t].started_ /\ phase_number_ = 2
  BY <1>1, ReturnsReleased, Typed DEF Place, Phase
<1>3. Place(t)' /\ Phase(t)'
  BY <1>1, <1>2, GoMeets, ReturnsReleased DEF Place, Phase
<1> QED
  BY <1>1, <1>3, GoMeets, ReturnsReleased, OneThread

-----------------------------------------------------------------------------
\* The phase ends: whoever is left waits for the same meeting, which is over now.
LEMMA PhaseEnds ==
  ASSUME MeetingInv, NEW t \in Threads, pc[t] \in {"startwait", "stopwait"},
         at[t] = "outside" \/ t \in BP!Entered,
         BP!NotGone = BP!Entered \cup {t}, BP!StartNextPhase(t),
         UNCHANGED <<pc, loop, st>>
  PROVE  Meetings'
<1>1. /\ phase_number_' = phase_number_ + 1 /\ UNCHANGED phase_number_cp
      /\ at'[t] = "notifying" /\ \A u \in Threads \ {t} : at'[u] = at[u]
  BY Typed DEF BP!StartNextPhase
<1>2. ~Released(t)
  BY DEF Released, BP!Entered, BP!Waiting
<1>3. \A u \in Threads \ {t} :
        pc[u] = "done" \/ (BP!Waiting(u) /\ ~BP!PhasePassed(u) /\ ~Released(u))
  BY Typed DEF BP!NotGone, BP!Entered, Place, Released, BP!Waiting
<1>4. phase_number_ \in {0, 1}
  BY <1>2, Typed DEF Phase
<1>5. \A u \in Threads \ {t} : pc[u] = "done" \/ Released(u)'
  <2> SUFFICES ASSUME NEW u \in Threads \ {t}, pc[u] # "done"
               PROVE  Released(u)'
    OBVIOUS
  <2>1. BP!Waiting(u) /\ phase_number_ = phase_number_cp[u]
    BY <1>3, Typed DEF BP!PhasePassed
  <2> QED
    BY <1>1, <2>1, Typed DEF Released, BP!Waiting, BP!PhasePassed
<1>6. Released(t)'
  BY <1>1 DEF Released
<1>7. \A u \in Threads : pc[u] = "done" \/ (pc[u] \in {"startwait", "stopwait"} /\ ~Released(u))
  BY <1>2, <1>3, Typed DEF Place, BP!Waiting
<1>8. ASSUME NEW u \in Threads
      PROVE  Place(u)' /\ Phase(u)'
  <2>1. Place(u)'
    BY <1>1, Typed DEF Place
  <2>2. Phase(u)'
    <3>1. CASE phase_number_ = 0
      BY <1>1, <1>5, <1>6, <1>7, <3>1, Typed DEF Place, Phase
    <3>2. CASE phase_number_ = 1
      BY <1>1, <1>5, <1>6, <1>7, <3>2, Typed DEF Place, Phase
    <3> QED
      BY <1>4, <3>1, <3>2
  <2> QED
    BY <2>1, <2>2
<1> QED
  BY <1>1, <1>4, <1>8 DEF Meetings

\* A thread enters in phase 0 to start or in phase 1 to stop, or it ends the phase.
LEMMA EnterMeets ==
  ASSUME MeetingInv, NEW t \in Threads, EnterBarrier(t)
  PROVE  Meetings'
<1>1. pc[t] \in {"startwait", "stopwait"} /\ UNCHANGED <<pc, loop, st>>
  BY DEF EnterBarrier, InBarrier
<1>2. CASE B!EnterAndWait(t)
  <2>1. /\ at[t] = "outside" /\ at'[t] = "asleep" /\ UNCHANGED phase_number_
        /\ phase_number_cp'[t] = phase_number_
        /\ \A u \in Threads \ {t} : at'[u] = at[u] /\ phase_number_cp'[u] = phase_number_cp[u]
    BY <1>2, Typed DEF B!EnterAndWait, B!MayEnter
  <2>2. ~Released(t) /\ ~Released(t)'
    BY <2>1, Typed DEF Released, BP!Waiting, BP!PhasePassed
  <2>3. Place(t)' /\ Phase(t)'
    BY <1>1, <2>1, <2>2, Typed DEF Place, Phase
  <2> QED
    BY <1>1, <2>1, <2>3, OneThread
<1>3. CASE B!EnterAsLast(t)
  <2>1. /\ at[t] = "outside" /\ entered_ + 1 >= running_threads_
        /\ BP!StartNextPhase(t)
    BY <1>3 DEF B!EnterAsLast, B!MayEnter, B!StartNextPhase, BP!StartNextPhase
  <2>2. BP!NotGone = BP!Entered \cup {t}
    BY <2>1, ThreadsFinite, BP!AllInside DEF MeetingInv, BP!BInv
  <2> QED
    BY <1>1, <2>1, <2>2, PhaseEnds
<1> QED
  BY <1>2, <1>3 DEF EnterBarrier

\* The last waiter, once the missing threads have been removed, ends the phase.
LEMMA LastMeets ==
  ASSUME MeetingInv, NEW t \in Threads, BecomeLast(t)
  PROVE  Meetings'
<1>1. pc[t] \in {"startwait", "stopwait"} /\ UNCHANGED <<pc, loop, st>>
  BY DEF BecomeLast, InBarrier
<1>2. /\ t \in BP!Entered /\ entered_ = running_threads_
      /\ BP!StartNextPhase(t)
  BY DEF BecomeLast, B!TakeOver, B!PhasePassed, BP!Entered, BP!Waiting, BP!PhasePassed,
         B!StartNextPhase, BP!StartNextPhase
<1>3. BP!NotGone = BP!Entered \cup {t}
  BY <1>2, ThreadsFinite, BP!AllInside DEF MeetingInv, BP!BInv
<1> QED
  BY <1>1, <1>2, <1>3, PhaseEnds

\* Waking up and sleeping again mean nothing.
LEMMA StayMeets ==
  ASSUME MeetingInv, NEW t \in Threads, StayInBarrier(t)
  PROVE  Meetings'
<1>1. /\ at[t] \in {"asleep", "awake"} /\ at'[t] \in {"asleep", "awake"}
      /\ UNCHANGED <<pc, loop, st, phase_number_, phase_number_cp>>
      /\ \A u \in Threads \ {t} : at'[u] = at[u]
  BY Typed DEF StayInBarrier, InBarrier, B!SpuriousWakeup, B!SleepAgain, B!counters
<1>2. Released(t)' = Released(t)
  BY <1>1 DEF Released, BP!Waiting, BP!PhasePassed
<1>3. Place(t)' /\ Phase(t)'
  BY <1>1, <1>2, Typed DEF Place, Phase
<1> QED
  BY <1>1, <1>3, OneThread

\* Who is removed from the barrier is done; the others may be woken by it.
LEMMA RemoveMeets ==
  ASSUME MeetingInv, NEW t \in Threads, NotifyThreadComplete(t)
  PROVE  Meetings'
<1>1. /\ pc[t] = "merged" /\ pc'[t] = "done" /\ UNCHANGED <<loop, st>>
      /\ \A u \in Threads \ {t} : pc'[u] = pc[u]
  BY Typed DEF NotifyThreadComplete
<1>2. /\ at'[t] = "gone" /\ UNCHANGED <<phase_number_, phase_number_cp>>
      /\ \A u \in Threads \ {t} : at'[u] = at[u] \/ (at[u] = "asleep" /\ at'[u] = "awake")
  BY Typed DEF NotifyThreadComplete, B!RemoveThread, B!Woken
<1>3. Place(t)' /\ Phase(t)'
  BY <1>1, <1>2, Typed DEF Place, Phase
<1> QED
  BY <1>1, <1>2, <1>3, OneThread

-----------------------------------------------------------------------------
\* A step of a run is a step of the barrier or leaves it alone.
LEMMA UsesBarrier == [Next]_vars => [BP!Next]_BP!vars
<1> SUFFICES ASSUME [Next]_vars
             PROVE  [BP!Next]_BP!vars
  OBVIOUS
<1>1. CASE UNCHANGED barrierVars
  BY <1>1 DEF barrierVars, BP!vars
<1>2. ASSUME NEW t \in Threads, Spawn(t) \/ UserStep(t) \/ BarrierStep(t) \/ Tail(t)
      PROVE  [BP!Next]_BP!vars
  <2>1. CASE BarrierStep(t) \/ NotifyThreadComplete(t)
    BY <2>1, BarrierSteps DEF BarrierStep, EnterBarrier, StayInBarrier, BecomeLast, PassStart,
                              PassStop, WaitReturns, NotifyThreadComplete
  <2>2. CASE Spawn(t) \/ UserStep(t) \/ DidNotRun(t) \/ Merge(t)
    BY <1>1, <2>2 DEF Spawn, UserStep, StartKeepRunning, NextIteration, PauseTiming,
                      ResumeTiming, SetIterationTime, UserSkips, Return, DidNotRun, Merge
  <2> QED
    BY <1>2, <2>1, <2>2 DEF Tail
<1>3. CASE Join \/ Finished \/ UNCHANGED vars
  BY <1>1, <1>3 DEF Join, Finished, vars
<1> QED
  BY <1>2, <1>3 DEF Next

\* The threads of a run use the barrier by its rules - none enters it twice, is removed
\* while it waits, or comes back after that - so that it keeps its promise in the run:
\* rounds of sets of threads.
THEOREM RunKeepsRounds == Spec => BP!RefinesRounds
<1>1. BP!Init /\ [][BP!Next]_BP!vars => BP!RefinesRounds
  BY ThreadsFinite, BP!BarrierRefinesRounds DEF BP!Spec
<1> QED
  BY <1>1, NewBarrier, UsesBarrier, PTL DEF Spec

\* Every step keeps the two meetings apart.
THEOREM MeetingInductive == MeetingInv /\ [Next]_vars => MeetingInv'
<1> SUFFICES ASSUME MeetingInv, [Next]_vars
             PROVE  Meetings'
  BY ThreadRunInductive, UsesBarrier, ThreadsFinite, BP!BInvNext DEF MeetingInv
<1>1. ASSUME NEW t \in Threads, Spawn(t) \/ UserStep(t)
      PROVE  Meetings'
  BY <1>1, QuietSteps, StartMeets, IterationMeets DEF UserStep
<1>2. ASSUME NEW t \in Threads, BarrierStep(t)
      PROVE  Meetings'
  BY <1>2, EnterMeets, StayMeets, LastMeets, PassStartMeets, PassStopMeets DEF BarrierStep
<1>3. ASSUME NEW t \in Threads, Tail(t)
      PROVE  Meetings'
  BY <1>3, QuietSteps, RemoveMeets DEF Tail
<1>4. CASE Join \/ Finished \/ UNCHANGED vars
  <2>1. UNCHANGED <<pc, loop, st, barrierVars>>
    BY <1>4 DEF Join, Finished, vars
  <2> QED
    BY <2>1 DEF MeetingInv, Meetings, Place, Phase, Released, BP!Waiting, BP!PhasePassed,
                barrierVars
<1> QED
  BY <1>1, <1>2, <1>3, <1>4 DEF Next

\* What the phases say of the threads, said without them.
LEMMA MeetingsApart == MeetingInv => MeetTogether
<1> SUFFICES ASSUME MeetingInv
             PROVE  MeetTogether
  OBVIOUS
<1>1. ASSUME NEW t \in Threads, NEW u \in Threads, st[t].running_ \/ loop[t] # "before"
      PROVE  st[u].started_ \/ Left(u)
  <2>1. phase_number_ \in {1, 2}
    BY <1>1, Typed DEF Phase
  <2> QED
    BY <2>1, Typed DEF Place, Phase, Left
<1>2. ASSUME NEW t \in Threads, NEW u \in Threads, loop[t] = "after"
      PROVE  st[u].finished_ \/ Left(u)
  <2>1. phase_number_ = 2
    BY <1>2, Typed DEF Phase
  <2> QED
    BY <2>1, Typed DEF Phase, Left
<1>3. ASSUME NEW t \in Threads, NEW u \in Threads, B!Waiting(t), B!Waiting(u),
             phase_number_cp[t] = phase_number_cp[u]
      PROVE  pc[t] = pc[u]
  <2>1. /\ at[t] # "notifying" /\ at[u] # "notifying"
        /\ pc[t] \in {"startwait", "stopwait"} /\ pc[u] \in {"startwait", "stopwait"}
        /\ Released(t) <=> Released(u)
    BY <1>3, Typed DEF B!Waiting, BP!Waiting, BP!PhasePassed, Released, Place
  <2> QED
    BY <2>1, Typed DEF Phase
<1> QED
  BY <1>1, <1>2, <1>3 DEF MeetTogether

\* Nobody is timed before all have come to the loop, nobody is past it before all have
\* come to its end, and no phase of the barrier mixes the two: for every number of
\* threads, whoever skips, breaks off or returns early.
THEOREM MeetTogetherCorrect == Spec => []MeetTogether
  BY MeetingInitial, MeetingInductive, MeetingsApart, PTL DEF Spec

-----------------------------------------------------------------------------
(* What the runs add up to. No sum over the threads is needed: while nobody has skipped,
   a thread brings at least what was asked for and less than one batch more, so that the
   number of the threads that have merged bounds the result from both sides. *)

StateType ==
  [total_iterations_ : 0 .. Iters, batch_leftover_ : Nat, started_ : BOOLEAN,
   finished_ : BOOLEAN, skipped_ : Skips \cup {"NotSkipped"}, cached_ : 0 .. Iters,
   running_ : BOOLEAN, manual_time_used_ : Nat]

Merged == {t \in Threads : pc[t] \in {"merged", "done"}}

\* The leftover of a batch is what its last step took too many, and nothing follows it.
\* Whoever is in the body of a range loop has an iteration to count off.
Counts(t) ==
  /\ st[t].batch_leftover_ < written.n
  /\ st[t].batch_leftover_ # 0 => st[t].total_iterations_ = 0 /\ loop[t] # "before"
  /\ pc[t] = "unspawned" => loop[t] = "before"
  /\ written.kind = "range" /\ pc[t] = "user" /\ loop[t] = "body" => st[t].cached_ # 0

AddsUp ==
  results.skipped_ = "NotSkipped" =>
    /\ \A t \in Merged : iterations(st[t]) >= Iters
    /\ Cardinality(Merged) * Iters <= results.iterations
    /\ results.iterations <= Cardinality(Merged) * (Iters + written.n - 1)

CountInv ==
  /\ MeetingInv
  /\ TypeOK
  /\ \A t \in Threads : Counts(t)
  /\ AddsUp
  /\ joined => AllDone

\* The loop is one that a benchmark can have.
LEMMA LoopTyped ==
  ASSUME TypeOK
  PROVE  written.n \in Nat \ {0} /\ written.kind \in {"range", "keep", "batch"}
  BY LoopsAssumption DEF TypeOK

\* The barrier's part of the type invariant.
LEMMA BarrierTyped == (MeetingInv => B!TypeOK) /\ (MeetingInv' => B!TypeOK')
<1>1. B!Places = BP!Places
  BY DEF B!Places, BP!Places
<1> QED
  BY <1>1 DEF MeetingInv, BP!BInv, B!TypeOK, BP!TypeOK

\* Only so many threads can have merged.
LEMMA MergedFinite == IsFiniteSet(Merged) /\ Cardinality(Merged) \in Nat
<1>1. IsFiniteSet(Threads)
  BY NumThreadsAssumption, FS_Interval DEF Threads
<1> QED
  BY <1>1, FS_Subset, FS_CardinalityType DEF Merged

\* What a State reports is a number, and at most one incomplete batch too many.
LEMMA IterationsBounded ==
  ASSUME TypeOK, NEW t \in Threads, Counts(t)
  PROVE  /\ iterations(st[t]) \in Nat
         /\ iterations(st[t]) <= Iters + written.n - 1
<1>1. st[t] \in StateType
  BY DEF TypeOK, StateType
<1> QED
  BY <1>1, LoopTyped, ItersAssumption DEF Counts, iterations, StateType

\* Nothing has been counted.
LEMMA CountInitial == Init => CountInv
<1> SUFFICES ASSUME Init
             PROVE  CountInv
  OBVIOUS
<1>1. MeetingInv
  BY MeetingInitial
<1>2. TypeOK
  <2>1. NewState \in StateType
    BY ItersAssumption DEF NewState, StateType
  <2>2. B!TypeOK
    BY <1>1, BarrierTyped
  <2> QED
    BY <2>1, <2>2 DEF Init, TypeOK, StateType, NoResult
<1>3. \A t \in Threads : Counts(t)
  BY <1>2, LoopTyped DEF Init, Counts, NewState
<1>4. Merged = {}
  BY DEF Init, Merged
<1>5. AddsUp
  BY <1>2, <1>4, LoopTyped, ItersAssumption, FS_EmptySet DEF AddsUp, Init, NoResult
<1> QED
  BY <1>1, <1>2, <1>3, <1>5 DEF CountInv, Init

PlaceType == {"unspawned", "user", "startwait", "stopwait", "returned", "merged", "done"}

\* One thread that has not merged yet goes on; what the others brought stays.
LEMMA OneCounts ==
  ASSUME CountInv, MeetingInv', NEW t \in Threads,
         UNCHANGED <<written, joined>>, profiler' \in {"idle", "started", "stopped"},
         pc[t] \notin {"merged", "done"}, pc'[t] \notin {"merged", "done"},
         pc' \in [Threads -> PlaceType], loop' \in [Threads -> {"before", "body", "after"}],
         st' \in [Threads -> StateType],
         \A u \in Threads \ {t} : st'[u] = st[u] /\ pc'[u] = pc[u] /\ loop'[u] = loop[u],
         Counts(t)',
         results' \in [iterations : Nat, manual_time_used : Nat,
                       skipped_ : Skips \cup {"NotSkipped"},
                       skip_message_ : Threads \cup {NoMessage}],
         results'.iterations = results.iterations,
         results'.skipped_ = "NotSkipped" => results.skipped_ = "NotSkipped"
  PROVE  CountInv'
<1>1. TypeOK'
  <2>1. B!TypeOK'
    BY BarrierTyped
  <2> QED
    BY <2>1 DEF TypeOK, CountInv, StateType, PlaceType
<1>2. \A u \in Threads : Counts(u)'
  BY DEF CountInv, Counts
<1>3. Merged' = Merged
  BY DEF Merged
<1>4. \A u \in Merged : iterations(st'[u]) = iterations(st[u])
  BY DEF Merged, iterations
<1>5. AddsUp'
  BY <1>3, <1>4 DEF CountInv, AddsUp, iterations
<1>6. ~joined'
  BY DEF CountInv, AllDone
<1> QED
  BY <1>1, <1>2, <1>5, <1>6 DEF CountInv

\* The fields of one thread, read off the invariant.
LEMMA Counted ==
  ASSUME CountInv, NEW t \in Threads
  PROVE  /\ pc \in [Threads -> PlaceType] /\ loop \in [Threads -> {"before", "body", "after"}]
         /\ st \in [Threads -> StateType] /\ st[t] \in StateType
         /\ profiler \in {"idle", "started", "stopped"}
         /\ results \in [iterations : Nat, manual_time_used : Nat,
                         skipped_ : Skips \cup {"NotSkipped"},
                         skip_message_ : Threads \cup {NoMessage}]
         /\ written.n \in Nat \ {0} /\ written.kind \in {"range", "keep", "batch"}
         /\ Counts(t)
  BY LoopTyped DEF CountInv, TypeOK, StateType, PlaceType

\* One field of a State is assigned.
LEMMA FieldTyped ==
  ASSUME NEW s \in StateType
  PROVE  /\ \A n \in 0 .. Iters : [s EXCEPT !.total_iterations_ = n] \in StateType
         /\ \A n \in 0 .. Iters : [s EXCEPT !.cached_ = n] \in StateType
         /\ \A n \in Nat : [s EXCEPT !.batch_leftover_ = n] \in StateType
         /\ \A n \in Nat : [s EXCEPT !.manual_time_used_ = n] \in StateType
         /\ \A b \in BOOLEAN : [s EXCEPT !.started_ = b] \in StateType
         /\ \A b \in BOOLEAN : [s EXCEPT !.finished_ = b] \in StateType
         /\ \A b \in BOOLEAN : [s EXCEPT !.running_ = b] \in StateType
         /\ \A k \in Skips \cup {"NotSkipped"} : [s EXCEPT !.skipped_ = k] \in StateType
<1>1. \A n \in 0 .. Iters : [s EXCEPT !.total_iterations_ = n] \in StateType
  BY DEF StateType
<1>2. \A n \in 0 .. Iters : [s EXCEPT !.cached_ = n] \in StateType
  BY DEF StateType
<1>3. \A n \in Nat : [s EXCEPT !.batch_leftover_ = n] \in StateType
  BY DEF StateType
<1>4. \A n \in Nat : [s EXCEPT !.manual_time_used_ = n] \in StateType
  BY DEF StateType
<1>5. \A b \in BOOLEAN : [s EXCEPT !.started_ = b] \in StateType
  BY DEF StateType
<1>6. \A b \in BOOLEAN : [s EXCEPT !.finished_ = b] \in StateType
  BY DEF StateType
<1>7. \A b \in BOOLEAN : [s EXCEPT !.running_ = b] \in StateType
  BY DEF StateType
<1>8. \A k \in Skips \cup {"NotSkipped"} : [s EXCEPT !.skipped_ = k] \in StateType
  BY DEF StateType
<1> QED
  BY <1>1, <1>2, <1>3, <1>4, <1>5, <1>6, <1>7, <1>8

\* The test of the loop takes the iterations that there are, and in a batch a leftover.
LEMMA LoopTestCounts ==
  ASSUME CountInv, NEW t \in Threads, NEW s \in StateType, LoopTest(t, s), UNCHANGED written,
         s.batch_leftover_ = st[t].batch_leftover_,
         s.batch_leftover_ # 0 => s.total_iterations_ = 0
  PROVE  /\ pc' \in [Threads -> PlaceType] /\ loop' \in [Threads -> {"before", "body", "after"}]
         /\ st' \in [Threads -> StateType] /\ Counts(t)' /\ pc'[t] \in {"user", "stopwait"}
         /\ \A u \in Threads \ {t} : st'[u] = st[u] /\ pc'[u] = pc[u] /\ loop'[u] = loop[u]
<1>1. s.batch_leftover_ < written.n
  BY Counted DEF Counts
<1>2. CASE HasMore(s)
  <2> DEFINE taken == TakeIterations(s)
  <2>1. Go(t, taken, "user", "body")
    BY <1>2, Zenon DEF LoopTest
  <2>2. taken \in StateType
    <3>1. s.total_iterations_ \in 0 .. Iters
      BY DEF StateType
    <3>2. CASE written.kind = "range"
      BY <3>2 DEF TakeIterations
    <3>3. CASE written.kind # "range" /\ s.total_iterations_ >= written.n
      <4>1. s.total_iterations_ - written.n \in 0 .. Iters
        BY <3>1, <3>3, ItersAssumption, Counted
      <4> QED
        BY <3>3, <4>1, FieldTyped DEF TakeIterations
    <3>4. CASE written.kind # "range" /\ ~(s.total_iterations_ >= written.n)
      <4>1. written.n - s.total_iterations_ \in Nat /\ 0 \in 0 .. Iters
        BY <3>1, <3>4, ItersAssumption, Counted
      <4> DEFINE more == [s EXCEPT !.batch_leftover_ = written.n - s.total_iterations_]
      <4>2. taken = [more EXCEPT !.total_iterations_ = 0]
        BY <3>4 DEF TakeIterations
      <4>3. more \in StateType
        BY <4>1, FieldTyped
      <4> HIDE DEF more
      <4> QED
        BY <4>1, <4>2, <4>3, FieldTyped
    <3> QED
      BY <3>2, <3>3, <3>4
  <2>3. /\ taken.batch_leftover_ < written.n
        /\ taken.batch_leftover_ # 0 => taken.total_iterations_ = 0
        /\ taken.cached_ = s.cached_
    BY <1>1, <1>2, Counted DEF TakeIterations, StateType, HasMore
  <2>4. written.kind = "range" => s.cached_ # 0
    BY <1>2 DEF HasMore
  <2> HIDE DEF taken
  <2>5. /\ st'[t] = taken /\ pc'[t] = "user" /\ loop'[t] = "body"
        /\ pc' \in [Threads -> PlaceType] /\ loop' \in [Threads -> {"before", "body", "after"}]
        /\ st' \in [Threads -> StateType]
        /\ \A u \in Threads \ {t} : st'[u] = st[u] /\ pc'[u] = pc[u] /\ loop'[u] = loop[u]
    BY <2>1, <2>2, Counted DEF Go, PlaceType
  <2> QED
    BY <2>3, <2>4, <2>5 DEF Counts
<1>3. CASE ~HasMore(s)
  <2> DEFINE finished == FinishedState(s)
  <2>1. Go(t, finished, "stopwait", "body")
    BY <1>3, Zenon DEF LoopTest
  <2>2. finished \in StateType
    <3> DEFINE s1 == [s EXCEPT !.total_iterations_ = 0]
               s2 == [s1 EXCEPT !.finished_ = TRUE]
               on == IF skipped(s) THEN s2.running_ ELSE FALSE
    <3>1. finished = [s2 EXCEPT !.running_ = on]
      BY Zenon DEF FinishedState
    <3>2. s1 \in StateType
      BY FieldTyped, ItersAssumption
    <3> HIDE DEF s1
    <3>3. s2 \in StateType
      BY <3>2, FieldTyped
    <3> HIDE DEF s2
    <3>4. on \in BOOLEAN
      BY <3>3 DEF StateType
    <3> HIDE DEF on
    <3> QED
      BY <3>1, <3>3, <3>4, FieldTyped
  <2>3. finished.batch_leftover_ = s.batch_leftover_ /\ finished.total_iterations_ = 0
    BY DEF FinishedState, StateType
  <2> HIDE DEF finished
  <2>4. /\ st'[t] = finished /\ pc'[t] = "stopwait" /\ loop'[t] = "body"
        /\ pc' \in [Threads -> PlaceType] /\ loop' \in [Threads -> {"before", "body", "after"}]
        /\ st' \in [Threads -> StateType]
        /\ \A u \in Threads \ {t} : st'[u] = st[u] /\ pc'[u] = pc[u] /\ loop'[u] = loop[u]
    BY <2>1, <2>2, Counted DEF Go, PlaceType
  <2> QED
    BY <1>1, <2>3, <2>4 DEF Counts
<1> QED
  BY <1>2, <1>3

\* The steps of the loop.
LEMMA LoopStepsCount ==
  ASSUME CountInv, MeetingInv', NEW t \in Threads,
         StartKeepRunning(t) \/ NextIteration(t) \/ PassStart(t) \/ PassStop(t)
  PROVE  CountInv'
<1>1. CASE StartKeepRunning(t)
  <2> DEFINE left == IF skipped(st[t]) THEN 0 ELSE Iters
             count == IF written.kind = "range" THEN left ELSE 0
             s1 == [st[t] EXCEPT !.started_ = TRUE]
             s2 == [s1 EXCEPT !.total_iterations_ = left]
             s == [s2 EXCEPT !.cached_ = count]
  <2>1. Go(t, s, "startwait", "before")
    BY <1>1, Zenon DEF StartKeepRunning
  <2>2. UNCHANGED <<written, joined, results>> /\ pc[t] = "user" /\ loop[t] = "before"
    BY <1>1 DEF StartKeepRunning, InUser, Own
  <2>3. profiler' \in {"idle", "started", "stopped"}
    BY <1>1, Counted DEF StartKeepRunning
  <2>4. left \in 0 .. Iters /\ count \in 0 .. Iters
    BY ItersAssumption
  <2>5. st[t].batch_leftover_ = 0
    BY <2>2, Counted DEF Counts
  <2> HIDE DEF left, count
  <2>6. s1 \in StateType /\ s1.batch_leftover_ = st[t].batch_leftover_
    <3>1. s1 \in StateType
      BY Counted, FieldTyped
    <3>2. s1.batch_leftover_ = st[t].batch_leftover_
      BY Counted DEF StateType
    <3> QED
      BY <3>1, <3>2
  <2> HIDE DEF s1
  <2>7. s2 \in StateType /\ s2.batch_leftover_ = s1.batch_leftover_
    BY <2>4, <2>6, FieldTyped DEF StateType
  <2> HIDE DEF s2
  <2>8. s \in StateType /\ s.batch_leftover_ = 0
    BY <2>4, <2>5, <2>6, <2>7, FieldTyped DEF StateType
  <2> HIDE DEF s
  <2>9. /\ st'[t] = s /\ pc'[t] = "startwait" /\ loop'[t] = "before"
        /\ pc' \in [Threads -> PlaceType] /\ loop' \in [Threads -> {"before", "body", "after"}]
        /\ st' \in [Threads -> StateType]
        /\ \A u \in Threads \ {t} : st'[u] = st[u] /\ pc'[u] = pc[u] /\ loop'[u] = loop[u]
    BY <2>1, <2>8, Counted DEF Go, PlaceType
  <2>10. Counts(t)'
    BY <2>2, <2>8, <2>9, Counted DEF Counts
  <2> QED
    BY <2>2, <2>3, <2>9, <2>10, Counted, OneCounts
<1>2. CASE NextIteration(t)
  <2> DEFINE s == IF written.kind = "range" THEN [st[t] EXCEPT !.cached_ = @ - 1] ELSE st[t]
  <2>1. LoopTest(t, s)
    BY <1>2, Zenon DEF NextIteration
  <2>2. UNCHANGED <<written, joined, results, profiler>> /\ pc[t] = "user" /\ loop[t] = "body"
    BY <1>2 DEF NextIteration, InUser, Own
  <2>3. s \in StateType
    <3>1. CASE written.kind = "range"
      <4>1. st[t].cached_ \in 0 .. Iters /\ st[t].cached_ # 0
        BY <2>2, <3>1, Counted DEF Counts, StateType
      <4>2. st[t].cached_ - 1 \in 0 .. Iters
        BY <4>1, ItersAssumption
      <4> QED
        BY <3>1, <4>2, Counted, FieldTyped
    <3>2. CASE written.kind # "range"
      BY <3>2, Counted
    <3> QED
      BY <3>1, <3>2
  <2>4. /\ s.batch_leftover_ = st[t].batch_leftover_
        /\ s.total_iterations_ = st[t].total_iterations_
    BY Counted DEF StateType
  <2>5. s.batch_leftover_ # 0 => s.total_iterations_ = 0
    BY <2>4, Counted DEF Counts
  <2> HIDE DEF s
  <2>6. /\ pc' \in [Threads -> PlaceType] /\ loop' \in [Threads -> {"before", "body", "after"}]
        /\ st' \in [Threads -> StateType] /\ Counts(t)' /\ pc'[t] \in {"user", "stopwait"}
        /\ \A u \in Threads \ {t} : st'[u] = st[u] /\ pc'[u] = pc[u] /\ loop'[u] = loop[u]
    BY <2>1, <2>2, <2>3, <2>4, <2>5, LoopTestCounts
  <2> QED
    BY <2>2, <2>6, Counted, OneCounts
<1>3. CASE PassStart(t)
  <2> DEFINE s == [st[t] EXCEPT !.running_ = ~skipped(st[t])]
  <2>1. LoopTest(t, s)
    BY <1>3, Zenon DEF PassStart
  <2>2. UNCHANGED <<written, joined, results, profiler>> /\ pc[t] = "startwait"
    BY <1>3 DEF PassStart, Own
  <2>3. (~skipped(st[t])) \in BOOLEAN
    BY DEF skipped
  <2>4. s \in StateType
    BY <2>3, Counted, FieldTyped
  <2>5. /\ s.batch_leftover_ = st[t].batch_leftover_
        /\ s.total_iterations_ = st[t].total_iterations_
    BY Counted DEF StateType
  <2>6. s.batch_leftover_ # 0 => s.total_iterations_ = 0
    BY <2>5, Counted DEF Counts
  <2> HIDE DEF s
  <2>7. /\ pc' \in [Threads -> PlaceType] /\ loop' \in [Threads -> {"before", "body", "after"}]
        /\ st' \in [Threads -> StateType] /\ Counts(t)' /\ pc'[t] \in {"user", "stopwait"}
        /\ \A u \in Threads \ {t} : st'[u] = st[u] /\ pc'[u] = pc[u] /\ loop'[u] = loop[u]
    BY <2>1, <2>2, <2>4, <2>5, <2>6, LoopTestCounts
  <2> QED
    BY <2>2, <2>7, Counted, OneCounts
<1>4. CASE PassStop(t)
  <2>1. /\ st' = [st EXCEPT ![t] = st[t]] /\ pc' = [pc EXCEPT ![t] = "user"]
        /\ loop' = [loop EXCEPT ![t] = "after"]
        /\ UNCHANGED <<written, joined, results>> /\ pc[t] = "stopwait"
        /\ profiler' \in {"idle", "started", "stopped"}
    BY <1>4, Counted DEF PassStop, Go, Own
  <2>2. /\ pc' \in [Threads -> PlaceType] /\ loop' \in [Threads -> {"before", "body", "after"}]
        /\ st' = st /\ pc'[t] = "user" /\ loop'[t] = "after"
        /\ \A u \in Threads \ {t} : pc'[u] = pc[u] /\ loop'[u] = loop[u]
    BY <2>1, Counted DEF PlaceType
  <2>3. Counts(t)'
    BY <2>1, <2>2, Counted DEF Counts
  <2> QED
    BY <2>1, <2>2, <2>3, Counted, OneCounts
<1> QED
  BY <1>1, <1>2, <1>3, <1>4

\* A thread whose State changes in nothing that is counted.
LEMMA StateCounts ==
  ASSUME CountInv, MeetingInv', NEW t \in Threads, NEW s \in StateType,
         st' = [st EXCEPT ![t] = s], UNCHANGED <<written, joined, pc, loop, profiler>>,
         pc[t] \in {"user", "returned"},
         s.batch_leftover_ = st[t].batch_leftover_, s.cached_ = st[t].cached_,
         s.total_iterations_ \in {0, st[t].total_iterations_},
         results' \in [iterations : Nat, manual_time_used : Nat,
                       skipped_ : Skips \cup {"NotSkipped"},
                       skip_message_ : Threads \cup {NoMessage}],
         results'.iterations = results.iterations,
         results'.skipped_ = "NotSkipped" => results.skipped_ = "NotSkipped"
  PROVE  CountInv'
<1>1. /\ st' \in [Threads -> StateType] /\ st'[t] = s
      /\ \A u \in Threads \ {t} : st'[u] = st[u]
  BY Counted
<1>2. Counts(t)'
  BY <1>1, Counted DEF Counts
<1> QED
  BY <1>1, <1>2, Counted, OneCounts

\* The timer and the time a benchmark sets itself are not counted.
LEMMA TimerCounts ==
  ASSUME CountInv, MeetingInv', NEW t \in Threads,
         PauseTiming(t) \/ ResumeTiming(t) \/ SetIterationTime(t)
  PROVE  CountInv'
<1>1. /\ UNCHANGED <<written, joined, pc, loop, profiler, results>> /\ pc[t] = "user"
  BY DEF PauseTiming, ResumeTiming, SetIterationTime, InUser, Own
<1>2. CASE PauseTiming(t)
  <2> DEFINE s == [st[t] EXCEPT !.running_ = FALSE]
  <2>1. st' = [st EXCEPT ![t] = s]
    BY <1>2, Zenon DEF PauseTiming
  <2>2. s \in StateType
    BY Counted, FieldTyped
  <2>3. /\ s.batch_leftover_ = st[t].batch_leftover_
        /\ s.cached_ = st[t].cached_ /\ s.total_iterations_ = st[t].total_iterations_
    BY Counted DEF StateType
  <2> HIDE DEF s
  <2> QED
    BY <1>1, <2>1, <2>2, <2>3, Counted, StateCounts
<1>3. CASE ResumeTiming(t)
  <2> DEFINE s == [st[t] EXCEPT !.running_ = TRUE]
  <2>1. st' = [st EXCEPT ![t] = s]
    BY <1>3, Zenon DEF ResumeTiming
  <2>2. s \in StateType
    BY Counted, FieldTyped
  <2>3. /\ s.batch_leftover_ = st[t].batch_leftover_
        /\ s.cached_ = st[t].cached_ /\ s.total_iterations_ = st[t].total_iterations_
    BY Counted DEF StateType
  <2> HIDE DEF s
  <2> QED
    BY <1>1, <2>1, <2>2, <2>3, Counted, StateCounts
<1>4. CASE SetIterationTime(t)
  <2> DEFINE s == [st[t] EXCEPT !.manual_time_used_ = @ + 1]
  <2>1. st' = [st EXCEPT ![t] = s]
    BY <1>4, Zenon DEF SetIterationTime
  <2>2. st[t].manual_time_used_ + 1 \in Nat
    BY Counted DEF StateType
  <2>3. s \in StateType
    BY <2>2, Counted, FieldTyped
  <2>4. /\ s.batch_leftover_ = st[t].batch_leftover_
        /\ s.cached_ = st[t].cached_ /\ s.total_iterations_ = st[t].total_iterations_
    BY Counted DEF StateType
  <2> HIDE DEF s
  <2> QED
    BY <1>1, <2>1, <2>3, <2>4, Counted, StateCounts
<1> QED
  BY <1>2, <1>3, <1>4

\* After a skip the results need not add up any more.
LEMMA SkipCounts ==
  ASSUME CountInv, MeetingInv', NEW t \in Threads, NEW kind \in Skips, Skip(t, kind),
         UNCHANGED <<written, joined, pc, loop, profiler>>, pc[t] \in {"user", "returned"}
  PROVE  CountInv'
<1> DEFINE s1 == [st[t] EXCEPT !.skipped_ = kind]
           s2 == [s1 EXCEPT !.total_iterations_ = 0]
           s == [s2 EXCEPT !.running_ = FALSE]
<1>1. st' = [st EXCEPT ![t] = s]
  BY Zenon DEF Skip
<1>2. /\ s1 \in StateType /\ s1.batch_leftover_ = st[t].batch_leftover_
      /\ s1.cached_ = st[t].cached_
  BY Counted, FieldTyped DEF StateType
<1> HIDE DEF s1
<1>3. /\ s2 \in StateType /\ s2.batch_leftover_ = st[t].batch_leftover_
      /\ s2.cached_ = st[t].cached_ /\ s2.total_iterations_ = 0
  BY <1>2, FieldTyped, ItersAssumption DEF StateType
<1> HIDE DEF s2
<1>4. s \in StateType
  BY <1>3, FieldTyped
<1>5. /\ s.batch_leftover_ = st[t].batch_leftover_
      /\ s.cached_ = st[t].cached_ /\ s.total_iterations_ = 0
  BY <1>3 DEF StateType
<1> HIDE DEF s
<1>6. /\ results' \in [iterations : Nat, manual_time_used : Nat,
                       skipped_ : Skips \cup {"NotSkipped"},
                       skip_message_ : Threads \cup {NoMessage}]
      /\ results'.iterations = results.iterations
      /\ results'.skipped_ # "NotSkipped"
  BY Counted DEF Skip, Skips
<1> QED
  BY <1>1, <1>4, <1>5, <1>6, StateCounts

\* A thread merges: it brings what was asked for, unless it has skipped.
LEMMA MergeCounts ==
  ASSUME CountInv, MeetingInv', NEW t \in Threads, Merge(t)
  PROVE  CountInv'
<1> DEFINE mine == iterations(st[t])
           now == results.iterations + mine
           timed == results.manual_time_used + st[t].manual_time_used_
<1>1. /\ pc[t] = "returned" /\ RanOrSkipped(st[t]) /\ pc' = [pc EXCEPT ![t] = "merged"]
      /\ UNCHANGED <<written, joined, loop, st, profiler>>
      /\ results' = [results EXCEPT !.iterations = now, !.manual_time_used = timed]
  BY Zenon DEF Merge, Own
<1>2. mine \in Nat /\ mine <= Iters + written.n - 1 /\ st[t].manual_time_used_ \in Nat
  BY IterationsBounded, Counted DEF CountInv, StateType
<1>3. now \in Nat /\ timed \in Nat
  BY <1>2, Counted
<1>4. now = results.iterations + mine
  OBVIOUS
<1>5. skipped(st[t]) \/ mine >= Iters
  BY <1>1 DEF RanOrSkipped
<1> HIDE DEF mine, now, timed
<1>6. /\ results' \in [iterations : Nat, manual_time_used : Nat,
                       skipped_ : Skips \cup {"NotSkipped"},
                       skip_message_ : Threads \cup {NoMessage}]
      /\ results'.iterations = now /\ results'.skipped_ = results.skipped_
  BY <1>1, <1>3, Counted
<1>7. /\ pc' \in [Threads -> PlaceType] /\ pc'[t] = "merged"
      /\ \A u \in Threads \ {t} : pc'[u] = pc[u]
  BY <1>1, Counted DEF PlaceType
<1>8. TypeOK'
  <2>1. B!TypeOK'
    BY BarrierTyped
  <2> QED
    BY <1>1, <1>6, <1>7, <2>1 DEF CountInv, TypeOK, PlaceType
<1>9. \A u \in Threads : Counts(u)'
  BY <1>1, <1>7 DEF CountInv, Counts
<1>10. Merged' = Merged \cup {t} /\ t \notin Merged
  BY <1>1, <1>7 DEF Merged
<1>11. Cardinality(Merged') = Cardinality(Merged) + 1
  BY <1>10, MergedFinite, FS_AddElement
<1>12. AddsUp'
  <2> SUFFICES ASSUME results.skipped_ = "NotSkipped"
               PROVE  /\ \A u \in Merged' : iterations(st[u]) >= Iters
                      /\ Cardinality(Merged') * Iters <= now
                      /\ now <= Cardinality(Merged') * (Iters + written.n - 1)
    BY <1>1, <1>6 DEF AddsUp, iterations
  <2>1. ~skipped(st[t])
    BY DEF CountInv, MeetingInv, ThreadInv, OneSkip
  <2>2. mine >= Iters
    BY <1>5, <2>1
  <2>3. \A u \in Merged' : iterations(st[u]) >= Iters
    BY <1>10, <2>2 DEF CountInv, AddsUp, mine
  <2> DEFINE c == Cardinality(Merged)
             most == Iters + written.n - 1
  <2>4. c \in Nat /\ most \in Nat /\ Iters \in Nat
    BY MergedFinite, Counted, ItersAssumption
  <2>5. c * Iters <= results.iterations /\ results.iterations <= c * most
    BY DEF CountInv, AddsUp
  <2>6. mine <= most
    BY <1>2
  <2> HIDE DEF c, most
  <2>7. (c + 1) * Iters = c * Iters + Iters /\ (c + 1) * most = c * most + most
    BY <2>4
  <2>8. c * Iters \in Nat /\ c * most \in Nat /\ results.iterations \in Nat
    BY <2>4, Counted
  <2>9. (c + 1) * Iters <= now /\ now <= (c + 1) * most
    BY <1>2, <1>4, <2>2, <2>4, <2>5, <2>6, <2>7, <2>8
  <2> QED
    BY <1>11, <2>3, <2>9 DEF c, most
<1>13. ~joined'
  BY <1>1 DEF CountInv, AllDone
<1> QED
  BY <1>8, <1>9, <1>12, <1>13 DEF CountInv

\* A step after which the same threads have merged, with the same States and results.
LEMMA NothingCounts ==
  ASSUME CountInv, MeetingInv', UNCHANGED <<written, loop, st, results, profiler>>,
         pc' \in [Threads -> PlaceType], joined' \in BOOLEAN, joined' => AllDone',
         \A u \in Threads : pc'[u] = pc[u] \/ {pc[u], pc'[u]} \subseteq {"merged", "done"}
  PROVE  CountInv'
<1>1. TypeOK'
  <2>1. B!TypeOK'
    BY BarrierTyped
  <2> QED
    BY <2>1 DEF CountInv, TypeOK, PlaceType
<1>2. Merged' = Merged
  BY DEF Merged
<1>3. AddsUp'
  BY <1>2 DEF CountInv, AddsUp, iterations
<1>4. \A u \in Threads : Counts(u)'
  BY DEF CountInv, Counts
<1> QED
  BY <1>1, <1>3, <1>4 DEF CountInv

\* Every step keeps the count.
THEOREM CountInductive == CountInv /\ [Next]_vars => CountInv'
<1> SUFFICES ASSUME CountInv, [Next]_vars
             PROVE  CountInv'
  OBVIOUS
<1>1. MeetingInv'
  BY MeetingInductive DEF CountInv
<1>2. ASSUME NEW t \in Threads, Spawn(t) \/ Return(t)
      PROVE  CountInv'
  <2>1. /\ UNCHANGED <<written, joined, loop, st, results, profiler>>
        /\ pc' \in [Threads -> PlaceType] /\ \A u \in Threads \ {t} : pc'[u] = pc[u]
        /\ pc[t] \in {"unspawned", "user"} /\ pc'[t] \in {"user", "returned"}
        /\ pc[t] = "unspawned" => pc'[t] = "user" /\ loop[t] # "body"
        /\ pc[t] = "user" => pc'[t] = "returned"
    <3>1. pc[t] = "unspawned" => loop[t] # "body"
      BY Counted DEF Counts
    <3>2. CASE Spawn(t)
      BY <3>1, <3>2, Counted DEF Spawn, Own, PlaceType
    <3>3. CASE Return(t)
      BY <3>1, <3>3, Counted DEF Return, InUser, Own, PlaceType
    <3> QED
      BY <1>2, <3>2, <3>3
  <2>2. Counts(t)'
    BY <2>1, Counted DEF Counts
  <2> QED
    BY <1>1, <2>1, <2>2, Counted, OneCounts
<1>3. ASSUME NEW t \in Threads, UserSkips(t)
      PROVE  CountInv'
  <2> PICK kind \in UserSkipKinds : Skip(t, kind)
    BY <1>3 DEF UserSkips
  <2>1. /\ kind \in Skips /\ UNCHANGED <<written, joined, pc, loop, profiler>>
        /\ pc[t] = "user"
    BY <1>3, SkipKindsAssumption DEF UserSkips, InUser, Own
  <2> QED
    BY <1>1, <2>1, SkipCounts
<1>4. ASSUME NEW t \in Threads, DidNotRun(t)
      PROVE  CountInv'
  <2>1. /\ "SkippedWithError" \in Skips /\ Skip(t, "SkippedWithError")
        /\ UNCHANGED <<written, joined, pc, loop, profiler>> /\ pc[t] = "returned"
    BY <1>4 DEF DidNotRun, Skips, Own
  <2> QED
    BY <1>1, <2>1, SkipCounts
<1>5. ASSUME NEW t \in Threads, NotifyThreadComplete(t)
      PROVE  CountInv'
  <2>1. /\ UNCHANGED <<written, joined, loop, st, results, profiler>> /\ pc[t] = "merged"
        /\ pc' \in [Threads -> PlaceType] /\ pc'[t] = "done"
        /\ \A u \in Threads \ {t} : pc'[u] = pc[u]
    BY <1>5, Counted DEF NotifyThreadComplete, Own, PlaceType
  <2>2. joined' \in BOOLEAN /\ ~joined'
    BY <2>1 DEF CountInv, AllDone, TypeOK
  <2> QED
    BY <1>1, <2>1, <2>2, NothingCounts
<1>6. CASE UNCHANGED <<written, pc, loop, st, results, profiler>> /\ (joined' = joined \/ Join)
  <2>1. joined \in BOOLEAN /\ (joined => AllDone)
    BY DEF CountInv, TypeOK
  <2>2. pc' = pc /\ (AllDone' <=> AllDone)
    BY <1>6 DEF AllDone
  <2>3. joined' = joined \/ (joined' = TRUE /\ AllDone)
    BY <1>6 DEF Join
  <2>4. joined' \in BOOLEAN /\ (joined' => AllDone')
    <3>1. CASE joined' = joined
      BY <2>1, <2>2, <3>1
    <3>2. CASE joined' = TRUE /\ AllDone
      BY <2>2, <3>2
    <3> QED
      BY <2>3, <3>1, <3>2
  <2>5. pc' \in [Threads -> PlaceType]
    BY <2>2 DEF CountInv, TypeOK, PlaceType
  <2> QED
    BY <1>1, <1>6, <2>2, <2>4, <2>5, NothingCounts
<1>7. ASSUME NEW t \in Threads, EnterBarrier(t) \/ StayInBarrier(t) \/ BecomeLast(t)
      PROVE  CountInv'
  <2>1. UNCHANGED <<written, joined, pc, loop, st, results, profiler>>
    BY <1>7 DEF EnterBarrier, StayInBarrier, BecomeLast, InBarrier, Own
  <2> QED
    BY <1>6, <2>1
<1>8. CASE Join \/ Finished \/ UNCHANGED vars
  <2>1. CASE Join
    BY <1>6, <2>1 DEF Join
  <2>2. CASE Finished \/ UNCHANGED vars
    BY <1>6, <2>2 DEF Finished, vars
  <2> QED
    BY <1>8, <2>1, <2>2
<1>9. ASSUME NEW t \in Threads, Spawn(t) \/ UserStep(t) \/ BarrierStep(t) \/ Tail(t)
      PROVE  CountInv'
  BY <1>1, <1>2, <1>3, <1>4, <1>5, <1>7, <1>9, LoopStepsCount, TimerCounts, MergeCounts
     DEF UserStep, BarrierStep, Tail
<1> QED
  BY <1>8, <1>9 DEF Next

\* The invariant, of the behaviours.
LEMMA CountInvariant == Spec => []CountInv
  BY CountInitial, CountInductive, PTL DEF Spec

\* Type correctness of a run, the barrier in it included, for every number of threads.
THEOREM ThreadRunTypeCorrect == Spec => []TypeOK
  BY CountInvariant, PTL DEF CountInv

\* An average lies between two bounds if the sum lies between their multiples.
LEMMA AverageBounds ==
  ASSUME NEW n \in Nat \ {0}, NEW sum \in Nat, NEW low \in Nat, NEW high \in Nat,
         n * low <= sum, sum <= n * high
  PROVE  low <= sum \div n /\ sum \div n <= high
<1> DEFINE q == sum \div n
           r == sum % n
<1>1. q \in Nat /\ r \in 0 .. n - 1 /\ sum = n * q + r
  OBVIOUS
<1> HIDE DEF q, r
<1>2. ASSUME q < low
      PROVE  FALSE
  <2>1. n * low = n * q + n * (low - q) /\ n * (low - q) >= n
    BY <1>1, <1>2
  <2> QED
    BY <1>1, <2>1
<1>3. ASSUME high < q
      PROVE  FALSE
  <2>1. n * q = n * high + n * (q - high) /\ n * (q - high) >= n
    BY <1>1, <1>3
  <2> QED
    BY <1>1, <2>1
<1> QED
  BY <1>1, <1>2, <1>3 DEF q

\* When all the threads have been joined, all have merged.
LEMMA CountComplete == CountInv => CompleteUnlessSkipped
<1> SUFFICES ASSUME CountInv, joined, results.skipped_ = "NotSkipped"
             PROVE  /\ \A t \in Threads : iterations(st[t]) >= Iters
                    /\ Iters <= iters /\ iters < Iters + written.n
  BY DEF CompleteUnlessSkipped
<1>1. Merged = Threads
  BY DEF CountInv, AllDone, Merged
<1>2. Cardinality(Threads) = NumThreads
  BY NumThreadsAssumption, FS_Interval DEF Threads
<1>3. /\ \A t \in Threads : iterations(st[t]) >= Iters
      /\ NumThreads * Iters <= results.iterations
      /\ results.iterations <= NumThreads * (Iters + written.n - 1)
  BY <1>1, <1>2 DEF CountInv, AddsUp
<1>4. results.iterations \in Nat /\ written.n \in Nat \ {0}
  BY LoopTyped DEF CountInv, TypeOK
<1>5. /\ NumThreads \in Nat \ {0} /\ Iters \in Nat /\ Iters + written.n - 1 \in Nat
  BY <1>4, ItersAssumption, NumThreadsAssumption
<1>6. Iters <= iters /\ iters <= Iters + written.n - 1
  BY <1>3, <1>4, <1>5, AverageBounds DEF iters
<1>7. iters \in Int
  BY <1>4, <1>5 DEF iters
<1> QED
  BY <1>3, <1>4, <1>5, <1>6, <1>7

\* A run that is not reported as skipped did what was asked, in every thread, and the
\* average that is reported overshoots by less than one batch: for every number of
\* threads and iterations and every size of a batch.
THEOREM CompleteCorrect == Spec => []CompleteUnlessSkipped
  BY CountInvariant, CountComplete, PTL
================================================================================
