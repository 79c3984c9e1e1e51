------------------------------ MODULE ThreadRun ------------------------------
(***************************************************************************)
(* One call of BenchmarkRunner::DoNIterations: ThreadRunnerDefault starts  *)
(* the threads, each runs RunInThread, which calls the user's benchmark    *)
(* with a State of its own; the States meet at the start/stop barrier (the *)
(* module Barrier, composed here) and merge into the ThreadManager's       *)
(* results under the benchmark mutex.                                      *)
(*                                                                         *)
(* The user's function is the environment: it may call any State operation *)
(* at any point where the header's REQUIRES allows it. pc[t] is            *)
(*   unspawned   std::thread not created yet (thread 0 is the caller)      *)
(*   user        in the user's function; loop[t] says before, in the body  *)
(*               of, or after the benchmark loop                           *)
(*   startwait, stopwait   in the barrier of StartKeepRunning or of        *)
(*               FinishKeepRunning                                         *)
(*   returned, merged, done   the tail of RunInThread                      *)
(***************************************************************************)
EXTENDS Integers, FiniteSets

CONSTANTS
  NumThreads,    \* b.threads()
  Iters,         \* max_iterations of every State
  Loops,         \* the loops a benchmark may be written with: [kind, n]
  ManualTimers,  \* the threads that call SetIterationTime(1) in each iteration
  UserSkipKinds, \* how the benchmark may skip: with a message, with an error
  HasProfiler,   \* RunInThread is given a profiler manager
  MayBreak       \* the benchmark may leave its loop without skipping

ASSUME NumThreadsAssumption == NumThreads \in Nat \ {0}
ASSUME ItersAssumption == Iters \in Nat \ {0}
ASSUME ManualTimersAssumption == ManualTimers \subseteq 0 .. NumThreads - 1
ASSUME LoopsAssumption ==
  Loops \subseteq [kind : {"range", "keep", "batch"}, n : Nat \ {0}]
ASSUME SwitchAssumption == {HasProfiler, MayBreak} \subseteq BOOLEAN

Threads == 0 .. NumThreads - 1

Skips == {"SkippedWithMessage", "SkippedWithError"}

ASSUME SkipKindsAssumption == UserSkipKinds \subseteq Skips

VARIABLES
  written,    \* how the benchmark's loop is written, the same for all threads
  pc, loop,
  st,         \* the State, the ThreadTimer and the loop iterator of each thread
  results,    \* ThreadManager::Result, guarded by the benchmark mutex
  profiler,   \* calls seen by the profiler manager
  joined,     \* RunThreads has returned: DoNIterations reads the results
  running_threads_, phase_number_, entered_, at, phase_number_cp

barrierVars == <<running_threads_, phase_number_, entered_, at, phase_number_cp>>
vars == <<written, pc, loop, st, results, profiler, joined, barrierVars>>

\* A thread passes at most two phases, so the bound of Barrier is never reached.
B == INSTANCE Barrier WITH Threads <- Threads, MaxPhase <- 3

-----------------------------------------------------------------------------
NewState ==
  [ total_iterations_ |-> 0, batch_leftover_ |-> 0, started_ |-> FALSE,
    finished_ |-> FALSE, skipped_ |-> "NotSkipped", cached_ |-> 0,
    running_ |-> FALSE, manual_time_used_ |-> 0 ]

\* A skip message is named by the thread that gave it.
NoMessage == -1

NoResult ==
  [ iterations |-> 0, manual_time_used |-> 0, skipped_ |-> "NotSkipped",
    skip_message_ |-> NoMessage ]

Init ==
  /\ written \in Loops
  /\ pc = [t \in Threads |-> "unspawned"]
  /\ loop = [t \in Threads |-> "before"]
  /\ st = [t \in Threads |-> NewState]
  /\ results = NoResult
  /\ profiler = "idle"
  /\ joined = FALSE
  /\ B!Init

skipped(s) == s.skipped_ # "NotSkipped"

iterations(s) ==
  IF s.started_ THEN Iters - s.total_iterations_ + s.batch_leftover_ ELSE 0

\* Thread t moves on with the State s.
Go(t, s, where, inLoop) ==
  /\ st' = [st EXCEPT ![t] = s]
  /\ pc' = [pc EXCEPT ![t] = where]
  /\ loop' = [loop EXCEPT ![t] = inLoop]

Own == <<written, joined>>

-----------------------------------------------------------------------------
(* ThreadRunnerDefault::RunThreads: the pool first, in order, then fn(0).  *)

Spawn(t) ==
  /\ pc[t] = "unspawned"
  /\ \A u \in Threads :
       pc[u] = "unspawned" => IF t = 0 THEN u = 0 ELSE u = 0 \/ u >= t
  /\ pc' = [pc EXCEPT ![t] = "user"]
  /\ UNCHANGED <<Own, loop, st, results, profiler, barrierVars>>

-----------------------------------------------------------------------------
(* The loop: KeepRunning, KeepRunningBatch and the StateIterator.          *)

InUser(t) == pc[t] = "user"

\* Bug variant: a State that was skipped before the loop does not meet the others.
StartWithoutBarrierIfSkipped(t) ==
  /\ InUser(t)
  /\ loop[t] = "before"
  /\ LET s == st[t]
         left == IF skipped(s) THEN 0 ELSE Iters
         begun == [s EXCEPT !.started_ = TRUE, !.total_iterations_ = left,
                            !.cached_ = left]
     IN  Go(t, begun, IF skipped(s) THEN "stopwait" ELSE "startwait", "before")
  /\ profiler' = IF HasProfiler THEN "started" ELSE profiler
  /\ UNCHANGED <<Own, results, barrierVars>>

\* The first call of KeepRunning, or begin() and end(): up to the start barrier.
StartKeepRunning(t) ==
  /\ InUser(t)
  /\ loop[t] = "before"
  /\ LET s == st[t]
         left == IF skipped(s) THEN 0 ELSE Iters
     IN  Go(t, [s EXCEPT !.started_ = TRUE, !.total_iterations_ = left,
                         !.cached_ = IF written.kind = "range" THEN left ELSE 0],
            "startwait", "before")
  /\ profiler' = IF HasProfiler THEN "started" ELSE profiler
  /\ UNCHANGED <<Own, results, barrierVars>>

\* Does the loop go on? An iterator compares its own count; KeepRunning needs a
\* whole step of n, or, in a batch, anything at all.
HasMore(s) ==
  IF written.kind = "range" THEN s.cached_ # 0
  ELSE \/ s.total_iterations_ >= written.n
       \/ written.kind = "batch" /\ s.total_iterations_ # 0

\* Bug variant: a batch that does not fit is taken like one that does.
TakeIterationsWithoutLeftover(s) ==
  IF written.kind = "range" THEN s ELSE [s EXCEPT !.total_iterations_ = @ - written.n]

\* KeepRunning returns true: it takes n iterations, or what is left and a leftover.
TakeIterations(s) ==
  IF written.kind = "range" THEN s
  ELSE IF s.total_iterations_ >= written.n
  THEN [s EXCEPT !.total_iterations_ = @ - written.n]
  ELSE [s EXCEPT !.batch_leftover_ = written.n - s.total_iterations_,
                 !.total_iterations_ = 0]

\* Bug variant: the timer is left running.
FinishedStateTimed(s) == [s EXCEPT !.total_iterations_ = 0, !.finished_ = TRUE]

\* FinishKeepRunning up to its barrier. PauseTiming stops the timer.
FinishedState(s) ==
  [s EXCEPT !.total_iterations_ = 0, !.finished_ = TRUE,
            !.running_ = IF skipped(s) THEN @ ELSE FALSE]

\* Into the body, or out through FinishKeepRunning.
LoopTest(t, s) ==
  IF HasMore(s) THEN Go(t, TakeIterations(s), "user", "body")
  ELSE Go(t, FinishedState(s), "stopwait", "body")

NextIteration(t) ==
  /\ InUser(t)
  /\ loop[t] = "body"
  /\ skipped(st[t]) \/ st[t].running_
  /\ LoopTest(t, IF written.kind = "range" THEN [st[t] EXCEPT !.cached_ = @ - 1]
                 ELSE st[t])
  /\ UNCHANGED <<Own, results, profiler, barrierVars>>

-----------------------------------------------------------------------------
(* The barrier calls of StartKeepRunning and FinishKeepRunning.            *)

InBarrier(t) ==
  /\ pc[t] \in {"startwait", "stopwait"}
  /\ UNCHANGED <<Own, pc, loop, st, results, profiler>>

EnterBarrier(t) == InBarrier(t) /\ (B!EnterAndWait(t) \/ B!EnterAsLast(t))

StayInBarrier(t) == InBarrier(t) /\ (B!SpuriousWakeup(t) \/ B!SleepAgain(t))

\* The threads that are missing have been removed.
BecomeLast(t) == InBarrier(t) /\ B!TakeOver(t)

WaitReturns(t) == B!NotifyAndReturn(t) \/ B!ReturnReleased(t)

\* The rest of StartKeepRunning (ResumeTiming), and the loop's first test.
PassStart(t) ==
  /\ pc[t] = "startwait"
  /\ WaitReturns(t)
  /\ LoopTest(t, [st[t] EXCEPT !.running_ = ~skipped(st[t])])
  /\ UNCHANGED <<Own, results, profiler>>

\* The rest of FinishKeepRunning; KeepRunning returns false.
PassStop(t) ==
  /\ pc[t] = "stopwait"
  /\ WaitReturns(t)
  /\ Go(t, st[t], "user", "after")
  /\ profiler' = IF HasProfiler THEN "stopped" ELSE profiler
  /\ UNCHANGED <<Own, results>>

-----------------------------------------------------------------------------
(* What else the user's function may call.                                 *)

PauseTiming(t) ==
  /\ InUser(t)
  /\ loop[t] = "body"
  /\ ~skipped(st[t]) /\ st[t].running_
  /\ st' = [st EXCEPT ![t].running_ = FALSE]
  /\ UNCHANGED <<Own, pc, loop, results, profiler, barrierVars>>

ResumeTiming(t) ==
  /\ InUser(t)
  /\ loop[t] = "body"
  /\ ~skipped(st[t]) /\ ~st[t].running_
  /\ st' = [st EXCEPT ![t].running_ = TRUE]
  /\ UNCHANGED <<Own, pc, loop, results, profiler, barrierVars>>

\* Iterations whose body has begun.
Begun(s) ==
  IF written.kind = "range" THEN Iters - s.cached_ + 1 ELSE iterations(s)

SetIterationTime(t) ==
  /\ t \in ManualTimers
  /\ InUser(t)
  /\ loop[t] = "body"
  /\ ~skipped(st[t]) /\ st[t].manual_time_used_ < Begun(st[t])
  /\ st' = [st EXCEPT ![t].manual_time_used_ = @ + 1]
  /\ UNCHANGED <<Own, pc, loop, results, profiler, barrierVars>>

\* Bug variant: the message is overwritten by every thread that skips.
SkipLastWins(t, kind) ==
  /\ st' = [st EXCEPT ![t].skipped_ = kind, ![t].total_iterations_ = 0,
                      ![t].running_ = FALSE]
  /\ results' = [results EXCEPT !.skip_message_ = t,
                                !.skipped_ = IF @ = "NotSkipped" THEN kind ELSE @]

\* SkipWithMessage and SkipWithError: one critical section on the benchmark mutex
\* between writes to the thread's own State. The message stands for its thread.
Skip(t, kind) ==
  /\ st' = [st EXCEPT ![t].skipped_ = kind, ![t].total_iterations_ = 0,
                      ![t].running_ = FALSE]
  /\ results' = IF results.skipped_ = "NotSkipped"
                THEN [results EXCEPT !.skip_message_ = t, !.skipped_ = kind]
                ELSE results

UserSkips(t) ==
  /\ InUser(t)
  /\ ~skipped(st[t])
  /\ \E kind \in UserSkipKinds : Skip(t, kind)
  /\ UNCHANGED <<Own, pc, loop, profiler, barrierVars>>

\* The function returns: after its loop, early once it has skipped, or, against the
\* header's NOTE, without having finished or skipped.
Return(t) ==
  /\ InUser(t)
  /\ loop[t] = "after" \/ skipped(st[t]) \/ MayBreak
  /\ pc' = [pc EXCEPT ![t] = "returned"]
  /\ UNCHANGED <<Own, loop, st, results, profiler, barrierVars>>

-----------------------------------------------------------------------------
(* RunInThread, after the benchmark function.                              *)

RanOrSkipped(s) == skipped(s) \/ iterations(s) >= Iters

DidNotRun(t) ==
  /\ pc[t] = "returned"
  /\ ~RanOrSkipped(st[t])
  /\ Skip(t, "SkippedWithError")
  /\ UNCHANGED <<Own, pc, loop, profiler, barrierVars>>

\* Bug variant: a benchmark that did not run is merged like one that did.
MergeUnchecked(t) ==
  /\ pc[t] = "returned"
  /\ results' = [results EXCEPT !.iterations = @ + iterations(st[t]),
                                !.manual_time_used = @ + st[t].manual_time_used_]
  /\ pc' = [pc EXCEPT ![t] = "merged"]
  /\ UNCHANGED <<Own, loop, st, profiler, barrierVars>>

Merge(t) ==
  /\ pc[t] = "returned"
  /\ RanOrSkipped(st[t])
  /\ results' = [results EXCEPT !.iterations = @ + iterations(st[t]),
                                !.manual_time_used = @ + st[t].manual_time_used_]
  /\ pc' = [pc EXCEPT ![t] = "merged"]
  /\ UNCHANGED <<Own, loop, st, profiler, barrierVars>>

\* Bug variant: a thread that gave up does not tell the barrier.
NotifyOnlyIfFinished(t) ==
  /\ pc[t] = "merged"
  /\ IF st[t].finished_ THEN B!RemoveThread(t) ELSE UNCHANGED barrierVars
  /\ pc' = [pc EXCEPT ![t] = "done"]
  /\ UNCHANGED <<Own, loop, st, results, profiler>>

NotifyThreadComplete(t) ==
  /\ pc[t] = "merged"
  /\ B!RemoveThread(t)
  /\ pc' = [pc EXCEPT ![t] = "done"]
  /\ UNCHANGED <<Own, loop, st, results, profiler>>

AllDone == \A t \in Threads : pc[t] = "done"

\* The joins of RunThreads; from here on nobody writes to the results.
Join ==
  /\ AllDone
  /\ ~joined
  /\ joined' = TRUE
  /\ UNCHANGED <<written, pc, loop, st, results, profiler, barrierVars>>

\* IterationResults::iters: the average over the threads.
iters == results.iterations \div NumThreads

Finished == joined /\ UNCHANGED vars

-----------------------------------------------------------------------------
UserStep(t) ==
  \/ StartKeepRunning(t)
  \/ NextIteration(t)
  \/ PauseTiming(t)
  \/ ResumeTiming(t)
  \/ SetIterationTime(t)
  \/ UserSkips(t)
  \/ Return(t)

BarrierStep(t) ==
  \/ EnterBarrier(t)
  \/ StayInBarrier(t)
  \/ BecomeLast(t)
  \/ PassStart(t)
  \/ PassStop(t)

Tail(t) == DidNotRun(t) \/ Merge(t) \/ NotifyThreadComplete(t)

Next ==
  \/ \E t \in Threads :
       Spawn(t) \/ UserStep(t) \/ BarrierStep(t) \/ Tail(t)
  \/ Join
  \/ Finished

Spec == Init /\ [][Next]_vars

\* The operating system schedules every thread; the benchmark function goes on with
\* its loop (it pauses finitely often, hence SF) and returns after it. Skipping and
\* leaving early are never forced.
Fairness ==
  /\ WF_vars(Join)
  /\ \A t \in Threads :
       /\ WF_vars(Spawn(t))
       /\ WF_vars(StartKeepRunning(t))
       /\ WF_vars(ResumeTiming(t))
       /\ SF_vars(NextIteration(t))
       /\ WF_vars(loop[t] = "after" /\ Return(t))
       /\ WF_vars(EnterBarrier(t))
       /\ WF_vars(BecomeLast(t))
       /\ WF_vars(PassStart(t) \/ PassStop(t))
       /\ WF_vars(Tail(t))

FairSpec == Spec /\ Fairness

-----------------------------------------------------------------------------
\* Type invariant.
TypeOK ==
  /\ written \in Loops
  /\ pc \in [Threads -> {"unspawned", "user", "startwait", "stopwait",
                         "returned", "merged", "done"}]
  /\ loop \in [Threads -> {"before", "body", "after"}]
  /\ st \in [Threads -> [total_iterations_ : 0 .. Iters, batch_leftover_ : Nat,
                         started_ : BOOLEAN, finished_ : BOOLEAN,
                         skipped_ : Skips \cup {"NotSkipped"}, cached_ : 0 .. Iters,
                         running_ : BOOLEAN, manual_time_used_ : Nat]]
  /\ results \in [iterations : Nat, manual_time_used : Nat,
                  skipped_ : Skips \cup {"NotSkipped"},
                  skip_message_ : Threads \cup {NoMessage}]
  /\ profiler \in {"idle", "started", "stopped"}
  /\ joined \in BOOLEAN
  /\ B!TypeOK

Left(t) == pc[t] = "done"

\* The one barrier serves two meetings, and they stay apart, whoever skips, breaks off or
\* returns in whatever order. "None of the threads will start until all have reached the
\* start of the benchmark loop": while a thread is timed or past the start, every other
\* one has called StartKeepRunning or is gone for good. A thread that gets out through
\* FinishKeepRunning finds every other one at the end of its own loop, or gone. Threads
\* that wait for the same phase wait for the same meeting.
MeetTogether ==
  /\ \A t \in Threads : st[t].running_ \/ loop[t] # "before" =>
       \A u \in Threads : st[u].started_ \/ Left(u)
  /\ \A t \in Threads : loop[t] = "after" =>
       \A u \in Threads : st[u].finished_ \/ Left(u)
  /\ \A t, u \in Threads :
       (/\ B!Waiting(t) /\ B!Waiting(u)
        /\ phase_number_cp[t] = phase_number_cp[u]) => pc[t] = pc[u]

\* "REQUIRES: timer is not running" of the ThreadTimer getters holds when RunInThread
\* merges, for every benchmark that obeys the NOTE of KeepRunning: it has seen the end
\* of its loop, or it has skipped, in whatever state the timer was then.
TimerStoppedAtMerge ==
  \A t \in Threads :
    (pc[t] = "returned" /\ (loop[t] = "after" \/ skipped(st[t]))) => ~st[t].running_

\* A run is reported as skipped exactly if one of its threads skipped, with the
\* message and the kind of one and the same thread.
SkipReported ==
  AllDone =>
    /\ results.skipped_ = "NotSkipped" <=> \A t \in Threads : ~skipped(st[t])
    /\ results.skip_message_ # NoMessage =>
         results.skipped_ = st[results.skip_message_].skipped_

\* A run that is not reported as skipped did what was asked: every thread ran its
\* iterations, even when benchmarks leave their loop at will, and the reported
\* average overshoots by less than one batch.
CompleteUnlessSkipped ==
  joined /\ results.skipped_ = "NotSkipped" =>
    /\ \A t \in Threads : iterations(st[t]) >= Iters
    /\ Iters <= iters /\ iters < Iters + written.n

\* Whatever subset of the threads skips, breaks off or returns early, all of them
\* come to an end and DoNIterations gets its results.
RunTerminates == <>joined
=============================================================================
