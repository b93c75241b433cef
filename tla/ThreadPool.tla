----------------------------- MODULE ThreadPool -----------------------------
(***************************************************************************)
(* ThreadPool (threadpool.hpp, threadpool.cpp): worker threads that share  *)
(* a task queue under queueMutex and sleep on a condition variable, the    *)
(* threads that call enqueue, and the destructor.                          *)
(*                                                                         *)
(* One action per step between two points where another thread may act:    *)
(* taking the mutex, evaluating the wait predicate, blocking (which frees  *)
(* the mutex in the same step, as condition_variable::wait does), popping, *)
(* running the task outside the lock, notifying outside the lock.          *)
(***************************************************************************)
EXTENDS Naturals, Sequences, FiniteSets

CONSTANTS
  Workers,    \* the threads in the vector "workers"
  Callers,    \* the threads that call enqueue
  Owner,      \* the caller that destroys the pool
  Tasks,      \* the closures passed to enqueue, each of them once
  NoTask,     \* an empty std::function
  Nobody      \* the mutex is free

ASSUME ThreadsAssumption ==
  /\ IsFiniteSet(Workers) /\ IsFiniteSet(Callers)
  /\ Owner \in Callers
  /\ Workers \cap Callers = {}
  /\ Nobody \notin Workers \cup Callers
  /\ NoTask \notin Tasks

VARIABLES
  tasks,       \* the std::queue
  stop,        \* the flag the destructor raises
  queueMutex,  \* the thread that holds the mutex, or Nobody
  workerPc,    \* where each worker is in its loop
  task,        \* each worker's local "task"
  callerPc,    \* where each caller is in enqueue, or the owner in ~ThreadPool
  argument,    \* the closure each caller is enqueueing
  accepted,    \* history: tasks whose enqueue put them in the queue
  refused,     \* history: tasks whose enqueue threw
  finished,    \* history: tasks that have returned
  terminated   \* std::terminate was called

vars == <<tasks, stop, queueMutex, workerPc, task, callerPc, argument,
          accepted, refused, finished, terminated>>

WorkerPcs == {"acquire", "test", "wait", "blocked", "take", "run", "exited"}
WorkerHolds == {"test", "wait", "take"}
EnqueuePcs == {"idle", "locked", "notify"}
DtorPcs == {"dtorLock", "dtorLocked", "dtorNotify", "dtorJoin", "destroyed"}
CallerHolds == {"locked", "dtorLocked"}

Queued == {tasks[i] : i \in DOMAIN tasks}
Running == {w \in Workers : workerPc[w] = "run"}
RunningTasks == {task[w] : w \in Running}
Blocked == {w \in Workers : workerPc[w] = "blocked"}

TypeOK ==
  /\ tasks \in Seq(Tasks)
  /\ stop \in BOOLEAN
  /\ queueMutex \in Workers \cup Callers \cup {Nobody}
  /\ workerPc \in [Workers -> WorkerPcs]
  /\ task \in [Workers -> Tasks \cup {NoTask}]
  /\ callerPc \in [Callers -> EnqueuePcs \cup DtorPcs]
  /\ argument \in [Callers -> Tasks \cup {NoTask}]
  /\ accepted \in SUBSET Tasks
  /\ refused \in SUBSET Tasks
  /\ finished \in SUBSET Tasks
  /\ terminated \in BOOLEAN

\* ThreadPool(threads): the queue is empty, every worker starts its loop.
Init ==
  /\ tasks = <<>>
  /\ stop = FALSE
  /\ queueMutex = Nobody
  /\ workerPc = [w \in Workers |-> "acquire"]
  /\ task = [w \in Workers |-> NoTask]
  /\ callerPc = [c \in Callers |-> "idle"]
  /\ argument = [c \in Callers |-> NoTask]
  /\ accepted = {}
  /\ refused = {}
  /\ finished = {}
  /\ terminated = FALSE

-----------------------------------------------------------------------------
(* The worker loop.                                                        *)

WorkerMoves(w, from, to) ==
  /\ ~terminated
  /\ workerPc[w] = from
  /\ workerPc' = [workerPc EXCEPT ![w] = to]

\* Variant: the predicate is not evaluated again after a wakeup ("if" for
\* the loop inside wait).
WorkerAcquireUnchecked(w) ==
  /\ WorkerMoves(w, "acquire", "take")
  /\ queueMutex = Nobody
  /\ queueMutex' = w
  /\ UNCHANGED <<tasks, stop, task, callerPc, argument, accepted, refused,
                 finished, terminated>>

\* Lock the queue: on entry to the loop body, or on return from a wait.
WorkerAcquire(w) ==
  /\ WorkerMoves(w, "acquire", "test")
  /\ queueMutex = Nobody
  /\ queueMutex' = w
  /\ UNCHANGED <<tasks, stop, task, callerPc, argument, accepted, refused,
                 finished, terminated>>

\* Evaluate the wait predicate, with the mutex held.
WorkerTest(w) ==
  /\ WorkerMoves(w, "test", IF stop \/ tasks # <<>> THEN "take" ELSE "wait")
  /\ UNCHANGED <<tasks, stop, queueMutex, task, callerPc, argument, accepted,
                 refused, finished, terminated>>

\* The predicate was false: release the mutex and sleep, in one step.
WorkerBlock(w) ==
  /\ WorkerMoves(w, "wait", "blocked")
  /\ queueMutex' = Nobody
  /\ UNCHANGED <<tasks, stop, task, callerPc, argument, accepted, refused,
                 finished, terminated>>

\* A condition variable may wake a thread that nobody notified.
SpuriousWakeup(w) ==
  /\ WorkerMoves(w, "blocked", "acquire")
  /\ UNCHANGED <<tasks, stop, queueMutex, task, callerPc, argument, accepted,
                 refused, finished, terminated>>

\* Variant: leave on the stop flag alone, whatever the queue still holds.
WorkerExitAtOnce(w) ==
  /\ WorkerMoves(w, "take", "exited")
  /\ stop
  /\ queueMutex' = Nobody
  /\ UNCHANGED <<tasks, stop, task, callerPc, argument, accepted, refused,
                 finished, terminated>>

\* Stopping and nothing left: the thread function returns.
WorkerExit(w) ==
  /\ WorkerMoves(w, "take", "exited")
  /\ stop /\ tasks = <<>>
  /\ queueMutex' = Nobody
  /\ UNCHANGED <<tasks, stop, task, callerPc, argument, accepted, refused,
                 finished, terminated>>

\* Variants: tasks.pop() forgotten; the newest task first; the task called
\* inside the scope of the lock.
WorkerPopKeeps(w) ==
  /\ WorkerMoves(w, "take", "run")
  /\ ~(stop /\ tasks = <<>>)
  /\ task' = [task EXCEPT ![w] = Head(tasks)]
  /\ queueMutex' = Nobody
  /\ UNCHANGED <<tasks, stop, callerPc, argument, accepted, refused, finished,
                 terminated>>

WorkerPopNewest(w) ==
  /\ WorkerMoves(w, "take", "run")
  /\ ~(stop /\ tasks = <<>>)
  /\ task' = [task EXCEPT ![w] = tasks[Len(tasks)]]
  /\ tasks' = SubSeq(tasks, 1, Len(tasks) - 1)
  /\ queueMutex' = Nobody
  /\ UNCHANGED <<stop, callerPc, argument, accepted, refused, finished,
                 terminated>>

WorkerPopLocked(w) ==
  /\ WorkerMoves(w, "take", "run")
  /\ ~(stop /\ tasks = <<>>)
  /\ task' = [task EXCEPT ![w] = Head(tasks)]
  /\ tasks' = Tail(tasks)
  /\ UNCHANGED <<stop, queueMutex, callerPc, argument, accepted, refused, finished,
                 terminated>>

\* Otherwise move the front task out of the queue and leave the lock's scope.
WorkerPop(w) ==
  /\ WorkerMoves(w, "take", "run")
  /\ ~(stop /\ tasks = <<>>)
  /\ task' = [task EXCEPT ![w] = Head(tasks)]
  /\ tasks' = Tail(tasks)
  /\ queueMutex' = Nobody
  /\ UNCHANGED <<stop, callerPc, argument, accepted, refused, finished,
                 terminated>>

\* task() returns; the local std::function is destroyed with the iteration.
TaskReturns(w) ==
  /\ WorkerMoves(w, "run", "acquire")
  /\ finished' = finished \cup {task[w]}
  /\ task' = [task EXCEPT ![w] = NoTask]
  /\ UNCHANGED <<tasks, stop, queueMutex, callerPc, argument, accepted,
                 refused, terminated>>

\* task() throws: the worker has no handler, so the runtime terminates.
TaskThrows(w) ==
  /\ ~terminated
  /\ workerPc[w] = "run"
  /\ terminated' = TRUE
  /\ UNCHANGED <<tasks, stop, queueMutex, workerPc, task, callerPc, argument,
                 accepted, refused, finished>>

-----------------------------------------------------------------------------
(* enqueue.                                                                *)

CallerMoves(c, from, to) ==
  /\ ~terminated
  /\ callerPc[c] = from
  /\ callerPc' = [callerPc EXCEPT ![c] = to]

\* Tasks no caller has passed to enqueue yet.
Fresh == Tasks \ (accepted \cup refused \cup {argument[c] : c \in Callers})

\* A caller enters enqueue with t and takes the mutex.  Nobody may call a
\* member function of a pool whose destructor has returned.
EnqueueLock(c, t) ==
  /\ CallerMoves(c, "idle", "locked")
  /\ callerPc[Owner] # "destroyed"
  /\ queueMutex = Nobody
  /\ queueMutex' = c
  /\ t \in Fresh
  /\ argument' = [argument EXCEPT ![c] = t]
  /\ UNCHANGED <<tasks, stop, workerPc, task, accepted, refused, finished,
                 terminated>>

\* The pool is being destroyed: throw, releasing the mutex.
EnqueueThrow(c) ==
  /\ CallerMoves(c, "locked", "idle")
  /\ stop
  /\ queueMutex' = Nobody
  /\ refused' = refused \cup {argument[c]}
  /\ argument' = [argument EXCEPT ![c] = NoTask]
  /\ UNCHANGED <<tasks, stop, workerPc, task, accepted, finished, terminated>>

\* Variant: the closure is moved from before it is put in the queue.
EnqueuePushMovedFrom(c) ==
  /\ CallerMoves(c, "locked", "notify")
  /\ ~stop
  /\ tasks' = Append(tasks, NoTask)
  /\ accepted' = accepted \cup {argument[c]}
  /\ argument' = [argument EXCEPT ![c] = NoTask]
  /\ queueMutex' = Nobody
  /\ UNCHANGED <<stop, workerPc, task, refused, finished, terminated>>

\* Add the task to the queue and leave the lock's scope.
EnqueuePush(c) ==
  /\ CallerMoves(c, "locked", "notify")
  /\ ~stop
  /\ tasks' = Append(tasks, argument[c])
  /\ accepted' = accepted \cup {argument[c]}
  /\ argument' = [argument EXCEPT ![c] = NoTask]
  /\ queueMutex' = Nobody
  /\ UNCHANGED <<stop, workerPc, task, refused, finished, terminated>>

\* Variant: enqueue returns without notifying.
EnqueueNotifyForgotten(c) ==
  /\ CallerMoves(c, "notify", "idle")
  /\ UNCHANGED <<tasks, stop, queueMutex, workerPc, task, argument, accepted,
                 refused, finished, terminated>>

\* notify_one, without the mutex: some sleeping worker, if there is one.
EnqueueNotify(c) ==
  /\ CallerMoves(c, "notify", "idle")
  /\ \/ Blocked = {} /\ UNCHANGED workerPc
     \/ \E w \in Blocked : workerPc' = [workerPc EXCEPT ![w] = "acquire"]
  /\ UNCHANGED <<tasks, stop, queueMutex, task, argument, accepted, refused,
                 finished, terminated>>

-----------------------------------------------------------------------------
(* ~ThreadPool, run by the owner.                                          *)

\* Variant: raise the flag without the mutex.
DtorEnterUnlocked ==
  /\ CallerMoves(Owner, "idle", "dtorNotify")
  /\ stop' = TRUE
  /\ UNCHANGED <<tasks, queueMutex, workerPc, task, argument, accepted,
                 refused, finished, terminated>>

DtorEnter ==
  /\ CallerMoves(Owner, "idle", "dtorLock")
  /\ UNCHANGED <<tasks, stop, queueMutex, workerPc, task, argument, accepted,
                 refused, finished, terminated>>

DtorLock ==
  /\ CallerMoves(Owner, "dtorLock", "dtorLocked")
  /\ queueMutex = Nobody
  /\ queueMutex' = Owner
  /\ UNCHANGED <<tasks, stop, workerPc, task, argument, accepted, refused,
                 finished, terminated>>

DtorStop ==
  /\ CallerMoves(Owner, "dtorLocked", "dtorNotify")
  /\ stop' = TRUE
  /\ queueMutex' = Nobody
  /\ UNCHANGED <<tasks, workerPc, task, argument, accepted, refused, finished,
                 terminated>>

\* Variant: notify_one for notify_all.
DtorNotifyOne ==
  /\ CallerMoves(Owner, "dtorNotify", "dtorJoin")
  /\ \/ Blocked = {} /\ UNCHANGED workerPc
     \/ \E w \in Blocked : workerPc' = [workerPc EXCEPT ![w] = "acquire"]
  /\ UNCHANGED <<tasks, stop, queueMutex, task, argument, accepted, refused,
                 finished, terminated>>

DtorNotifyAll ==
  /\ CallerMoves(Owner, "dtorNotify", "dtorJoin")
  /\ workerPc' = [w \in Workers |->
                    IF w \in Blocked THEN "acquire" ELSE workerPc[w]]
  /\ UNCHANGED <<tasks, stop, queueMutex, task, argument, accepted, refused,
                 finished, terminated>>

\* Every join has returned, so every worker has left its thread function.
DtorJoin ==
  /\ CallerMoves(Owner, "dtorJoin", "destroyed")
  /\ \A w \in Workers : workerPc[w] = "exited"
  /\ UNCHANGED <<tasks, stop, queueMutex, workerPc, task, argument, accepted,
                 refused, finished, terminated>>

-----------------------------------------------------------------------------
WorkerStep(w) ==
  \/ WorkerAcquire(w)
  \/ WorkerTest(w)
  \/ WorkerBlock(w)
  \/ WorkerExit(w)
  \/ WorkerPop(w)
  \/ TaskReturns(w)
  \/ TaskThrows(w)

EnqueueStep(c) ==
  \/ EnqueueThrow(c)
  \/ EnqueuePush(c)
  \/ EnqueueNotify(c)

DtorStep ==
  \/ DtorLock
  \/ DtorStop
  \/ DtorNotifyAll
  \/ DtorJoin

\* Nothing is left to do: the pool is gone and no call is in progress, or the
\* process has been terminated.
Halted ==
  /\ \/ terminated
     \/ callerPc[Owner] = "destroyed" /\ \A c \in Callers \ {Owner} : callerPc[c] = "idle"
  /\ UNCHANGED vars

Next ==
  \/ \E w \in Workers : WorkerStep(w) \/ SpuriousWakeup(w)
  \/ \E c \in Callers : EnqueueStep(c)
  \/ \E c \in Callers, t \in Tasks : EnqueueLock(c, t)
  \/ DtorEnter
  \/ DtorStep
  \/ Halted

Spec == Init /\ [][Next]_vars

(***************************************************************************)
(* Threads that can run do run, and tasks end.  Nobody is obliged to call  *)
(* enqueue or the destructor, nor the runtime to wake a thread spuriously. *)
(* The mutex is not queued, so a thread that waits for it is served only   *)
(* if it is free again and again (strong fairness): only the destructor    *)
(* needs that, against workers that are woken spuriously without end.      *)
(***************************************************************************)
Fairness ==
  /\ \A w \in Workers : WF_vars(WorkerStep(w))
  /\ \A c \in Callers : WF_vars(EnqueueStep(c))
  /\ SF_vars(DtorLock)
  /\ WF_vars(DtorStep)

FairSpec == Spec /\ Fairness

-----------------------------------------------------------------------------
(* Safety.                                                                 *)

\* Every accepted task is in exactly one place: once in the queue, or with
\* one worker, or finished.  Nothing is lost or run twice, whoever pops it
\* (the pop under the lock and the run outside it, threadpool.cpp:29-34).
TaskAccounting ==
  /\ accepted = Queued \cup RunningTasks \cup finished
  /\ \A i, j \in DOMAIN tasks : tasks[i] = tasks[j] => i = j
  /\ \A v, w \in Running : task[v] = task[w] => v = w
  /\ Queued \cap (RunningTasks \cup finished) = {}
  /\ RunningTasks \cap finished = {}

\* Callers that have pushed a task and not yet notified, and workers that
\* will look at the queue before they can sleep.
Notifying == {c \in Callers : callerPc[c] = "notify"}
Awake == {w \in Workers : workerPc[w] \in {"acquire", "test", "take"}}

\* No lost wakeup: while somebody sleeps, each queued task has a notification
\* on its way or a worker that is going to look at the queue, although
\* enqueue notifies after it has released the mutex (threadpool.hpp:44).
WakeupsCoverBacklog ==
  Blocked # {} => Len(tasks) <= Cardinality(Notifying) + Cardinality(Awake)

\* front() is never called on an empty queue: between the predicate and the
\* pop no other worker can take the last task (threadpool.cpp:20-30).
PopFindsTask ==
  \A w \in Workers : workerPc[w] = "take" => stop \/ tasks # <<>>

\* Once the destructor waits in join, no worker is asleep: the one that had
\* seen stop = false was already waiting when notify_all came, because the
\* flag is raised under the mutex (threadpool.cpp:44-51).
NobodySleepsThroughStop ==
  callerPc[Owner] \in {"dtorJoin", "destroyed"} => Blocked = {}

\* Destroying a pool that has workers runs everything it accepted first
\* (threadpool.cpp:25-26: a worker leaves only when the queue is empty).
DrainedAtDestruction ==
  callerPc[Owner] = "destroyed" /\ Workers # {} => accepted = finished

-----------------------------------------------------------------------------
(* The inductive invariant behind the safety properties.                   *)

\* Who holds the mutex, and what is known at each place of the two loops.
ControlInv ==
  /\ \A w \in Workers : workerPc[w] \in WorkerHolds <=> queueMutex = w
  /\ \A c \in Callers : callerPc[c] \in CallerHolds <=> queueMutex = c
  /\ \A c \in Callers : callerPc[c] \in DtorPcs => c = Owner
  /\ stop <=> callerPc[Owner] \in {"dtorNotify", "dtorJoin", "destroyed"}
  /\ \A w \in Workers : workerPc[w] = "wait" => ~stop /\ tasks = <<>>
  /\ \A w \in Workers : workerPc[w] = "exited" => stop /\ tasks = <<>>
  /\ callerPc[Owner] = "destroyed" => \A w \in Workers : workerPc[w] = "exited"
  /\ PopFindsTask
  /\ NobodySleepsThroughStop

\* Where a closure is between the call of enqueue and its destruction.
ClosureInv ==
  /\ \A w \in Workers : workerPc[w] = "run" <=> task[w] # NoTask
  /\ \A c \in Callers : callerPc[c] = "locked" <=> argument[c] # NoTask
  /\ \A c \in Callers : argument[c] \notin accepted \cup refused
  /\ accepted \cap refused = {}

IInv == TypeOK /\ ControlInv /\ ClosureInv /\ TaskAccounting /\ WakeupsCoverBacklog

-----------------------------------------------------------------------------
(* Liveness, under FairSpec.                                               *)

\* Every accepted task ends up executed, unless a task terminates the process.
EveryTaskRuns ==
  \A t \in Tasks : (t \in accepted) ~> (t \in finished \/ terminated)

\* ~ThreadPool returns, however often workers wake spuriously.
DestructorReturns ==
  (callerPc[Owner] = "dtorLock") ~> (callerPc[Owner] = "destroyed" \/ terminated)

-----------------------------------------------------------------------------
(* Refinement.                                                             *)

Phase ==
  IF callerPc[Owner] = "destroyed" THEN "closed"
  ELSE IF stop THEN "closing" ELSE "open"

Pool == INSTANCE TaskPool WITH
  Capacity <- Cardinality(Workers),
  backlog <- tasks,
  active <- RunningTasks,
  phase <- Phase,
  crashed <- terminated

\* The threads, the mutex and the condition variable together behave as the
\* bounded first-in first-out pool of TaskPool.
ImplementsTaskPool == Pool!Spec

\* And they do so with its liveness: a free worker takes what is queued.
ImplementsFairTaskPool == Pool!FairSpec
=============================================================================
