-------------------------- MODULE ThreadPoolProofs --------------------------
(***************************************************************************)
(* Theorems of ThreadPool, for every set of workers (the empty one         *)
(* included), callers and tasks.                                           *)
(***************************************************************************)
EXTENDS ThreadPool, FiniteSetTheorems, SequenceTheorems, TLAPS

-----------------------------------------------------------------------------
(* Type correctness.                                                       *)

LEMMA InitTypeOK == Init => TypeOK
<1> SUFFICES ASSUME Init PROVE TypeOK
  OBVIOUS
<1>1. tasks \in Seq(Tasks)
  BY DEF Init
<1> QED
  BY <1>1, ThreadsAssumption
  DEF Init, TypeOK, WorkerPcs, EnqueuePcs, DtorPcs

\* Typing alone is not inductive: Head of an empty queue is not a task, and
\* neither is an empty std::function.
LEMMA WorkerTypeOK ==
  ASSUME TypeOK, PopFindsTask, ClosureInv, NEW w \in Workers,
         WorkerStep(w) \/ SpuriousWakeup(w)
  PROVE  TypeOK'
<1> USE DEF TypeOK, WorkerMoves, WorkerPcs
<1>1. CASE WorkerAcquire(w)
  BY <1>1 DEF WorkerAcquire
<1>2. CASE WorkerTest(w)
  BY <1>2 DEF WorkerTest
<1>3. CASE WorkerBlock(w)
  BY <1>3 DEF WorkerBlock
<1>4. CASE SpuriousWakeup(w)
  BY <1>4 DEF SpuriousWakeup
<1>5. CASE WorkerExit(w)
  BY <1>5 DEF WorkerExit
<1>6. CASE WorkerPop(w)
  <2>1. tasks # <<>>
    BY <1>6 DEF WorkerPop, PopFindsTask
  <2>2. Head(tasks) \in Tasks /\ Tail(tasks) \in Seq(Tasks)
    BY <2>1
  <2> QED
    BY <1>6, <2>2 DEF WorkerPop
<1>7. CASE TaskReturns(w)
  <2>1. UNCHANGED <<tasks, stop, queueMutex, callerPc, argument, accepted,
                    refused, terminated>>
    BY <1>7 DEF TaskReturns
  <2>2. workerPc' \in [Workers -> WorkerPcs] /\ task' \in [Workers -> Tasks \cup {NoTask}]
    BY <1>7 DEF TaskReturns
  <2>3. finished' \in SUBSET Tasks
    BY <1>7 DEF TaskReturns, ClosureInv
  <2> QED
    BY <2>1, <2>2, <2>3
<1>8. CASE TaskThrows(w)
  BY <1>8 DEF TaskThrows
<1> QED
  BY <1>1, <1>2, <1>3, <1>4, <1>5, <1>6, <1>7, <1>8 DEF WorkerStep

LEMMA CallerTypeOK ==
  ASSUME TypeOK, ClosureInv, NEW c \in Callers, NEW t,
         EnqueueStep(c) \/ EnqueueLock(c, t)
  PROVE  TypeOK'
<1> USE DEF TypeOK, CallerMoves, EnqueuePcs, WorkerPcs
<1>1. CASE EnqueueLock(c, t)
  BY <1>1 DEF EnqueueLock, Fresh
<1>2. CASE EnqueueThrow(c)
  BY <1>2 DEF EnqueueThrow, ClosureInv
<1>3. CASE EnqueuePush(c)
  BY <1>3 DEF EnqueuePush, ClosureInv
<1>4. CASE EnqueueNotify(c)
  BY <1>4 DEF EnqueueNotify
<1> QED
  BY <1>1, <1>2, <1>3, <1>4 DEF EnqueueStep

LEMMA DtorTypeOK == TypeOK /\ (DtorEnter \/ DtorStep) => TypeOK'
<1> SUFFICES ASSUME TypeOK, DtorEnter \/ DtorStep PROVE TypeOK'
  OBVIOUS
<1> USE ThreadsAssumption DEF TypeOK, CallerMoves, DtorPcs, WorkerPcs
<1>1. CASE DtorEnter
  BY <1>1 DEF DtorEnter
<1>2. CASE DtorLock
  BY <1>2 DEF DtorLock
<1>3. CASE DtorStop
  BY <1>3 DEF DtorStop
<1>4. CASE DtorNotifyAll
  BY <1>4 DEF DtorNotifyAll
<1>5. CASE DtorJoin
  BY <1>5 DEF DtorJoin
<1> QED
  BY <1>1, <1>2, <1>3, <1>4, <1>5 DEF DtorStep

-----------------------------------------------------------------------------
(* Control: the mutex, the stop flag and the places of the two loops.      *)

LEMMA InitControlInv == Init => ControlInv
  BY ThreadsAssumption
  DEF Init, ControlInv, PopFindsTask, NobodySleepsThroughStop, Blocked,
      WorkerHolds, CallerHolds, DtorPcs

LEMMA WorkerControlInv ==
  ASSUME TypeOK, ControlInv, NEW w \in Workers,
         WorkerStep(w) \/ SpuriousWakeup(w)
  PROVE  ControlInv'
<1> USE ThreadsAssumption
    DEF TypeOK, ControlInv, WorkerMoves, WorkerPcs, WorkerHolds, CallerHolds,
        PopFindsTask, NobodySleepsThroughStop, Blocked
<1>1. CASE WorkerAcquire(w)
  BY <1>1 DEF WorkerAcquire
<1>2. CASE WorkerTest(w)
  BY <1>2 DEF WorkerTest
<1>3. CASE WorkerBlock(w)
  BY <1>3 DEF WorkerBlock
<1>4. CASE SpuriousWakeup(w)
  BY <1>4 DEF SpuriousWakeup
<1>5. CASE WorkerExit(w)
  BY <1>5 DEF WorkerExit
<1>6. CASE WorkerPop(w)
  BY <1>6 DEF WorkerPop
<1>7. CASE TaskReturns(w)
  BY <1>7 DEF TaskReturns
<1>8. CASE TaskThrows(w)
  BY <1>8 DEF TaskThrows
<1> QED
  BY <1>1, <1>2, <1>3, <1>4, <1>5, <1>6, <1>7, <1>8 DEF WorkerStep

LEMMA CallerControlInv ==
  ASSUME TypeOK, ControlInv, NEW c \in Callers, NEW t,
         EnqueueStep(c) \/ EnqueueLock(c, t)
  PROVE  ControlInv'
<1> USE ThreadsAssumption
    DEF TypeOK, ControlInv, CallerMoves, WorkerHolds, CallerHolds, DtorPcs,
        EnqueuePcs, WorkerPcs, PopFindsTask, NobodySleepsThroughStop, Blocked
<1>1. CASE EnqueueLock(c, t)
  BY <1>1 DEF EnqueueLock
<1>2. CASE EnqueueThrow(c)
  BY <1>2 DEF EnqueueThrow
<1>3. CASE EnqueuePush(c)
  BY <1>3 DEF EnqueuePush
<1>4. CASE EnqueueNotify(c)
  BY <1>4 DEF EnqueueNotify
<1> QED
  BY <1>1, <1>2, <1>3, <1>4 DEF EnqueueStep

LEMMA DtorControlInv ==
  TypeOK /\ ControlInv /\ (DtorEnter \/ DtorStep) => ControlInv'
<1> SUFFICES ASSUME TypeOK, ControlInv, DtorEnter \/ DtorStep PROVE ControlInv'
  OBVIOUS
<1> USE ThreadsAssumption
    DEF TypeOK, ControlInv, CallerMoves, WorkerHolds, CallerHolds, DtorPcs,
        EnqueuePcs, WorkerPcs, PopFindsTask, NobodySleepsThroughStop, Blocked
<1>1. CASE DtorEnter
  BY <1>1 DEF DtorEnter
<1>2. CASE DtorLock
  BY <1>2 DEF DtorLock
<1>3. CASE DtorStop
  BY <1>3 DEF DtorStop
<1>4. CASE DtorNotifyAll
  BY <1>4 DEF DtorNotifyAll
<1>5. CASE DtorJoin
  BY <1>5 DEF DtorJoin
<1> QED
  BY <1>1, <1>2, <1>3, <1>4, <1>5 DEF DtorStep

-----------------------------------------------------------------------------
(* Accounting: every accepted task is in exactly one place.                *)

Elements(s) == {s[i] : i \in DOMAIN s}
Injective(s) == \A i, j \in DOMAIN s : s[i] = s[j] => i = j

\* What std::queue's emplace does to the queue.
LEMMA AppendElements ==
  ASSUME NEW S, NEW s \in Seq(S), NEW x \in S
  PROVE  /\ Elements(Append(s, x)) = Elements(s) \cup {x}
         /\ Injective(s) /\ x \notin Elements(s) => Injective(Append(s, x))
<1>1. /\ DOMAIN s = 1 .. Len(s) /\ Len(s) \in Nat
      /\ DOMAIN Append(s, x) = 1 .. Len(s) + 1
      /\ \A i \in 1 .. Len(s) : Append(s, x)[i] = s[i]
      /\ Append(s, x)[Len(s) + 1] = x
  OBVIOUS
<1>2. 1 .. Len(s) + 1 = (1 .. Len(s)) \cup {Len(s) + 1}
  BY <1>1
<1>3. Elements(Append(s, x)) = Elements(s) \cup {x}
  BY <1>1, <1>2 DEF Elements
<1>4. ASSUME Injective(s), x \notin Elements(s)
      PROVE  Injective(Append(s, x))
  BY <1>1, <1>2, <1>4 DEF Elements, Injective
<1> QED
  BY <1>3, <1>4

\* What front and pop do to a queue that is not empty.
LEMMA TailElements ==
  ASSUME NEW S, NEW s \in Seq(S), s # <<>>
  PROVE  /\ Head(s) \in Elements(s)
         /\ Elements(s) = Elements(Tail(s)) \cup {Head(s)}
         /\ Injective(s) => Injective(Tail(s)) /\ Head(s) \notin Elements(Tail(s))
<1>1. /\ DOMAIN s = 1 .. Len(s) /\ Len(s) \in Nat /\ Len(s) > 0
      /\ Head(s) = s[1]
      /\ Tail(s) \in Seq(S) /\ Len(Tail(s)) = Len(s) - 1
      /\ DOMAIN Tail(s) = 1 .. Len(s) - 1
      /\ \A i \in 1 .. Len(s) - 1 : Tail(s)[i] = s[i + 1]
  OBVIOUS
<1>2. Head(s) \in Elements(s)
  BY <1>1 DEF Elements
<1>3. Elements(Tail(s)) \subseteq Elements(s)
  BY <1>1 DEF Elements
<1>4. Elements(s) \subseteq Elements(Tail(s)) \cup {Head(s)}
  <2> SUFFICES ASSUME NEW i \in DOMAIN s
               PROVE  s[i] \in Elements(Tail(s)) \cup {Head(s)}
    BY DEF Elements
  <2>1. CASE i = 1
    BY <2>1, <1>1
  <2>2. CASE i # 1
    <3>1. i - 1 \in 1 .. Len(s) - 1 /\ Tail(s)[i - 1] = s[i]
      BY <2>2, <1>1
    <3> QED
      BY <3>1, <1>1 DEF Elements
  <2> QED
    BY <2>1, <2>2
<1>5. ASSUME Injective(s)
      PROVE  Injective(Tail(s)) /\ Head(s) \notin Elements(Tail(s))
  <2>1. Injective(Tail(s))
    BY <1>1, <1>5 DEF Injective
  <2>2. \A i \in DOMAIN Tail(s) : Tail(s)[i] # Head(s)
    BY <1>1, <1>5 DEF Injective
  <2> QED
    BY <2>1, <2>2 DEF Elements
<1> QED
  BY <1>2, <1>3, <1>4, <1>5

LEMMA InitAccounting == Init => ClosureInv /\ TaskAccounting
  BY ThreadsAssumption
  DEF Init, ClosureInv, TaskAccounting, Queued, Running, RunningTasks

\* A step that leaves the closures where they are preserves the accounting.
LEMMA AccountingUnchanged ==
  ASSUME TypeOK, ClosureInv, TaskAccounting,
         UNCHANGED <<tasks, task, argument, accepted, refused, finished>>,
         Running' = Running,
         \A c \in Callers : callerPc'[c] = "locked" <=> callerPc[c] = "locked"
  PROVE  ClosureInv' /\ TaskAccounting'
<1>1. \A w \in Workers : workerPc'[w] = "run" <=> workerPc[w] = "run"
  BY DEF Running
<1>2. RunningTasks' = RunningTasks
  BY DEF RunningTasks
<1>3. Queued' = Queued
  BY DEF Queued
<1> QED
  BY <1>1, <1>2, <1>3 DEF ClosureInv, TaskAccounting

LEMMA WorkerPopAccounting ==
  ASSUME TypeOK, ControlInv, ClosureInv, TaskAccounting,
         NEW w \in Workers, WorkerPop(w)
  PROVE  ClosureInv' /\ TaskAccounting'
<1> DEFINE t == Head(tasks)
<1>1. tasks \in Seq(Tasks) /\ tasks # <<>>
  BY DEF TypeOK, ControlInv, PopFindsTask, WorkerPop, WorkerMoves
<1>2. Queued = Elements(tasks) /\ Queued' = Elements(Tail(tasks)) /\ Injective(tasks)
  BY DEF Queued, Elements, Injective, TaskAccounting, WorkerPop
<1>3. /\ t \in Queued /\ t \in Tasks
      /\ Queued = Queued' \cup {t} /\ t \notin Queued'
      /\ Injective(Tail(tasks))
  BY <1>1, <1>2, TailElements
<1>4. Running' = Running \cup {w} /\ w \notin Running
  BY DEF Running, WorkerPop, WorkerMoves, TypeOK
<1>5. \A v \in Workers : task'[v] = IF v = w THEN t ELSE task[v]
  BY DEF WorkerPop, TypeOK
<1>6. RunningTasks' = RunningTasks \cup {t}
  BY <1>4, <1>5 DEF RunningTasks, Running
<1>7. t \notin RunningTasks /\ t \notin finished
  BY <1>3 DEF TaskAccounting
<1>8. TaskAccounting'
  <2>1. accepted' = Queued' \cup RunningTasks' \cup finished'
    BY <1>3, <1>6 DEF TaskAccounting, WorkerPop
  <2>2. \A i, j \in DOMAIN tasks' : tasks'[i] = tasks'[j] => i = j
    BY <1>3 DEF Injective, WorkerPop
  <2>3. \A u, v \in Running' : task'[u] = task'[v] => u = v
    BY <1>4, <1>5, <1>7 DEF TaskAccounting, RunningTasks, Running
  <2>4. Queued' \cap (RunningTasks' \cup finished') = {}
    BY <1>3, <1>6 DEF TaskAccounting, WorkerPop
  <2>5. RunningTasks' \cap finished' = {}
    BY <1>6, <1>7 DEF TaskAccounting, WorkerPop
  <2> QED
    BY <2>1, <2>2, <2>3, <2>4, <2>5 DEF TaskAccounting
<1>9. ClosureInv'
  BY <1>3, <1>5, ThreadsAssumption
  DEF ClosureInv, WorkerPop, WorkerMoves, TypeOK
<1> QED
  BY <1>8, <1>9

LEMMA TaskReturnsAccounting ==
  ASSUME TypeOK, ClosureInv, TaskAccounting, NEW w \in Workers, TaskReturns(w)
  PROVE  ClosureInv' /\ TaskAccounting'
<1>1. Running' = Running \ {w} /\ w \in Running
  BY DEF Running, TaskReturns, WorkerMoves, TypeOK
<1>2. \A v \in Workers : task'[v] = IF v = w THEN NoTask ELSE task[v]
  BY DEF TaskReturns, TypeOK
<1>3. RunningTasks' = RunningTasks \ {task[w]} /\ task[w] \in RunningTasks
  BY <1>1, <1>2 DEF RunningTasks, Running, TaskAccounting
<1>4. Queued' = Queued
  BY DEF Queued, TaskReturns
<1>5. TaskAccounting'
  <2>1. \A u, v \in Running' : task'[u] = task'[v] => u = v
    BY <1>1, <1>2 DEF TaskAccounting, Running
  <2> QED
    BY <1>3, <1>4, <2>1 DEF TaskAccounting, TaskReturns
<1>6. ClosureInv'
  BY <1>2, ThreadsAssumption DEF ClosureInv, TaskReturns, WorkerMoves, TypeOK
<1> QED
  BY <1>5, <1>6

LEMMA WorkerAccounting ==
  ASSUME TypeOK, ControlInv, ClosureInv, TaskAccounting, NEW w \in Workers,
         WorkerStep(w) \/ SpuriousWakeup(w)
  PROVE  ClosureInv' /\ TaskAccounting'
<1>1. CASE WorkerPop(w)
  BY <1>1, WorkerPopAccounting
<1>2. CASE TaskReturns(w)
  BY <1>2, TaskReturnsAccounting
<1>3. CASE \/ WorkerAcquire(w) \/ WorkerTest(w) \/ WorkerBlock(w)
           \/ SpuriousWakeup(w) \/ WorkerExit(w) \/ TaskThrows(w)
  <2>1. UNCHANGED <<tasks, task, callerPc, argument, accepted, refused, finished>>
    BY <1>3 DEF WorkerAcquire, WorkerTest, WorkerBlock, SpuriousWakeup,
                WorkerExit, TaskThrows
  <2>2. Running' = Running
    BY <1>3 DEF WorkerAcquire, WorkerTest, WorkerBlock, SpuriousWakeup,
                WorkerExit, TaskThrows, WorkerMoves, Running, TypeOK
  <2> QED
    BY <2>1, <2>2, AccountingUnchanged
<1> QED
  BY <1>1, <1>2, <1>3 DEF WorkerStep

LEMMA EnqueuePushAccounting ==
  ASSUME TypeOK, ControlInv, ClosureInv, TaskAccounting,
         NEW c \in Callers, EnqueuePush(c)
  PROVE  ClosureInv' /\ TaskAccounting'
<1> DEFINE t == argument[c]
<1>1. tasks \in Seq(Tasks) /\ t \in Tasks /\ t \notin accepted \cup refused
  BY DEF TypeOK, ClosureInv, EnqueuePush, CallerMoves
<1>2. /\ Queued = Elements(tasks) /\ Queued' = Elements(Append(tasks, t))
      /\ Injective(tasks)
  BY DEF Queued, Elements, Injective, TaskAccounting, EnqueuePush
<1>3. t \notin Queued /\ t \notin RunningTasks /\ t \notin finished
  BY <1>1 DEF TaskAccounting
<1>4. Queued' = Queued \cup {t} /\ Injective(Append(tasks, t))
  BY <1>1, <1>2, <1>3, AppendElements
<1>5. Running' = Running /\ RunningTasks' = RunningTasks
  BY DEF EnqueuePush, Running, RunningTasks
<1>6. TaskAccounting'
  BY <1>3, <1>4, <1>5 DEF TaskAccounting, EnqueuePush, Injective
<1>7. \A d \in Callers : d # c => argument[d] = NoTask
  BY DEF ControlInv, CallerHolds, ClosureInv, EnqueuePush, CallerMoves
<1>8. ClosureInv'
  BY <1>1, <1>7, ThreadsAssumption
  DEF ClosureInv, EnqueuePush, CallerMoves, TypeOK
<1> QED
  BY <1>6, <1>8

LEMMA CallerAccounting ==
  ASSUME TypeOK, ControlInv, ClosureInv, TaskAccounting,
         NEW c \in Callers, NEW t,
         EnqueueStep(c) \/ EnqueueLock(c, t)
  PROVE  ClosureInv' /\ TaskAccounting'
<1>1. CASE EnqueuePush(c)
  BY <1>1, EnqueuePushAccounting
<1>2. CASE EnqueueNotify(c)
  <2>1. Running' = Running
    BY <1>2 DEF EnqueueNotify, Running, Blocked, TypeOK
  <2>2. \A d \in Callers : callerPc'[d] = "locked" <=> callerPc[d] = "locked"
    BY <1>2 DEF EnqueueNotify, CallerMoves, TypeOK
  <2> QED
    BY <1>2, <2>1, <2>2, AccountingUnchanged DEF EnqueueNotify
<1>3. CASE EnqueueLock(c, t) \/ EnqueueThrow(c)
  <2>1. UNCHANGED <<tasks, workerPc, task, accepted, finished>>
    BY <1>3 DEF EnqueueLock, EnqueueThrow
  <2>2. TaskAccounting'
    BY <2>1 DEF TaskAccounting, Queued, Running, RunningTasks
  <2>3. \A d \in Callers : d # c /\ EnqueueThrow(c) => argument[d] = NoTask
    BY DEF ControlInv, CallerHolds, ClosureInv, EnqueueThrow, CallerMoves
  <2>4. CASE EnqueueLock(c, t)
    BY <2>1, <2>2, <2>4, ThreadsAssumption
    DEF ClosureInv, EnqueueLock, CallerMoves, Fresh, TypeOK
  <2>5. CASE EnqueueThrow(c)
    BY <2>1, <2>2, <2>3, <2>5, ThreadsAssumption
    DEF ClosureInv, EnqueueThrow, CallerMoves, TypeOK
  <2> QED
    BY <1>3, <2>4, <2>5
<1> QED
  BY <1>1, <1>2, <1>3 DEF EnqueueStep

LEMMA DtorAccounting ==
  ASSUME TypeOK, ClosureInv, TaskAccounting, DtorEnter \/ DtorStep
  PROVE  ClosureInv' /\ TaskAccounting'
<1> USE DEF DtorStep, DtorEnter, DtorLock, DtorStop, DtorNotifyAll, DtorJoin
<1>1. UNCHANGED <<tasks, task, argument, accepted, refused, finished>>
  OBVIOUS
<1>2. Running' = Running
  BY DEF Running, Blocked, TypeOK
<1>3. \A c \in Callers : callerPc'[c] = "locked" <=> callerPc[c] = "locked"
  BY DEF CallerMoves, TypeOK
<1> QED
  BY <1>1, <1>2, <1>3, AccountingUnchanged

-----------------------------------------------------------------------------
(* Wakeups: who sleeps does so with every queued task in good hands.       *)

LEMMA CountsAreNaturals ==
  /\ IsFiniteSet(Notifying) /\ Cardinality(Notifying) \in Nat
  /\ IsFiniteSet(Awake) /\ Cardinality(Awake) \in Nat
<1>1. Notifying \subseteq Callers /\ Awake \subseteq Workers
  BY DEF Notifying, Awake
<1>2. IsFiniteSet(Notifying) /\ IsFiniteSet(Awake)
  BY <1>1, FS_Subset, ThreadsAssumption
<1> QED
  BY <1>2, FS_CardinalityType

LEMMA CountsAreNaturalsNext ==
  /\ IsFiniteSet(Notifying') /\ Cardinality(Notifying') \in Nat
  /\ IsFiniteSet(Awake') /\ Cardinality(Awake') \in Nat
<1>1. Notifying' \subseteq Callers /\ Awake' \subseteq Workers
  BY DEF Notifying, Awake
<1>2. IsFiniteSet(Notifying') /\ IsFiniteSet(Awake')
  BY <1>1, FS_Subset, ThreadsAssumption
<1> QED
  BY <1>2, FS_CardinalityType

LEMMA InitWakeups == Init => WakeupsCoverBacklog
  BY DEF Init, WakeupsCoverBacklog, Blocked

\* Nothing queued needs no wakeup.
LEMMA WakeupsForEmptyQueue ==
  ASSUME tasks' = <<>>
  PROVE  WakeupsCoverBacklog'
<1>1. Len(tasks') = 0
  OBVIOUS
<1>2. 0 <= Cardinality(Notifying') + Cardinality(Awake')
  BY CountsAreNaturalsNext
<1> QED
  BY <1>1, <1>2 DEF WakeupsCoverBacklog

\* A step that takes no wakeup away and puts nobody to sleep.
LEMMA WakeupsGrow ==
  ASSUME TypeOK, WakeupsCoverBacklog, tasks' = tasks,
         Notifying \subseteq Notifying', Awake \subseteq Awake',
         Blocked' \subseteq Blocked
  PROVE  WakeupsCoverBacklog'
<1>1. /\ Cardinality(Notifying) <= Cardinality(Notifying')
      /\ Cardinality(Awake) <= Cardinality(Awake')
  BY CountsAreNaturalsNext, FS_Subset
<1>2. Len(tasks) \in Nat
  BY DEF TypeOK
<1> QED
  BY <1>1, <1>2, CountsAreNaturals, CountsAreNaturalsNext DEF WakeupsCoverBacklog

LEMMA WorkerPopWakeups ==
  ASSUME TypeOK, ControlInv, WakeupsCoverBacklog, NEW w \in Workers, WorkerPop(w)
  PROVE  WakeupsCoverBacklog'
<1>1. w \in Awake /\ Awake' = Awake \ {w} /\ Notifying' = Notifying /\ Blocked' = Blocked
  BY DEF Awake, Notifying, Blocked, WorkerPop, WorkerMoves, TypeOK
<1>2. Cardinality(Awake') = Cardinality(Awake) - 1
  BY <1>1, CountsAreNaturals, FS_RemoveElement
<1>3. tasks \in Seq(Tasks) /\ tasks # <<>> /\ tasks' = Tail(tasks)
  BY DEF TypeOK, ControlInv, PopFindsTask, WorkerPop, WorkerMoves
<1>4. Len(tasks) \in Nat /\ Len(tasks') = Len(tasks) - 1
  BY <1>3
<1> QED
  BY <1>1, <1>2, <1>4, CountsAreNaturals DEF WakeupsCoverBacklog

LEMMA WorkerWakeups ==
  ASSUME TypeOK, ControlInv, WakeupsCoverBacklog, NEW w \in Workers,
         WorkerStep(w) \/ SpuriousWakeup(w)
  PROVE  WakeupsCoverBacklog'
<1>1. CASE WorkerPop(w)
  BY <1>1, WorkerPopWakeups
<1>2. CASE WorkerBlock(w) \/ WorkerExit(w) \/ (WorkerTest(w) /\ tasks = <<>>)
  <2>1. tasks' = <<>>
    BY <1>2 DEF WorkerBlock, WorkerExit, WorkerTest, WorkerMoves, ControlInv
  <2> QED
    BY <2>1, WakeupsForEmptyQueue
<1>3. CASE \/ WorkerAcquire(w) \/ SpuriousWakeup(w) \/ TaskReturns(w)
           \/ TaskThrows(w) \/ (WorkerTest(w) /\ tasks # <<>>)
  <2>1. tasks' = tasks /\ callerPc' = callerPc
    BY <1>3 DEF WorkerAcquire, SpuriousWakeup, TaskReturns, TaskThrows, WorkerTest
  <2>2. Awake \subseteq Awake' /\ Blocked' \subseteq Blocked
    BY <1>3 DEF WorkerAcquire, SpuriousWakeup, TaskReturns, TaskThrows, WorkerTest,
                WorkerMoves, Awake, Blocked, TypeOK
  <2> QED
    BY <2>1, <2>2, WakeupsGrow DEF Notifying
<1> QED
  BY <1>1, <1>2, <1>3 DEF WorkerStep

LEMMA EnqueuePushWakeups ==
  ASSUME TypeOK, ClosureInv, WakeupsCoverBacklog, NEW c \in Callers, EnqueuePush(c)
  PROVE  WakeupsCoverBacklog'
<1>1. c \notin Notifying /\ Notifying' = Notifying \cup {c}
  BY DEF Notifying, EnqueuePush, CallerMoves, TypeOK
<1>2. Cardinality(Notifying') = Cardinality(Notifying) + 1
  BY <1>1, CountsAreNaturals, FS_AddElement
<1>3. Awake' = Awake /\ Blocked' = Blocked
  BY DEF Awake, Blocked, EnqueuePush
<1>4. tasks \in Seq(Tasks) /\ argument[c] \in Tasks
  BY DEF TypeOK, ClosureInv, EnqueuePush, CallerMoves
<1>5. Len(tasks) \in Nat /\ Len(tasks') = Len(tasks) + 1
  BY <1>4 DEF EnqueuePush
<1> QED
  BY <1>2, <1>3, <1>5, CountsAreNaturals DEF WakeupsCoverBacklog

LEMMA EnqueueNotifyWakeups ==
  ASSUME TypeOK, WakeupsCoverBacklog, NEW c \in Callers, EnqueueNotify(c)
  PROVE  WakeupsCoverBacklog'
<1>1. CASE Blocked = {}
  BY <1>1 DEF EnqueueNotify, Blocked, WakeupsCoverBacklog
<1>2. CASE Blocked # {}
  <2>1. PICK w \in Blocked : workerPc' = [workerPc EXCEPT ![w] = "acquire"]
    BY <1>2 DEF EnqueueNotify
  <2>2. w \notin Awake /\ Awake' = Awake \cup {w}
    BY <2>1 DEF Awake, Blocked, TypeOK
  <2>3. Cardinality(Awake') = Cardinality(Awake) + 1
    BY <2>2, CountsAreNaturals, FS_AddElement
  <2>4. c \in Notifying /\ Notifying' = Notifying \ {c}
    BY DEF Notifying, EnqueueNotify, CallerMoves, TypeOK
  <2>5. Cardinality(Notifying') = Cardinality(Notifying) - 1
    BY <2>4, CountsAreNaturals, FS_RemoveElement
  <2>6. Len(tasks) \in Nat /\ tasks' = tasks
    BY DEF EnqueueNotify, TypeOK
  <2> QED
    BY <1>2, <2>3, <2>5, <2>6, CountsAreNaturals DEF WakeupsCoverBacklog
<1> QED
  BY <1>1, <1>2

LEMMA CallerWakeups ==
  ASSUME TypeOK, ClosureInv, WakeupsCoverBacklog,
         NEW c \in Callers, NEW t,
         EnqueueStep(c) \/ EnqueueLock(c, t)
  PROVE  WakeupsCoverBacklog'
<1>1. CASE EnqueuePush(c)
  BY <1>1, EnqueuePushWakeups
<1>2. CASE EnqueueNotify(c)
  BY <1>2, EnqueueNotifyWakeups
<1>3. CASE EnqueueLock(c, t) \/ EnqueueThrow(c)
  <2>1. tasks' = tasks /\ workerPc' = workerPc
    BY <1>3 DEF EnqueueLock, EnqueueThrow
  <2>2. Notifying' = Notifying
    BY <1>3 DEF EnqueueLock, EnqueueThrow, CallerMoves, Notifying, TypeOK
  <2> QED
    BY <2>1, <2>2, WakeupsGrow DEF Awake, Blocked
<1> QED
  BY <1>1, <1>2, <1>3 DEF EnqueueStep

LEMMA DtorWakeups ==
  ASSUME TypeOK, WakeupsCoverBacklog, DtorEnter \/ DtorStep
  PROVE  WakeupsCoverBacklog'
<1>1. tasks' = tasks
  BY DEF DtorStep, DtorEnter, DtorLock, DtorStop, DtorNotifyAll, DtorJoin
<1>2. Notifying \subseteq Notifying'
  BY DEF DtorStep, DtorEnter, DtorLock, DtorStop, DtorNotifyAll, DtorJoin,
         CallerMoves, Notifying, TypeOK
<1>3. Awake \subseteq Awake' /\ Blocked' \subseteq Blocked
  BY DEF DtorStep, DtorEnter, DtorLock, DtorStop, DtorNotifyAll, DtorJoin,
         Awake, Blocked, TypeOK
<1> QED
  BY <1>1, <1>2, <1>3, WakeupsGrow

-----------------------------------------------------------------------------
(* The theorems.                                                           *)

LEMMA InitIInv == Init => IInv
  BY InitTypeOK, InitControlInv, InitAccounting, InitWakeups DEF IInv

\* A step of the processes keeps IInv, and so does one that changes nothing.
LEMMA NextIInv == IInv /\ [Next]_vars => IInv'
<1> SUFFICES ASSUME IInv, [Next]_vars PROVE IInv'
  OBVIOUS
<1> USE DEF IInv
<1>1. ASSUME NEW w \in Workers, WorkerStep(w) \/ SpuriousWakeup(w)
      PROVE  IInv'
  <2>1. PopFindsTask
    BY DEF ControlInv
  <2> QED
    BY <1>1, <2>1, WorkerTypeOK, WorkerControlInv, WorkerAccounting, WorkerWakeups
<1>2. ASSUME NEW c \in Callers, NEW t, EnqueueStep(c) \/ EnqueueLock(c, t)
      PROVE  IInv'
  BY <1>2, CallerTypeOK, CallerControlInv, CallerAccounting, CallerWakeups
<1>3. ASSUME NEW c \in Callers, EnqueueStep(c)
      PROVE  IInv'
  BY <1>3, <1>2
<1>4. CASE DtorEnter \/ DtorStep
  BY <1>4, DtorTypeOK, DtorControlInv, DtorAccounting, DtorWakeups
<1>5. CASE UNCHANGED vars
  BY <1>5 DEF vars, TypeOK, ControlInv, ClosureInv, TaskAccounting,
              WakeupsCoverBacklog, PopFindsTask, NobodySleepsThroughStop,
              Queued, Running, RunningTasks, Blocked, Notifying, Awake
<1> QED
  BY <1>1, <1>2, <1>3, <1>4, <1>5 DEF Next, Halted

\* The inductive invariant holds in every reachable state: the control of the
\* loops, the whereabouts of closures, the counting of wakeups.
THEOREM Invariant == Spec => []IInv
  BY InitIInv, NextIInv, PTL DEF Spec

\* Every variable keeps its type in every reachable state: in particular a
\* worker never stores the result of front() on an empty queue.
THEOREM TypeCorrectness == Spec => []TypeOK
<1>1. IInv => TypeOK
  BY DEF IInv
<1> QED
  BY <1>1, Invariant, PTL

\* No accepted task is lost or run twice, for any number of workers and
\* callers (enqueue, and the pop in threadpool.cpp:29-34).
THEOREM NoTaskLostOrRepeated == Spec => []TaskAccounting
<1>1. IInv => TaskAccounting
  BY DEF IInv
<1> QED
  BY <1>1, Invariant, PTL

\* No lost wakeup, although enqueue notifies outside the lock.
THEOREM NoLostWakeup == Spec => []WakeupsCoverBacklog
<1>1. IInv => WakeupsCoverBacklog
  BY DEF IInv
<1> QED
  BY <1>1, Invariant, PTL

\* front() is never called on an empty queue.
THEOREM PopIsSafe == Spec => []PopFindsTask
<1>1. IInv => PopFindsTask
  BY DEF IInv, ControlInv
<1> QED
  BY <1>1, Invariant, PTL

\* No worker sleeps through the destructor's notify_all.
THEOREM NoSleeperAtJoin == Spec => []NobodySleepsThroughStop
<1>1. IInv => NobodySleepsThroughStop
  BY DEF IInv, ControlInv
<1> QED
  BY <1>1, Invariant, PTL

\* The destructor of a pool with workers returns with every accepted task
\* executed.
THEOREM DestructionDrains == Spec => []DrainedAtDestruction
<1>1. IInv => DrainedAtDestruction
  <2> SUFFICES ASSUME IInv, callerPc[Owner] = "destroyed", Workers # {}
               PROVE  accepted = finished
    BY DEF DrainedAtDestruction
  <2>1. \A w \in Workers : workerPc[w] = "exited" /\ tasks = <<>>
    BY DEF IInv, ControlInv
  <2>2. Running = {} /\ RunningTasks = {}
    BY <2>1 DEF Running, RunningTasks
  <2>3. Queued = {}
    BY <2>1 DEF Queued
  <2> QED
    BY <2>2, <2>3 DEF IInv, TaskAccounting
<1> QED
  BY <1>1, Invariant, PTL

-----------------------------------------------------------------------------
(* Refinement: ThreadPool implements the safety part of TaskPool.          *)

LEMMA InitRefines == Init => Pool!Init
  BY ThreadsAssumption
  DEF Init, Pool!Init, Phase, RunningTasks, Running

\* A worker about to pop is not running anything, so there is room.
LEMMA RoomToStart ==
  ASSUME TypeOK, NEW w \in Workers, workerPc[w] # "run"
  PROVE  Cardinality(RunningTasks) < Cardinality(Workers)
<1>1. Running \subseteq Workers \ {w}
  BY DEF Running
<1>2. /\ IsFiniteSet(Workers \ {w})
      /\ Cardinality(Workers \ {w}) = Cardinality(Workers) - 1
  BY ThreadsAssumption, FS_RemoveElement
<1>3. IsFiniteSet(Running) /\ Cardinality(Running) <= Cardinality(Workers) - 1
  BY <1>1, <1>2, FS_Subset
<1> DEFINE image == [v \in Running |-> task[v]]
<1>4. image \in Surjection(Running, RunningTasks)
  BY DEF Surjection, RunningTasks
<1>5. Cardinality(RunningTasks) <= Cardinality(Running) /\ IsFiniteSet(RunningTasks)
  BY <1>3, <1>4, FS_Surjection
<1>6. /\ Cardinality(RunningTasks) \in Nat /\ Cardinality(Running) \in Nat
      /\ Cardinality(Workers) \in Nat
  BY <1>3, <1>5, ThreadsAssumption, FS_CardinalityType
<1> QED
  BY <1>3, <1>5, <1>6

LEMMA PopRefines ==
  ASSUME IInv, NEW w \in Workers, WorkerPop(w)
  PROVE  Pool!Start
<1>1. tasks # <<>> /\ ~terminated /\ workerPc[w] # "run"
  BY DEF IInv, ControlInv, PopFindsTask, WorkerPop, WorkerMoves
<1>2. Running' = Running \cup {w} /\ w \notin Running
  BY DEF Running, WorkerPop, WorkerMoves, IInv, TypeOK
<1>3. \A v \in Workers : task'[v] = IF v = w THEN Head(tasks) ELSE task[v]
  BY DEF WorkerPop, IInv, TypeOK
<1>4. RunningTasks' = RunningTasks \cup {Head(tasks)}
  BY <1>2, <1>3 DEF RunningTasks, Running
<1>5. Cardinality(RunningTasks) < Cardinality(Workers)
  BY <1>1, RoomToStart DEF IInv
<1>6. /\ tasks' = Tail(tasks) /\ Phase' = Phase
      /\ UNCHANGED <<finished, refused, terminated>>
  BY DEF WorkerPop, Phase
<1>7. Pool!Cardinality(RunningTasks) = Cardinality(RunningTasks)
  BY DEF Pool!Cardinality, Cardinality
<1> QED
  BY <1>1, <1>4, <1>5, <1>6, <1>7 DEF Pool!Start

\* A task that returns was running, on no other worker.
LEMMA ReturnRefines ==
  ASSUME IInv, NEW w \in Workers, TaskReturns(w)
  PROVE  task[w] \in Tasks /\ Pool!Finish(task[w])
<1>1. Running' = Running \ {w} /\ w \in Running
  BY DEF Running, TaskReturns, WorkerMoves, IInv, TypeOK
<1>2. \A v \in Workers : task'[v] = IF v = w THEN NoTask ELSE task[v]
  BY DEF TaskReturns, IInv, TypeOK
<1>3. RunningTasks' = RunningTasks \ {task[w]} /\ task[w] \in RunningTasks
  BY <1>1, <1>2 DEF RunningTasks, Running, IInv, TaskAccounting
<1>4. task[w] \in Tasks
  BY <1>1 DEF Running, IInv, TypeOK, ClosureInv
<1>5. Pool!Finish(task[w])
  BY <1>3 DEF Pool!Finish, TaskReturns, WorkerMoves, Phase
<1> QED
  BY <1>4, <1>5

LEMMA ThrowRefines ==
  ASSUME NEW w \in Workers, TaskThrows(w)
  PROVE  Pool!Crash
<1>1. w \in Running
  BY DEF TaskThrows, Running
<1>2. RunningTasks # {} /\ RunningTasks' = RunningTasks
  BY <1>1 DEF TaskThrows, RunningTasks, Running
<1> QED
  BY <1>2 DEF TaskThrows, Pool!Crash, Phase

\* The worker's other steps are the pool's own business.
LEMMA QuietWorkerRefines ==
  ASSUME IInv, NEW w \in Workers,
         \/ WorkerAcquire(w) \/ WorkerTest(w) \/ WorkerBlock(w)
         \/ WorkerExit(w) \/ SpuriousWakeup(w)
  PROVE  UNCHANGED Pool!poolVars
<1>1. UNCHANGED <<tasks, stop, task, callerPc, refused, finished, terminated>>
  BY DEF WorkerAcquire, WorkerTest, WorkerBlock, SpuriousWakeup, WorkerExit
<1>2. Running' = Running
  BY DEF WorkerAcquire, WorkerTest, WorkerBlock, SpuriousWakeup,
         WorkerExit, WorkerMoves, Running, IInv, TypeOK
<1> QED
  BY <1>1, <1>2 DEF Pool!poolVars, RunningTasks, Phase

\* What the caller of enqueue holds is known to nobody yet.
LEMMA ArgumentUnknown ==
  ASSUME IInv, NEW c \in Callers, callerPc[c] = "locked"
  PROVE  /\ argument[c] \in Tasks
         /\ argument[c] \notin Pool!Known
<1>1. argument[c] \in Tasks /\ argument[c] \notin accepted \cup refused
  BY DEF IInv, TypeOK, ClosureInv
<1>2. Pool!Known = accepted \cup refused
  BY DEF Pool!Known, Pool!Queued, Queued, IInv, TaskAccounting
<1> QED
  BY <1>1, <1>2

LEMMA PushRefines ==
  ASSUME IInv, NEW c \in Callers, EnqueuePush(c)
  PROVE  argument[c] \in Tasks /\ Pool!Submit(argument[c])
<1> USE DEF IInv, TypeOK, CallerMoves
<1>1. argument[c] \in Tasks /\ argument[c] \notin Pool!Known
  BY ArgumentUnknown DEF EnqueuePush
<1>2. RunningTasks' = RunningTasks
  BY DEF EnqueuePush, RunningTasks, Running
<1>3. callerPc[Owner] # "destroyed" /\ callerPc'[Owner] # "destroyed"
  BY DEF EnqueuePush, ControlInv
<1>4. Pool!Submit(argument[c])
  BY <1>1, <1>2, <1>3 DEF EnqueuePush, Pool!Submit, Phase
<1> QED
  BY <1>1, <1>4

LEMMA ThrowFromEnqueueRefines ==
  ASSUME IInv, NEW c \in Callers, EnqueueThrow(c)
  PROVE  argument[c] \in Tasks /\ Pool!Refuse(argument[c])
<1> USE DEF IInv, TypeOK, CallerMoves
<1>1. argument[c] \in Tasks /\ argument[c] \notin Pool!Known
  BY ArgumentUnknown DEF EnqueueThrow
<1>2. RunningTasks' = RunningTasks
  BY DEF EnqueueThrow, RunningTasks, Running
<1>3. callerPc'[Owner] = "destroyed" <=> callerPc[Owner] = "destroyed"
  BY ThreadsAssumption DEF EnqueueThrow
<1>4. Pool!Refuse(argument[c])
  BY <1>1, <1>2, <1>3 DEF EnqueueThrow, Pool!Refuse, Phase
<1> QED
  BY <1>1, <1>4

LEMMA QuietCallerRefines ==
  ASSUME IInv, NEW c \in Callers, NEW t, EnqueueNotify(c) \/ EnqueueLock(c, t)
  PROVE  UNCHANGED Pool!poolVars
<1> USE DEF IInv, TypeOK, CallerMoves
<1>1. UNCHANGED <<tasks, stop, task, refused, finished, terminated>>
  BY DEF EnqueueNotify, EnqueueLock
<1>2. Running' = Running
  BY DEF EnqueueNotify, EnqueueLock, Running, Blocked
<1>3. callerPc'[Owner] = "destroyed" <=> callerPc[Owner] = "destroyed"
  BY ThreadsAssumption DEF EnqueueNotify, EnqueueLock
<1> QED
  BY <1>1, <1>2, <1>3 DEF Pool!poolVars, RunningTasks, Phase

LEMMA StopRefines == IInv /\ DtorStop => Pool!Close
<1> SUFFICES ASSUME IInv, DtorStop PROVE Pool!Close
  OBVIOUS
<1> USE ThreadsAssumption DEF IInv, TypeOK, CallerMoves
<1>1. ~stop /\ ~terminated /\ stop'
  BY DEF DtorStop, ControlInv
<1>2. Phase = "open" /\ Phase' = "closing"
  BY <1>1 DEF DtorStop, Phase
<1> QED
  BY <1>1, <1>2 DEF DtorStop, Pool!Close, RunningTasks, Running

\* Every worker has left, and each left the queue empty; without workers the
\* queue may hold something.
LEMMA JoinRefines == IInv /\ DtorJoin => Pool!Dispose
<1> SUFFICES ASSUME IInv, DtorJoin PROVE Pool!Dispose
  OBVIOUS
<1> USE ThreadsAssumption DEF IInv, TypeOK, CallerMoves
<1>1. RunningTasks = {} /\ RunningTasks' = {}
  BY DEF DtorJoin, RunningTasks, Running
<1>2. Cardinality(Workers) > 0 => tasks = <<>>
  <2> SUFFICES ASSUME tasks # <<>> PROVE Cardinality(Workers) = 0
    BY FS_CardinalityType
  <2>1. Workers = {}
    BY DEF DtorJoin, ControlInv
  <2> QED
    BY <2>1, FS_EmptySet
<1>3. Phase = "closing" /\ Phase' = "closed"
  BY DEF DtorJoin, Phase, ControlInv
<1> QED
  BY <1>1, <1>2, <1>3 DEF DtorJoin, Pool!Dispose

LEMMA QuietDtorRefines ==
  IInv /\ (DtorEnter \/ DtorLock \/ DtorNotifyAll) => UNCHANGED Pool!poolVars
<1> SUFFICES ASSUME IInv, DtorEnter \/ DtorLock \/ DtorNotifyAll
             PROVE  UNCHANGED Pool!poolVars
  OBVIOUS
<1> USE ThreadsAssumption DEF IInv, TypeOK, CallerMoves
<1>1. UNCHANGED <<tasks, stop, task, refused, finished, terminated>>
  BY DEF DtorEnter, DtorLock, DtorNotifyAll
<1>2. Running' = Running
  BY DEF DtorEnter, DtorLock, DtorNotifyAll, Running, Blocked
<1>3. callerPc'[Owner] = "destroyed" <=> callerPc[Owner] = "destroyed"
  BY DEF DtorEnter, DtorLock, DtorNotifyAll
<1> QED
  BY <1>1, <1>2, <1>3 DEF Pool!poolVars, RunningTasks, Phase

LEMMA NextRefines == IInv /\ [Next]_vars => [Pool!Next]_(Pool!poolVars)
<1> SUFFICES ASSUME IInv, [Next]_vars
             PROVE  Pool!Next \/ UNCHANGED Pool!poolVars
  OBVIOUS
<1>1. CASE UNCHANGED vars
  BY <1>1 DEF vars, Pool!poolVars, RunningTasks, Running, Phase
<1>2. ASSUME NEW w \in Workers, WorkerStep(w) \/ SpuriousWakeup(w)
      PROVE  Pool!Next \/ UNCHANGED Pool!poolVars
  BY <1>2, PopRefines, ReturnRefines, ThrowRefines, QuietWorkerRefines
  DEF WorkerStep, Pool!Next
<1>3. ASSUME NEW c \in Callers, NEW t, EnqueueStep(c) \/ EnqueueLock(c, t)
      PROVE  Pool!Next \/ UNCHANGED Pool!poolVars
  BY <1>3, PushRefines, ThrowFromEnqueueRefines, QuietCallerRefines
  DEF EnqueueStep, Pool!Next
<1>4. ASSUME NEW c \in Callers, EnqueueStep(c)
      PROVE  Pool!Next \/ UNCHANGED Pool!poolVars
  BY <1>3, <1>4
<1>5. CASE DtorEnter \/ DtorStep
  BY <1>5, StopRefines, JoinRefines, QuietDtorRefines DEF DtorStep, Pool!Next
<1> QED
  BY <1>1, <1>2, <1>3, <1>4, <1>5 DEF Next, Halted

\* The locks, the condition variable and the loops implement TaskPool: tasks
\* start in the order enqueue accepted them, at most one per worker at a time,
\* and the destructor returns only when nothing is queued or running.
THEOREM Refinement == Spec => ImplementsTaskPool
<1>1. Spec => Pool!Spec
  BY InitRefines, NextRefines, Invariant, PTL DEF Spec, Pool!Spec
<1> QED
  BY <1>1 DEF ImplementsTaskPool

=============================================================================
