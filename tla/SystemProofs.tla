---------------------------- MODULE SystemProofs ----------------------------
(***************************************************************************)
(* Theorems of System, for every set of clients, workers, handles and      *)
(* console events, with or without TLS: the server on the real pool        *)
(* implements the server on the abstract one, so what is proved of Server  *)
(* and of ThreadPool holds of the program they make up together.           *)
(*                                                                         *)
(* The theorems of the two modules are cited through instances of their    *)
(* proof modules, with System's own substitutions.                         *)
(***************************************************************************)
EXTENDS System, FiniteSetTheorems, SequenceTheorems, TLAPS

PoolP == INSTANCE ThreadPoolProofs WITH
  Tasks <- Clients, Callers <- {Main}, Owner <- Main

SrvP == INSTANCE ServerProofs WITH
  Capacity <- Cardinality(Workers),
  backlog <- tasks,
  active <- Pool!RunningTasks,
  phase <- Pool!Phase,
  crashed <- terminated

-----------------------------------------------------------------------------
(* The assumptions of the two modules hold of System's constants.          *)

LEMMA PoolAssumption == PoolP!ThreadsAssumption
<1>1. IsFiniteSet({Main})
  BY FS_Singleton
<1>2. \A S : PoolP!IsFiniteSet(S) <=> IsFiniteSet(S)
  BY DEF PoolP!IsFiniteSet, IsFiniteSet
<1> QED
  BY <1>1, <1>2, SystemAssumption DEF PoolP!ThreadsAssumption

LEMMA ServerIsAssumption == SrvP!ServerAssumption
<1>1. \A S : SrvP!IsFiniteSet(S) <=> IsFiniteSet(S)
  BY DEF SrvP!IsFiniteSet, IsFiniteSet
<1>2. Cardinality(Workers) \in Nat
  BY SystemAssumption, FS_CardinalityType
<1> QED
  BY <1>1, <1>2, SystemAssumption DEF SrvP!ServerAssumption

-----------------------------------------------------------------------------
(* The instances that System's steps are made of and those of the proof     *)
(* modules are the same formulas.                                          *)

LEMMA SamePoolInvariant == Pool!IInv <=> PoolP!IInv
  BY
  DEF Pool!IInv, PoolP!IInv, Pool!TypeOK, PoolP!TypeOK, Pool!ControlInv,
      PoolP!ControlInv, Pool!ClosureInv, PoolP!ClosureInv, Pool!TaskAccounting,
      PoolP!TaskAccounting, Pool!WakeupsCoverBacklog, PoolP!WakeupsCoverBacklog,
      Pool!WorkerPcs, PoolP!WorkerPcs, Pool!EnqueuePcs, PoolP!EnqueuePcs,
      Pool!DtorPcs, PoolP!DtorPcs, Pool!WorkerHolds, PoolP!WorkerHolds,
      Pool!CallerHolds, PoolP!CallerHolds, Pool!PopFindsTask, PoolP!PopFindsTask,
      Pool!NobodySleepsThroughStop, PoolP!NobodySleepsThroughStop, Pool!Queued,
      PoolP!Queued, Pool!Running, PoolP!Running, Pool!RunningTasks,
      PoolP!RunningTasks, Pool!Blocked, PoolP!Blocked, Pool!Notifying,
      PoolP!Notifying, Pool!Awake, PoolP!Awake, Pool!Cardinality, PoolP!Cardinality

LEMMA SamePoolInit == Pool!Init <=> PoolP!Init
  BY DEF Pool!Init, PoolP!Init

LEMMA SamePoolNext == [Pool!Next]_(Pool!vars) <=> [PoolP!Next]_(PoolP!vars)
  BY
  DEF Pool!Init, PoolP!Init, Pool!vars, PoolP!vars, Pool!Next, PoolP!Next,
      Pool!Halted, PoolP!Halted, Pool!WorkerStep, PoolP!WorkerStep,
      Pool!EnqueueStep, PoolP!EnqueueStep, Pool!DtorStep, PoolP!DtorStep,
      Pool!WorkerAcquire, PoolP!WorkerAcquire, Pool!WorkerTest, PoolP!WorkerTest,
      Pool!WorkerBlock, PoolP!WorkerBlock, Pool!SpuriousWakeup,
      PoolP!SpuriousWakeup, Pool!WorkerExit, PoolP!WorkerExit, Pool!WorkerPop,
      PoolP!WorkerPop, Pool!TaskReturns, PoolP!TaskReturns, Pool!TaskThrows,
      PoolP!TaskThrows, Pool!EnqueueLock, PoolP!EnqueueLock, Pool!EnqueueThrow,
      PoolP!EnqueueThrow, Pool!EnqueuePush, PoolP!EnqueuePush, Pool!EnqueueNotify,
      PoolP!EnqueueNotify, Pool!DtorEnter, PoolP!DtorEnter, Pool!DtorLock,
      PoolP!DtorLock, Pool!DtorStop, PoolP!DtorStop, Pool!DtorNotifyAll,
      PoolP!DtorNotifyAll, Pool!DtorJoin, PoolP!DtorJoin, Pool!WorkerMoves,
      PoolP!WorkerMoves, Pool!CallerMoves, PoolP!CallerMoves, Pool!Fresh,
      PoolP!Fresh, Pool!Blocked, PoolP!Blocked

LEMMA SameServerInvariant == Srv!IInv <=> SrvP!IInv
  BY
  DEF Srv!IInv, SrvP!IInv, Srv!TypeOK, SrvP!TypeOK, Srv!MainPcs, SrvP!MainPcs,
      Srv!HandlerPcs, SrvP!HandlerPcs, Srv!HandleInv, SrvP!HandleInv,
      Srv!HandlersOwnTheirHandles, SrvP!HandlersOwnTheirHandles, Srv!HandlerInv,
      SrvP!HandlerInv, Srv!PoolInv, SrvP!PoolInv, Srv!BeforePool, SrvP!BeforePool,
      Srv!AfterPool, SrvP!AfterPool, Srv!NoHandlerOutlivesRun,
      SrvP!NoHandlerOutlivesRun, Srv!NothingLeftOpen, SrvP!NothingLeftOpen,
      Srv!Pool!Queued, SrvP!Pool!Queued, Srv!Pool!TypeOK, SrvP!Pool!TypeOK

LEMMA SameServerInit == Srv!Init <=> SrvP!Init
  BY DEF Srv!Init, SrvP!Init, Srv!Pool!Init, SrvP!Pool!Init

LEMMA SameServerNext == [Srv!Next]_(Srv!vars) <=> [SrvP!Next]_(SrvP!vars)
  BY
  DEF Srv!Init, SrvP!Init, Srv!vars, SrvP!vars, Srv!poolVars, SrvP!poolVars,
      Srv!mainVars, SrvP!mainVars, Srv!osVars, SrvP!osVars, Srv!handlerVars,
      SrvP!handlerVars, Srv!Next, SrvP!Next, Srv!MainStep, SrvP!MainStep,
      Srv!HandlerStep, SrvP!HandlerStep, Srv!ClientStep, SrvP!ClientStep,
      Srv!StopStep, SrvP!StopStep, Srv!Halted, SrvP!Halted, Srv!Closed, SrvP!Closed,
      Srv!FreeHandles, SrvP!FreeHandles, Srv!IsListening, SrvP!IsListening,
      Srv!Accepted, SrvP!Accepted, Srv!Connect, SrvP!Connect, Srv!MainMoves,
      SrvP!MainMoves, Srv!Register, SrvP!Register, Srv!OpenSocket, SrvP!OpenSocket,
      Srv!OpenSocketFails, SrvP!OpenSocketFails, Srv!BindListen, SrvP!BindListen,
      Srv!BindListenFails, SrvP!BindListenFails, Srv!SetRunning, SrvP!SetRunning,
      Srv!LoopTest, SrvP!LoopTest, Srv!AcceptClient, SrvP!AcceptClient,
      Srv!AcceptFails, SrvP!AcceptFails, Srv!AcceptFailsForOnce,
      SrvP!AcceptFailsForOnce, Srv!HandOver, SrvP!HandOver, Srv!EnqueueClient,
      SrvP!EnqueueClient, Srv!CloseListener, SrvP!CloseListener, Srv!EnterPoolDtor,
      SrvP!EnterPoolDtor, Srv!ClosePool, SrvP!ClosePool, Srv!LeavePoolDtor,
      SrvP!LeavePoolDtor, Srv!JoinPool, SrvP!JoinPool, Srv!DestroyServer,
      SrvP!DestroyServer, Srv!ExitProcess, SrvP!ExitProcess, Srv!HandlerMoves,
      SrvP!HandlerMoves, Srv!Finale, SrvP!Finale, Srv!BeginHandler,
      SrvP!BeginHandler, Srv!HandleClient, SrvP!HandleClient, Srv!Handshake,
      SrvP!Handshake, Srv!ReadRequest, SrvP!ReadRequest, Srv!Respond, SrvP!Respond,
      Srv!HandlerFails, SrvP!HandlerFails, Srv!HandlerThrows, SrvP!HandlerThrows,
      Srv!ReleaseSSL, SrvP!ReleaseSSL, Srv!EndHandler, SrvP!EndHandler,
      Srv!CloseClient, SrvP!CloseClient, Srv!StopMoves, SrvP!StopMoves,
      Srv!ConsoleEvent, SrvP!ConsoleEvent, Srv!StopClears, SrvP!StopClears,
      Srv!StopCloses, SrvP!StopCloses, Srv!Pool!Init, SrvP!Pool!Init,
      Srv!Pool!Submit, SrvP!Pool!Submit, Srv!Pool!Start, SrvP!Pool!Start,
      Srv!Pool!Finish, SrvP!Pool!Finish, Srv!Pool!Crash, SrvP!Pool!Crash,
      Srv!Pool!Close, SrvP!Pool!Close, Srv!Pool!Dispose, SrvP!Pool!Dispose,
      Srv!Pool!Queued, SrvP!Pool!Queued, Srv!Pool!Known, SrvP!Pool!Known,
      Srv!Pool!Cardinality, SrvP!Pool!Cardinality

LEMMA PoolKeepsItsInvariant ==
  /\ Pool!Init => Pool!IInv
  /\ Pool!IInv /\ [Pool!Next]_(Pool!vars) => Pool!IInv'
<1>1. Pool!Init => Pool!IInv
  BY SamePoolInit, SamePoolInvariant, PoolP!InitIInv, PoolAssumption
<1>2. Pool!IInv' <=> PoolP!IInv'
  BY SamePoolInvariant, PTL
<1>3. Pool!IInv /\ [Pool!Next]_(Pool!vars) => Pool!IInv'
  BY <1>2, SamePoolNext, SamePoolInvariant, PoolP!NextIInv, PoolAssumption
<1> QED
  BY <1>1, <1>3

LEMMA ServerKeepsItsInvariant ==
  /\ Srv!Init => Srv!IInv
  /\ Srv!IInv /\ [Srv!Next]_(Srv!vars) => Srv!IInv'
<1>1. Srv!Init => Srv!IInv
  BY SameServerInit, SameServerInvariant, SrvP!InitIInv, ServerIsAssumption
<1>2. Srv!IInv' <=> SrvP!IInv'
  BY SameServerInvariant, PTL
<1>3. Srv!IInv /\ [Srv!Next]_(Srv!vars) => Srv!IInv'
  BY <1>2, SameServerNext, SameServerInvariant, SrvP!NextIInv, ServerIsAssumption
<1> QED
  BY <1>1, <1>3

-----------------------------------------------------------------------------
(* The pool's part of each joint step, as the operation of TaskPool that    *)
(* Server expects: ThreadPoolProofs has it, for any caller and any owner.  *)

LEMMA PopIsStart ==
  ASSUME Pool!IInv, NEW w \in Workers, Pool!WorkerPop(w)
  PROVE  Srv!Pool!Start
<1>1. PoolP!WorkerPop(w)
  BY DEF Pool!WorkerPop, PoolP!WorkerPop, Pool!WorkerMoves, PoolP!WorkerMoves
<1>2. PoolP!Pool!Start
  BY <1>1, SamePoolInvariant, PoolAssumption, PoolP!PopRefines
<1> QED
  BY <1>2
  DEF PoolP!Pool!Start, Srv!Pool!Start, PoolP!RunningTasks, Pool!RunningTasks,
      PoolP!Running, Pool!Running, PoolP!Phase, Pool!Phase, Cardinality,
      PoolP!Cardinality, PoolP!Pool!Cardinality, Srv!Pool!Cardinality

LEMMA ReturnIsFinish ==
  ASSUME Pool!IInv, NEW w \in Workers, Pool!TaskReturns(w)
  PROVE  task[w] \in Clients /\ Srv!Pool!Finish(task[w])
<1>1. PoolP!TaskReturns(w)
  BY DEF Pool!TaskReturns, PoolP!TaskReturns, Pool!WorkerMoves, PoolP!WorkerMoves
<1>2. task[w] \in Clients /\ PoolP!Pool!Finish(task[w])
  BY <1>1, SamePoolInvariant, PoolAssumption, PoolP!ReturnRefines
<1> QED
  BY <1>2
  DEF PoolP!Pool!Finish, Srv!Pool!Finish, PoolP!RunningTasks, Pool!RunningTasks,
      PoolP!Running, Pool!Running, PoolP!Phase, Pool!Phase

LEMMA ThrowIsCrash ==
  ASSUME NEW w \in Workers, Pool!TaskThrows(w)
  PROVE  Srv!Pool!Crash
<1>1. PoolP!TaskThrows(w)
  BY DEF Pool!TaskThrows, PoolP!TaskThrows
<1>2. PoolP!Pool!Crash
  BY <1>1, PoolAssumption, PoolP!ThrowRefines
<1> QED
  BY <1>2
  DEF PoolP!Pool!Crash, Srv!Pool!Crash, PoolP!RunningTasks, Pool!RunningTasks,
      PoolP!Running, Pool!Running, PoolP!Phase, Pool!Phase

LEMMA PushIsSubmit ==
  ASSUME Pool!IInv, Pool!EnqueuePush(Main)
  PROVE  Srv!Pool!Submit(argument[Main])
<1>1. PoolP!EnqueuePush(Main)
  BY DEF Pool!EnqueuePush, PoolP!EnqueuePush, Pool!CallerMoves, PoolP!CallerMoves
<1>2. PoolP!Pool!Submit(argument[Main])
  BY <1>1, SamePoolInvariant, PoolAssumption, PoolP!PushRefines
<1> QED
  BY <1>2
  DEF PoolP!Pool!Submit, Srv!Pool!Submit, PoolP!RunningTasks, Pool!RunningTasks,
      PoolP!Running, Pool!Running, PoolP!Phase, Pool!Phase,
      PoolP!Pool!Known, Srv!Pool!Known, PoolP!Pool!Queued, Srv!Pool!Queued

LEMMA StopIsClose == Pool!IInv /\ Pool!DtorStop => Srv!Pool!Close
<1> SUFFICES ASSUME Pool!IInv, Pool!DtorStop PROVE Srv!Pool!Close
  OBVIOUS
<1>1. PoolP!DtorStop
  BY DEF Pool!DtorStop, PoolP!DtorStop, Pool!CallerMoves, PoolP!CallerMoves
<1>2. PoolP!Pool!Close
  BY <1>1, SamePoolInvariant, PoolAssumption, PoolP!StopRefines
<1> QED
  BY <1>2
  DEF PoolP!Pool!Close, Srv!Pool!Close, PoolP!RunningTasks, Pool!RunningTasks,
      PoolP!Running, Pool!Running, PoolP!Phase, Pool!Phase

LEMMA JoinIsDispose == Pool!IInv /\ Pool!DtorJoin => Srv!Pool!Dispose
<1> SUFFICES ASSUME Pool!IInv, Pool!DtorJoin PROVE Srv!Pool!Dispose
  OBVIOUS
<1>1. PoolP!DtorJoin
  BY DEF Pool!DtorJoin, PoolP!DtorJoin, Pool!CallerMoves, PoolP!CallerMoves
<1>2. PoolP!Pool!Dispose
  BY <1>1, SamePoolInvariant, PoolAssumption, PoolP!JoinRefines
<1> QED
  BY <1>2
  DEF PoolP!Pool!Dispose, Srv!Pool!Dispose, PoolP!RunningTasks, Pool!RunningTasks,
      PoolP!Running, Pool!Running, PoolP!Phase, Pool!Phase, Cardinality,
      PoolP!Cardinality, PoolP!Pool!Cardinality, Srv!Pool!Cardinality

\* The pool's other steps change nothing that Server sees of it.
QuietPoolStep ==
  \/ \E w \in Workers : \/ Pool!WorkerAcquire(w) \/ Pool!WorkerTest(w) \/ Pool!WorkerBlock(w)
                        \/ Pool!WorkerExit(w) \/ Pool!SpuriousWakeup(w)
  \/ \E c \in Clients : Pool!EnqueueLock(Main, c)
  \/ Pool!EnqueueNotify(Main)
  \/ Pool!DtorEnter \/ Pool!DtorLock \/ Pool!DtorNotifyAll

LEMMA QuietPoolStepIsUnseen == Pool!IInv /\ QuietPoolStep => UNCHANGED Srv!Pool!poolVars
<1> DEFINE Unseen == UNCHANGED PoolP!Pool!poolVars
<1> SUFFICES ASSUME Pool!IInv, QuietPoolStep PROVE Unseen
  BY DEF PoolP!Pool!poolVars, Srv!Pool!poolVars, PoolP!RunningTasks, Pool!RunningTasks,
         PoolP!Running, Pool!Running, PoolP!Phase, Pool!Phase
<1>1. ASSUME NEW w \in Workers,
             \/ Pool!WorkerAcquire(w) \/ Pool!WorkerTest(w) \/ Pool!WorkerBlock(w)
             \/ Pool!WorkerExit(w) \/ Pool!SpuriousWakeup(w)
      PROVE  Unseen
  <2>1. \/ PoolP!WorkerAcquire(w) \/ PoolP!WorkerTest(w) \/ PoolP!WorkerBlock(w)
        \/ PoolP!WorkerExit(w) \/ PoolP!SpuriousWakeup(w)
    BY <1>1
    DEF Pool!WorkerAcquire, PoolP!WorkerAcquire, Pool!WorkerTest, PoolP!WorkerTest,
        Pool!WorkerBlock, PoolP!WorkerBlock, Pool!WorkerExit, PoolP!WorkerExit,
        Pool!SpuriousWakeup, PoolP!SpuriousWakeup, Pool!WorkerMoves, PoolP!WorkerMoves
  <2> QED
    BY <2>1, SamePoolInvariant, PoolAssumption, PoolP!QuietWorkerRefines
<1>2. ASSUME NEW c \in Clients, Pool!EnqueueLock(Main, c)
      PROVE  Unseen
  <2>1. PoolP!EnqueueLock(Main, c)
    BY <1>2
    DEF Pool!EnqueueLock, PoolP!EnqueueLock, Pool!CallerMoves, PoolP!CallerMoves,
        Pool!Fresh, PoolP!Fresh
  <2> QED
    BY <2>1, SamePoolInvariant, PoolAssumption, PoolP!QuietCallerRefines
<1>3. CASE Pool!DtorEnter \/ Pool!DtorLock \/ Pool!DtorNotifyAll
  <2>1. PoolP!DtorEnter \/ PoolP!DtorLock \/ PoolP!DtorNotifyAll
    BY <1>3
    DEF Pool!DtorEnter, PoolP!DtorEnter, Pool!DtorLock, PoolP!DtorLock,
        Pool!DtorNotifyAll, PoolP!DtorNotifyAll, Pool!CallerMoves, PoolP!CallerMoves,
        Pool!Blocked, PoolP!Blocked
  <2> QED
    BY <2>1, SamePoolInvariant, PoolAssumption, PoolP!QuietDtorRefines
<1>4. CASE Pool!EnqueueNotify(Main)
  <2>1. PoolP!EnqueueNotify(Main)
    BY <1>4
    DEF Pool!EnqueueNotify, PoolP!EnqueueNotify, Pool!CallerMoves, PoolP!CallerMoves,
        Pool!Blocked, PoolP!Blocked
  <2> QED
    BY <2>1, SamePoolInvariant, PoolAssumption, PoolP!QuietCallerRefines
<1> QED
  BY <1>1, <1>2, <1>3, <1>4 DEF QuietPoolStep

-----------------------------------------------------------------------------
(* The two refinements.                                                    *)

\* Every step of the program is a step of the pool as ThreadPool describes it,
\* or leaves the pool alone.
LEMMA NextIsPoolStep == [Next]_vars => [Pool!Next]_(Pool!vars)
<1> SUFFICES ASSUME [Next]_vars PROVE Pool!Next \/ UNCHANGED Pool!vars
  OBVIOUS
<1> DEFINE Goal == Pool!Next \/ UNCHANGED Pool!vars
<1>1. UNCHANGED poolVars => Goal
  BY DEF poolVars, Pool!vars
<1>2. CASE MainStep
  <2>1. CASE MainAlone
    BY <1>1, <2>1 DEF MainAlone
  <2>2. ASSUME NEW c \in Clients, EnqueueLock(c) \/ EnqueuePush(c)
        PROVE  Goal
    BY <2>2 DEF EnqueueLock, EnqueuePush, Pool!Next, Pool!EnqueueStep
  <2>3. CASE EnqueueNotify \/ DtorEnter \/ DtorStop \/ DtorWaits \/ DtorJoin
    BY <2>3 DEF EnqueueNotify, DtorEnter, DtorStop, DtorWaits, DtorJoin,
                Pool!Next, Pool!EnqueueStep, Pool!DtorStep
  <2> QED
    BY <1>2, <2>1, <2>2, <2>3 DEF MainStep
<1>3. ASSUME NEW w \in Workers, WorkerStep(w) \/ SpuriousWakeup(w) \/ ClientStep(w)
      PROVE  Goal
  BY <1>1, <1>3 DEF WorkerStep, WorkerAlone, BeginTask, HandlerAlone, EndTask,
                    SpuriousWakeup, ClientStep, Pool!Next, Pool!WorkerStep
<1>4. ASSUME NEW c \in Clients, Connect(c) \/ Accept(c)
      PROVE  Goal
  BY <1>1, <1>4 DEF Connect, Accept
<1>5. ASSUME NEW s \in Signals, ConsoleEvent(s) \/ StopStep(s)
      PROVE  Goal
  BY <1>1, <1>5 DEF ConsoleEvent, StopStep
<1>6. CASE AcceptFailsForOnce \/ UNCHANGED vars
  BY <1>1, <1>6 DEF AcceptFailsForOnce, vars
<1> QED
  BY <1>2, <1>3, <1>4, <1>5, <1>6 DEF Next

\* Server's view of a step that leaves both the server and the abstract pool
\* alone.
LEMMA UnseenByServer ==
  UNCHANGED serverVars /\ UNCHANGED Srv!Pool!poolVars => UNCHANGED Srv!vars
  BY DEF serverVars, Srv!vars, Srv!mainVars, Srv!osVars, Srv!handlerVars, Srv!poolVars,
         Srv!Pool!poolVars

LEMMA UnchangedPoolUnseen == UNCHANGED poolVars => UNCHANGED Srv!Pool!poolVars
  BY DEF poolVars, Srv!Pool!poolVars, Pool!RunningTasks, Pool!Running, Pool!Phase

\* Every step of the program is a step of Server on the abstract pool, or one
\* that Server does not see.
LEMMA NextRefines == Pool!IInv /\ [Next]_vars => [Srv!Next]_(Srv!vars)
<1> DEFINE Goal == Srv!Next \/ UNCHANGED Srv!vars
<1> SUFFICES ASSUME Pool!IInv, [Next]_vars PROVE Goal
  OBVIOUS
<1>1. QuietPoolStep /\ UNCHANGED serverVars => Goal
  BY QuietPoolStepIsUnseen, UnseenByServer
<1>2. CASE MainStep
  <2>1. CASE MainAlone
    BY <2>1 DEF MainAlone, Srv!Next, Srv!MainStep
  <2>2. ASSUME NEW c \in Clients, EnqueueLock(c)
        PROVE  Goal
    BY <1>1, <2>2 DEF EnqueueLock, QuietPoolStep
  <2>3. ASSUME NEW c \in Clients, EnqueuePush(c)
        PROVE  Goal
    <3>1. Srv!EnqueueClient(c)
      BY <2>3, PushIsSubmit DEF EnqueuePush, Srv!EnqueueClient
    <3> QED
      BY <3>1 DEF Srv!Next, Srv!MainStep
  <2>4. CASE EnqueueNotify \/ DtorEnter \/ DtorWaits
    BY <1>1, <2>4 DEF EnqueueNotify, DtorEnter, DtorWaits, QuietPoolStep
  <2>5. CASE DtorStop
    <3>1. Srv!ClosePool
      BY <2>5, StopIsClose DEF DtorStop, Srv!ClosePool
    <3> QED
      BY <3>1 DEF Srv!Next, Srv!MainStep
  <2>6. CASE DtorJoin
    <3>1. Srv!JoinPool
      BY <2>6, JoinIsDispose DEF DtorJoin, Srv!JoinPool
    <3> QED
      BY <3>1 DEF Srv!Next, Srv!MainStep
  <2> QED
    BY <1>2, <2>1, <2>2, <2>3, <2>4, <2>5, <2>6 DEF MainStep
<1>3. ASSUME NEW w \in Workers, WorkerStep(w) \/ SpuriousWakeup(w) \/ ClientStep(w)
      PROVE  Goal
  <2>1. CASE WorkerAlone(w) \/ SpuriousWakeup(w)
    BY <1>1, <2>1 DEF WorkerAlone, SpuriousWakeup, QuietPoolStep
  <2>2. CASE BeginTask(w)
    <3>1. task'[w] = Head(tasks) /\ tasks \in Seq(Clients)
      BY <2>2 DEF BeginTask, Pool!WorkerPop, Pool!IInv, Pool!TypeOK
    <3>2. Srv!Pool!Start /\ Srv!BeginHandler(Head(tasks))
      BY <2>2, <3>1, PopIsStart DEF BeginTask
    <3>3. tasks # <<>>
      BY <3>2 DEF Srv!Pool!Start
    <3>4. Head(tasks) \in Clients /\ Srv!HandleClient(Head(tasks))
      BY <3>1, <3>2, <3>3 DEF Srv!HandleClient
    <3> QED
      BY <3>4 DEF Srv!Next, Srv!HandlerStep
  <2>3. CASE EndTask(w)
    <3>1. task[w] \in Clients /\ Srv!CloseClient(task[w])
      BY <2>3, ReturnIsFinish DEF EndTask, Srv!CloseClient
    <3> QED
      BY <3>1 DEF Srv!Next, Srv!HandlerStep
  <2>4. CASE HandlerAlone(w) \/ ClientStep(w)
    <3>1. task[w] \in Clients
      BY <2>4 DEF HandlerAlone, ClientStep, Pool!TaskThrows,
                  Pool!IInv, Pool!TypeOK, Pool!ClosureInv
    <3>2. \/ Srv!ReleaseSSL(task[w]) \/ Srv!Handshake(task[w]) \/ Srv!ReadRequest(task[w])
          \/ Srv!Respond(task[w]) \/ Srv!HandlerThrows(task[w])
      BY <2>4, ThrowIsCrash DEF HandlerAlone, ClientStep, Srv!HandlerThrows
    <3> QED
      BY <3>1, <3>2 DEF Srv!Next, Srv!HandlerStep, Srv!ClientStep
  <2> QED
    BY <1>3, <2>1, <2>2, <2>3, <2>4 DEF WorkerStep
<1>4. ASSUME NEW c \in Clients, Connect(c) \/ Accept(c)
      PROVE  Goal
  BY <1>4 DEF Connect, Accept, Srv!Next
<1>5. ASSUME NEW s \in Signals, ConsoleEvent(s) \/ StopStep(s)
      PROVE  Goal
  BY <1>5 DEF ConsoleEvent, StopStep, Srv!Next, Srv!StopStep
<1>6. CASE AcceptFailsForOnce
  BY <1>6 DEF AcceptFailsForOnce, Srv!Next
<1>7. CASE UNCHANGED vars
  BY <1>7, UnchangedPoolUnseen, UnseenByServer DEF vars
<1> QED
  BY <1>2, <1>3, <1>4, <1>5, <1>6, <1>7 DEF Next

LEMMA InitRefines == Init => Srv!Init
  BY SystemAssumption
  DEF Init, Pool!Init, Srv!Init, Srv!Pool!Init, Pool!RunningTasks, Pool!Running, Pool!Phase

LEMMA PoolInvariant == Spec => []Pool!IInv
<1>1. Init => Pool!IInv
  BY PoolKeepsItsInvariant DEF Init
<1>2. Pool!IInv /\ [Next]_vars => Pool!IInv'
  BY PoolKeepsItsInvariant, NextIsPoolStep
<1> QED
  BY <1>1, <1>2, PTL DEF Spec

\* The program uses its pool as ThreadPool allows: every behaviour of System
\* is one of ThreadPool with main's thread as the only caller and owner.
THEOREM UsesThePool == Spec => Pool!Spec
<1>1. Init => Pool!Init
  BY DEF Init
<1> QED
  BY <1>1, NextIsPoolStep, PTL DEF Spec, Pool!Spec

\* The server on the locks, the condition variable and the worker loops of
\* threadpool.cpp implements the server on the abstract pool, step by step.
THEOREM Refinement == Spec => ImplementsServer
<1>1. Spec => Srv!Spec
  BY InitRefines, NextRefines, PoolInvariant, PTL DEF Spec, Srv!Spec
<1> QED
  BY <1>1 DEF ImplementsServer

-----------------------------------------------------------------------------
(* What ties the two modules together.                                     *)

LEMMA InitIInv == Init => IInv
<1> SUFFICES ASSUME Init PROVE IInv
  OBVIOUS
<1>1. Pool!IInv
  BY PoolKeepsItsInvariant DEF Init
<1>2. Srv!IInv
  BY InitRefines, ServerKeepsItsInvariant
<1>3. MainInv /\ WorkersInv
  BY DEF Init, Pool!Init, MainInv, WorkersInv
<1> QED
  BY <1>1, <1>2, <1>3 DEF IInv

\* Whatever a client's handler or the console closes, it is not the handle of
\* the connection that the thread of main is handing over.
LEMMA OthersKeepTheAcceptedHandle ==
  ASSUME Srv!IInv, mainPc = "enqueue", iClientFd' = iClientFd,
         \/ table' = table
         \/ table' = Srv!Closed(iServerFd)
         \/ \E c \in Clients : /\ handlerPc[c] \notin {"none", "returned"}
                               /\ table' = Srv!Closed(clientFd[c])
  PROVE  table'[iClientFd'] = table[iClientFd]
<1> USE DEF Srv!IInv, Srv!HandleInv, Srv!HandlersOwnTheirHandles, Srv!Closed
<1>1. iClientFd \in Handles /\ table[iClientFd] \in Clients
  OBVIOUS
<1>2. CASE table' = Srv!Closed(iServerFd)
  BY <1>1, <1>2
<1>3. ASSUME NEW c \in Clients, handlerPc[c] \notin {"none", "returned"},
             table' = Srv!Closed(clientFd[c])
      PROVE  table'[iClientFd'] = table[iClientFd]
  <2>1. clientFd[c] # NoHandle
    BY <1>3 DEF Srv!HandlerInv
  <2>2. c # table[iClientFd] /\ table[clientFd[c]] = c
    BY <1>3, <2>1
  <2> QED
    BY <1>1, <1>3, <2>2
<1> QED
  BY <1>2, <1>3

\* The steps that move the thread of main, in Run or in the pool.
LEMMA MainMainInv == IInv /\ (MainStep \/ AcceptFailsForOnce) => MainInv'
<1> SUFFICES ASSUME IInv, MainStep \/ AcceptFailsForOnce PROVE MainInv'
  OBVIOUS
<1> USE DEF IInv, MainInv
<1>0. callerPc \in [{Main} -> Pool!EnqueuePcs \cup Pool!DtorPcs] /\ argument \in [{Main} -> Clients \cup {NoTask}]
  BY DEF Pool!IInv, Pool!TypeOK
<1>1. CASE MainAlone \/ AcceptFailsForOnce
  <2>1. MainIsFree /\ UNCHANGED <<callerPc, argument, refused>>
    BY <1>1 DEF MainAlone, AcceptFailsForOnce, poolVars
  <2>2. callerPc[Main] = "destroyed" => mainPc' \in {"destroy", "returning", "exited"}
    BY <1>1
    DEF MainAlone, AcceptFailsForOnce, Srv!MainMoves, Srv!Register, Srv!OpenSocket,
        Srv!OpenSocketFails, Srv!BindListen, Srv!BindListenFails, Srv!SetRunning,
        Srv!LoopTest, Srv!AcceptFails, Srv!AcceptFailsForOnce, Srv!CloseListener,
        Srv!DestroyServer, Srv!ExitProcess
  <2> QED
    BY <2>1, <2>2 DEF MainIsFree
<1>2. ASSUME NEW c \in Clients, EnqueueLock(c) \/ EnqueuePush(c)
      PROVE  MainInv'
  BY <1>0, <1>2
  DEF EnqueueLock, EnqueuePush, Pool!EnqueueLock, Pool!EnqueuePush, Pool!CallerMoves,
      Srv!HandOver, Srv!MainMoves, serverVars
<1>3. CASE EnqueueNotify \/ DtorEnter \/ DtorStop \/ DtorWaits \/ DtorJoin
  BY <1>0, <1>3
  DEF EnqueueNotify, DtorEnter, DtorStop, DtorWaits, DtorJoin,
      Pool!EnqueueNotify, Pool!DtorEnter, Pool!DtorStop, Pool!DtorLock,
      Pool!DtorNotifyAll, Pool!DtorJoin, Pool!CallerMoves,
      Srv!EnterPoolDtor, Srv!LeavePoolDtor, Srv!MainMoves, serverVars
<1> QED
  BY <1>1, <1>2, <1>3 DEF MainStep

\* The other threads leave it where it is.
LEMMA OthersMainInv ==
  ASSUME IInv, UNCHANGED <<mainPc, iClientFd, callerPc, argument, refused>>,
         \/ table' = table
         \/ table' = Srv!Closed(iServerFd)
         \/ \E c \in Clients : /\ handlerPc[c] \notin {"none", "returned"}
                               /\ table' = Srv!Closed(clientFd[c])
  PROVE  MainInv'
<1>1. mainPc = "enqueue" => table'[iClientFd'] = table[iClientFd]
  BY OthersKeepTheAcceptedHandle DEF IInv
<1> QED
  BY <1>1 DEF IInv, MainInv

LEMMA WorkerMainInv ==
  ASSUME IInv, NEW w \in Workers, WorkerStep(w) \/ SpuriousWakeup(w) \/ ClientStep(w)
  PROVE  MainInv'
<1>1. CASE WorkerAlone(w) \/ SpuriousWakeup(w) \/ BeginTask(w) \/ HandlerAlone(w) \/ ClientStep(w)
  <2>1. UNCHANGED <<callerPc, argument, refused>>
    BY <1>1
    DEF WorkerAlone, SpuriousWakeup, BeginTask, HandlerAlone, ClientStep, poolVars,
        Pool!WorkerAcquire, Pool!WorkerTest, Pool!WorkerBlock, Pool!WorkerExit,
        Pool!SpuriousWakeup, Pool!WorkerPop, Pool!TaskThrows
  <2>2. UNCHANGED <<mainPc, iClientFd, table>>
    BY <1>1
    DEF WorkerAlone, SpuriousWakeup, BeginTask, HandlerAlone, ClientStep, serverVars,
        Srv!BeginHandler, Srv!ReleaseSSL, Srv!Handshake, Srv!ReadRequest, Srv!Respond,
        Srv!HandlerFails, Srv!mainVars, Srv!osVars
  <2> QED
    BY <2>1, <2>2, OthersMainInv
<1>2. CASE EndTask(w)
  <2>1. UNCHANGED <<mainPc, iClientFd, callerPc, argument, refused>>
    BY <1>2 DEF EndTask, Pool!TaskReturns, Srv!EndHandler, Srv!mainVars
  <2>2. task[w] \in Clients
    BY <1>2, ReturnIsFinish DEF EndTask, IInv
  <2>3. handlerPc[task[w]] = "close" /\ table' = Srv!Closed(clientFd[task[w]])
    BY <1>2 DEF EndTask, Srv!EndHandler, Srv!HandlerMoves
  <2> QED
    BY <2>1, <2>2, <2>3, OthersMainInv
<1> QED
  BY <1>1, <1>2 DEF WorkerStep

LEMMA ClientAndConsoleMainInv ==
  /\ \A c \in Clients : IInv /\ (Connect(c) \/ Accept(c)) => MainInv'
  /\ \A s \in Signals : IInv /\ (ConsoleEvent(s) \/ StopStep(s)) => MainInv'
<1>1. ASSUME NEW c \in Clients, IInv, Connect(c)
      PROVE  MainInv'
  <2>1. UNCHANGED <<mainPc, iClientFd, callerPc, argument, refused, table>>
    BY <1>1 DEF Connect, Srv!Connect, Srv!mainVars, poolVars
  <2> QED
    BY <1>1, <2>1, OthersMainInv
<1>2. ASSUME NEW c \in Clients, IInv, Accept(c)
      PROVE  MainInv'
  <2>1. /\ callerPc'[Main] \in {"idle", "destroyed"} /\ refused' = refused
        /\ mainPc = "accept" /\ callerPc' = callerPc
    BY <1>2 DEF Accept, MainIsFree, Srv!AcceptClient, Srv!MainMoves, poolVars
  <2> QED
    BY <1>2, <2>1 DEF IInv, MainInv
<1>3. ASSUME NEW s \in Signals, IInv, ConsoleEvent(s) \/ StopStep(s)
      PROVE  MainInv'
  <2>1. UNCHANGED <<mainPc, iClientFd, callerPc, argument, refused>>
    BY <1>3 DEF ConsoleEvent, StopStep, Srv!ConsoleEvent, Srv!StopClears, Srv!StopCloses,
                Srv!mainVars, poolVars
  <2>2. table' = table \/ table' = Srv!Closed(iServerFd)
    BY <1>3 DEF ConsoleEvent, StopStep, Srv!ConsoleEvent, Srv!StopClears, Srv!StopCloses,
                Srv!osVars
  <2> QED
    BY <1>3, <2>1, <2>2, OthersMainInv
<1> QED
  BY <1>1, <1>2, <1>3

\* Steps outside the workers: the pool is not left while a worker is inside it.
LEMMA OutsideWorkersInv ==
  ASSUME WorkersInv, UNCHANGED <<workerPc, handlerPc, finished>>, PoolExists' \/ ~PoolExists
  PROVE  WorkersInv'
  BY DEF WorkersInv

LEMMA MainWorkersInv == IInv /\ (MainStep \/ AcceptFailsForOnce) => WorkersInv'
<1> SUFFICES ASSUME IInv, MainStep \/ AcceptFailsForOnce PROVE WorkersInv'
  OBVIOUS
<1>0. WorkersInv
  BY DEF IInv
<1>1. CASE MainAlone \/ AcceptFailsForOnce
  <2>1. UNCHANGED <<workerPc, handlerPc, finished>>
    BY <1>1
    DEF MainAlone, AcceptFailsForOnce, poolVars, Srv!Register, Srv!OpenSocket,
        Srv!OpenSocketFails, Srv!BindListen, Srv!BindListenFails, Srv!SetRunning,
        Srv!LoopTest, Srv!AcceptFails, Srv!AcceptFailsForOnce, Srv!CloseListener,
        Srv!DestroyServer, Srv!ExitProcess, Srv!handlerVars
  <2>2. PoolExists' \/ ~PoolExists
    BY <1>1
    DEF PoolExists, MainAlone, AcceptFailsForOnce, Srv!MainMoves, Srv!Register,
        Srv!OpenSocket, Srv!OpenSocketFails, Srv!BindListen, Srv!BindListenFails,
        Srv!SetRunning, Srv!LoopTest, Srv!AcceptFails, Srv!AcceptFailsForOnce,
        Srv!CloseListener, Srv!DestroyServer, Srv!ExitProcess
  <2> QED
    BY <1>0, <2>1, <2>2, OutsideWorkersInv
<1>2. ASSUME NEW c \in Clients, EnqueueLock(c) \/ EnqueuePush(c)
      PROVE  WorkersInv'
  <2>1. UNCHANGED <<workerPc, handlerPc, finished>>
    BY <1>2 DEF EnqueueLock, EnqueuePush, Pool!EnqueueLock, Pool!EnqueuePush,
                Srv!HandOver, serverVars
  <2>2. PoolExists'
    BY <1>2 DEF EnqueueLock, EnqueuePush, Srv!HandOver, Srv!MainMoves, serverVars, PoolExists
  <2> QED
    BY <1>0, <2>1, <2>2, OutsideWorkersInv
<1>3. CASE DtorEnter \/ DtorStop \/ (Pool!DtorLock /\ UNCHANGED serverVars)
  <2>1. UNCHANGED <<workerPc, handlerPc, finished>>
    BY <1>3 DEF DtorEnter, DtorStop, Pool!DtorEnter, Pool!DtorStop, Pool!DtorLock,
                Srv!EnterPoolDtor, Srv!handlerVars, serverVars
  <2>2. PoolExists' \/ ~PoolExists
    BY <1>3 DEF DtorEnter, DtorStop, Srv!EnterPoolDtor, Srv!MainMoves, serverVars, PoolExists
  <2> QED
    BY <1>0, <2>1, <2>2, OutsideWorkersInv
<1>4. CASE EnqueueNotify \/ (Pool!DtorNotifyAll /\ UNCHANGED serverVars)
  <2>1. UNCHANGED <<handlerPc, finished, mainPc>>
    BY <1>4 DEF EnqueueNotify, Pool!EnqueueNotify, Pool!DtorNotifyAll, serverVars
  <2>2. \A w \in Workers : workerPc'[w] = workerPc[w] \/ workerPc'[w] = "acquire"
    BY <1>4 DEF EnqueueNotify, Pool!EnqueueNotify, Pool!DtorNotifyAll, IInv, Pool!IInv,
                Pool!TypeOK
  <2> QED
    BY <1>0, <2>1, <2>2 DEF WorkersInv, PoolExists
<1>5. CASE DtorJoin
  <2>1. UNCHANGED <<workerPc, handlerPc, finished>> /\ \A w \in Workers : workerPc[w] = "exited"
    BY <1>5 DEF DtorJoin, Pool!DtorJoin, Srv!LeavePoolDtor, Srv!handlerVars
  <2> QED
    BY <1>0, <2>1 DEF WorkersInv
<1> QED
  BY <1>1, <1>2, <1>3, <1>4, <1>5 DEF MainStep, DtorWaits

LEMMA WorkerWorkersInv ==
  ASSUME IInv, NEW w \in Workers, WorkerStep(w) \/ SpuriousWakeup(w) \/ ClientStep(w)
  PROVE  WorkersInv'
<1>0. /\ WorkersInv /\ workerPc \in [Workers -> Pool!WorkerPcs]
      /\ handlerPc \in [Clients -> Srv!HandlerPcs]
  BY DEF IInv, Pool!IInv, Pool!TypeOK, Srv!IInv, Srv!TypeOK
<1>1. CASE WorkerAlone(w) \/ SpuriousWakeup(w)
  BY <1>0, <1>1
  DEF WorkersInv, PoolExists, WorkerAlone, SpuriousWakeup, serverVars, Pool!WorkerAcquire,
      Pool!WorkerTest, Pool!WorkerBlock, Pool!WorkerExit, Pool!SpuriousWakeup
<1>2. CASE BeginTask(w)
  <2>1. PICK c \in {task'[w]} : Srv!BeginHandler(c)
    BY <1>2 DEF BeginTask
  <2>2. workerPc[w] = "take" /\ UNCHANGED <<mainPc, finished>>
    BY <1>2, <2>1 DEF BeginTask, Pool!WorkerPop, Pool!WorkerMoves, Srv!BeginHandler, Srv!mainVars
  <2>3. PoolExists /\ PoolExists'
    BY <1>0, <2>2 DEF WorkersInv, PoolExists
  <2>4. \A d \in Clients : handlerPc'[d] = "returned" <=> handlerPc[d] = "returned"
    BY <1>0, <2>1 DEF Srv!BeginHandler, Srv!HandlerMoves
  <2> QED
    BY <1>0, <2>2, <2>3, <2>4 DEF WorkersInv
<1>3. CASE EndTask(w)
  <2>1. /\ workerPc[w] = "run" /\ mainPc' = mainPc /\ finished' = finished \cup {task[w]}
        /\ handlerPc' = [handlerPc EXCEPT ![task[w]] = "returned"]
    BY <1>3 DEF EndTask, Pool!TaskReturns, Pool!WorkerMoves, Srv!EndHandler,
                Srv!HandlerMoves, Srv!mainVars
  <2>2. PoolExists'
    BY <1>0, <2>1 DEF WorkersInv, PoolExists
  <2>3. \A d \in Clients : handlerPc'[d] = IF d = task[w] THEN "returned" ELSE handlerPc[d]
    BY <1>0, <2>1
  <2> QED
    BY <1>0, <2>1, <2>2, <2>3 DEF WorkersInv
<1>4. CASE HandlerAlone(w) \/ ClientStep(w)
  <2>1. UNCHANGED <<workerPc, finished, mainPc>>
    BY <1>4
    DEF HandlerAlone, ClientStep, poolVars, Pool!TaskThrows, Srv!ReleaseSSL, Srv!Handshake,
        Srv!ReadRequest, Srv!Respond, Srv!HandlerFails, Srv!mainVars
  <2>2. \A d \in Clients : handlerPc'[d] = "returned" <=> handlerPc[d] = "returned"
    BY <1>0, <1>4
    DEF HandlerAlone, ClientStep, Srv!ReleaseSSL, Srv!Handshake, Srv!ReadRequest,
        Srv!Respond, Srv!HandlerFails, Srv!HandlerMoves, Srv!Finale, Srv!handlerVars
  <2> QED
    BY <1>0, <2>1, <2>2 DEF WorkersInv, PoolExists
<1> QED
  BY <1>1, <1>2, <1>3, <1>4 DEF WorkerStep

LEMMA ClientAndConsoleWorkersInv ==
  /\ \A c \in Clients : IInv /\ (Connect(c) \/ Accept(c)) => WorkersInv'
  /\ \A s \in Signals : IInv /\ (ConsoleEvent(s) \/ StopStep(s)) => WorkersInv'
<1>1. ASSUME NEW c \in Clients, IInv, Connect(c) \/ Accept(c)
      PROVE  WorkersInv'
  <2>1. UNCHANGED <<workerPc, handlerPc, finished>> /\ (PoolExists' \/ ~PoolExists)
    BY <1>1 DEF Connect, Accept, Srv!Connect, Srv!AcceptClient, Srv!MainMoves, Srv!mainVars,
                Srv!handlerVars, poolVars, PoolExists
  <2> QED
    BY <1>1, <2>1, OutsideWorkersInv DEF IInv
<1>2. ASSUME NEW s \in Signals, IInv, ConsoleEvent(s) \/ StopStep(s)
      PROVE  WorkersInv'
  <2>1. UNCHANGED <<workerPc, handlerPc, finished, mainPc>>
    BY <1>2 DEF ConsoleEvent, StopStep, Srv!ConsoleEvent, Srv!StopClears, Srv!StopCloses,
                Srv!mainVars, Srv!handlerVars, poolVars
  <2> QED
    BY <1>2, <2>1, OutsideWorkersInv DEF IInv, PoolExists
<1> QED
  BY <1>1, <1>2

LEMMA NextIInv == IInv /\ [Next]_vars => IInv'
<1> SUFFICES ASSUME IInv, [Next]_vars PROVE IInv'
  OBVIOUS
<1>1. Pool!IInv' /\ Srv!IInv'
  BY NextIsPoolStep, NextRefines, PoolKeepsItsInvariant, ServerKeepsItsInvariant DEF IInv
<1>2. MainInv' /\ WorkersInv'
  <2>1. CASE MainStep \/ AcceptFailsForOnce
    BY <2>1, MainMainInv, MainWorkersInv
  <2>2. ASSUME NEW w \in Workers, WorkerStep(w) \/ SpuriousWakeup(w) \/ ClientStep(w)
        PROVE  MainInv' /\ WorkersInv'
    BY <2>2, WorkerMainInv, WorkerWorkersInv
  <2>3. CASE UNCHANGED vars
    BY <2>3 DEF IInv, MainInv, WorkersInv, PoolExists, vars, serverVars, poolVars
  <2> QED
    BY <2>1, <2>2, <2>3, ClientAndConsoleMainInv, ClientAndConsoleWorkersInv DEF Next
<1> QED
  BY <1>1, <1>2 DEF IInv

-----------------------------------------------------------------------------
(* The theorems.                                                           *)

\* The inductive invariant holds in every reachable state: that of the pool,
\* that of the server, where main's thread is in both, and which tasks are
\* handlers that have returned.
THEOREM Invariant == Spec => []IInv
  BY InitIInv, NextIInv, PTL DEF Spec

\* The mutex of the pool is never held across accept, join or a wait for a
\* client, for any number of workers (threadpool.hpp:36-44, threadpool.cpp).
THEOREM MutexIsHeldBriefly == Spec => []NobodyWaitsWithTheMutex
<1>1. IInv => NobodyWaitsWithTheMutex
  <2> SUFFICES ASSUME IInv, queueMutex # Nobody PROVE NobodyWaitsWithTheMutex
    BY DEF NobodyWaitsWithTheMutex
  <2>1. queueMutex = Main => callerPc[Main] \in Pool!CallerHolds
    BY DEF IInv, Pool!IInv, Pool!ControlInv
  <2>2. queueMutex = Main => mainPc \in {"enqueue", "closePool"}
    BY <2>1 DEF IInv, MainInv, Pool!CallerHolds
  <2>3. queueMutex \in Workers => workerPc[queueMutex] \in Pool!WorkerHolds
    BY DEF IInv, Pool!IInv, Pool!ControlInv
  <2>4. queueMutex \in Workers => task[queueMutex] = NoTask
    BY <2>3 DEF IInv, Pool!IInv, Pool!ClosureInv, Pool!WorkerHolds
  <2>5. queueMutex \in Workers => PoolExists
    BY <2>3 DEF IInv, WorkersInv, Pool!WorkerHolds
  <2> QED
    BY <2>2, <2>4, <2>5 DEF NobodyWaitsWithTheMutex
<1> QED
  BY <1>1, Invariant, PTL

\* Joining the steps of Server and ThreadPool takes nothing away: main's
\* thread always brings enqueue a new closure, of a connection that is still
\* open, before the pool is closing; no closure is run twice.
THEOREM PreconditionsAreMet == Spec => []CallsMeetTheirPreconditions
<1>1. IInv => CallsMeetTheirPreconditions
  <2> SUFFICES ASSUME IInv PROVE CallsMeetTheirPreconditions
    OBVIOUS
  <2> USE DEF IInv
  <2>1. \A c \in Clients : c \in accepted => clientFd[c] # NoHandle
    <3> SUFFICES ASSUME NEW c \in Clients, c \in accepted PROVE clientFd[c] # NoHandle
      OBVIOUS
    <3>1. c \in Pool!Queued \/ c \in Pool!RunningTasks \/ c \in finished
      BY DEF Pool!IInv, Pool!TaskAccounting
    <3>2. c \in Srv!Pool!Queued \/ handlerPc[c] # "none"
      BY <3>1 DEF Srv!IInv, Srv!HandlerInv, WorkersInv, Pool!Queued, Srv!Pool!Queued
    <3> QED
      BY <3>2 DEF Srv!IInv, Srv!HandlerInv
  <2>2. ASSUME mainPc = "enqueue", callerPc[Main] = "idle"
        PROVE  table[iClientFd] \in Pool!Fresh
    <3>1. table[iClientFd] \in Clients /\ clientFd[table[iClientFd]] = NoHandle
      BY <2>2 DEF Srv!IInv, Srv!HandleInv, Srv!HandlersOwnTheirHandles
    <3>2. argument[Main] = NoTask /\ refused = {}
      BY <2>2 DEF Pool!IInv, Pool!ClosureInv, MainInv
    <3> QED
      BY <2>1, <3>1, <3>2, SystemAssumption DEF Pool!Fresh
  <2>3. callerPc[Main] = "locked" => table[iClientFd] = argument[Main] /\ ~stop
    BY DEF MainInv, Pool!IInv, Pool!ControlInv
  <2>4. \A c \in Pool!RunningTasks : handlerPc[c] \notin {"none", "returned"}
    <3>1. Pool!RunningTasks \subseteq Clients
      BY DEF Srv!IInv, Srv!TypeOK, Srv!Pool!TypeOK
    <3> QED
      BY <3>1 DEF Srv!IInv, Srv!HandlerInv
  <2>5. \A c \in Pool!Queued : handlerPc[c] = "none"
    <3> SUFFICES ASSUME NEW c \in Pool!Queued PROVE handlerPc[c] = "none"
      OBVIOUS
    <3>1. c \in Clients /\ c \notin Pool!RunningTasks /\ c \notin finished
      BY DEF Pool!IInv, Pool!TypeOK, Pool!TaskAccounting, Pool!Queued
    <3> QED
      BY <3>1 DEF Srv!IInv, Srv!HandlerInv, WorkersInv
  <2> QED
    BY <2>2, <2>3, <2>4, <2>5 DEF CallsMeetTheirPreconditions
<1> QED
  BY <1>1, Invariant, PTL

\* What is proved of Server holds on the real pool: no handle of a connection
\* is closed by another thread, no handler outlives Run, and Run leaves no
\* connection and no SSL object behind.
THEOREM ServerIsSafeOnTheRealPool ==
  Spec => [](Srv!HandlersOwnTheirHandles /\ Srv!NoHandlerOutlivesRun /\ Srv!NothingLeftOpen)
<1>1. Srv!Init => SrvP!Init
  BY SameServerInit
<1>2. SrvP!Spec => [](SrvP!HandlersOwnTheirHandles /\ SrvP!NoHandlerOutlivesRun
                       /\ SrvP!NothingLeftOpen)
  BY SrvP!NoHandleStolen, SrvP!HandlersEndWithRun, SrvP!EverythingIsClosed,
     ServerIsAssumption, PTL
<1>3. Spec => SrvP!Spec
  BY <1>1, InitRefines, NextRefines, SameServerNext, PoolInvariant, PTL DEF Spec, SrvP!Spec
<1>4. (SrvP!HandlersOwnTheirHandles /\ SrvP!NoHandlerOutlivesRun /\ SrvP!NothingLeftOpen)
        => (Srv!HandlersOwnTheirHandles /\ Srv!NoHandlerOutlivesRun /\ Srv!NothingLeftOpen)
  BY DEF SrvP!HandlersOwnTheirHandles, Srv!HandlersOwnTheirHandles,
         SrvP!NoHandlerOutlivesRun, Srv!NoHandlerOutlivesRun,
         SrvP!NothingLeftOpen, Srv!NothingLeftOpen
<1> QED
  BY <1>2, <1>3, <1>4, PTL

\* What is proved of ThreadPool holds inside the server: no connection's task
\* is lost or run twice, no wakeup is lost, no worker takes from an empty queue
\* and none sleeps through the end of Run.
THEOREM PoolIsSafeInTheServer ==
  Spec => [](/\ Pool!TaskAccounting /\ Pool!WakeupsCoverBacklog
             /\ Pool!PopFindsTask /\ Pool!NobodySleepsThroughStop)
<1>1. Pool!IInv => /\ Pool!TaskAccounting /\ Pool!WakeupsCoverBacklog
                   /\ Pool!PopFindsTask /\ Pool!NobodySleepsThroughStop
  BY DEF Pool!IInv, Pool!ControlInv
<1> QED
  BY <1>1, PoolInvariant, PTL

=============================================================================
