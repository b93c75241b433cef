------------------------------- MODULE System -------------------------------
(***************************************************************************)
(* The server on its real pool: CServer's threads (module Server) and the  *)
(* workers, the mutex and the condition variable of ThreadPool in one      *)
(* program.  The thread of main is the pool's only caller and its owner;   *)
(* what a worker runs is HandleClient.  In Server the pool is the abstract *)
(* TaskPool; here each of its operations is the step of ThreadPool that    *)
(* takes effect, joined with the server's part of that step, and the       *)
(* pool's other steps happen in between.                                   *)
(***************************************************************************)
EXTENDS Naturals, Sequences, FiniteSets

CONSTANTS
  Clients, Secure, Signals, Handles, NoHandle, Free, Opened, Listening, \* of Server
  Workers, Main, NoTask, Nobody                                         \* of ThreadPool

ASSUME SystemAssumption ==
  /\ IsFiniteSet(Workers) /\ IsFiniteSet(Clients)
  /\ Main \notin Workers
  /\ Nobody \notin Workers \cup {Main}
  /\ NoTask \notin Clients
  /\ Secure \in BOOLEAN
  /\ NoHandle \notin Handles
  /\ Clients \cap {Free, Opened, Listening} = {}
  /\ Free # Opened /\ Opened # Listening /\ Listening # Free

VARIABLES
  mainPc, bIsRunning, iServerFd, iClientFd, table, waiting,
  handlerPc, clientFd, ssl, stopPc,
  tasks, stop, queueMutex, workerPc, task, callerPc, argument,
  accepted, refused, finished, terminated

Pool == INSTANCE ThreadPool WITH Tasks <- Clients, Callers <- {Main}, Owner <- Main

Srv == INSTANCE Server WITH
  Capacity <- Cardinality(Workers),
  backlog <- tasks,
  active <- Pool!RunningTasks,
  phase <- Pool!Phase,
  crashed <- terminated

serverVars == <<mainPc, bIsRunning, iServerFd, iClientFd, table, waiting,
                handlerPc, clientFd, ssl, stopPc>>
poolVars == <<tasks, stop, queueMutex, workerPc, task, callerPc, argument,
              accepted, refused, finished, terminated>>
vars == <<serverVars, poolVars>>

Init ==
  /\ mainPc = "register" /\ bIsRunning = FALSE
  /\ iServerFd = NoHandle /\ iClientFd = NoHandle
  /\ table = [h \in Handles |-> Free] /\ waiting = {}
  /\ handlerPc = [c \in Clients |-> "none"] /\ clientFd = [c \in Clients |-> NoHandle]
  /\ ssl = {} /\ stopPc = [s \in Signals |-> "none"]
  /\ Pool!Init

\* The pool is a local variable of Run.
PoolExists ==
  mainPc \in {"loop", "accept", "enqueue", "closeListener", "closePool", "joinPool"}

\* The thread of main is not inside enqueue or ~ThreadPool.
MainIsFree == callerPc[Main] \in {"idle", "destroyed"}

-----------------------------------------------------------------------------
(* The thread of main.                                                     *)

\* What it does outside the pool.
MainAlone ==
  /\ MainIsFree
  /\ UNCHANGED poolVars
  /\ \/ Srv!Register \/ Srv!OpenSocket \/ Srv!OpenSocketFails
     \/ Srv!BindListen \/ Srv!BindListenFails \/ Srv!SetRunning
     \/ Srv!LoopTest \/ Srv!AcceptFails
     \/ Srv!CloseListener \/ Srv!DestroyServer \/ Srv!ExitProcess

Accept(c) == MainIsFree /\ UNCHANGED poolVars /\ Srv!AcceptClient(c)

AcceptFailsForOnce == MainIsFree /\ UNCHANGED poolVars /\ Srv!AcceptFailsForOnce

\* pool.enqueue(...): the mutex, the push, the notification.
EnqueueLock(c) ==
  /\ mainPc = "enqueue" /\ table[iClientFd] = c
  /\ Pool!EnqueueLock(Main, c)
  /\ UNCHANGED serverVars

EnqueuePush(c) == argument[Main] = c /\ Pool!EnqueuePush(Main) /\ Srv!HandOver(c)

EnqueueNotify == Pool!EnqueueNotify(Main) /\ UNCHANGED serverVars

\* The end of Run's scope: ~ThreadPool.
DtorEnter == mainPc = "closePool" /\ Pool!DtorEnter /\ UNCHANGED serverVars

DtorStop == Pool!DtorStop /\ Srv!EnterPoolDtor

DtorWaits == (Pool!DtorLock \/ Pool!DtorNotifyAll) /\ UNCHANGED serverVars

DtorJoin == Pool!DtorJoin /\ Srv!LeavePoolDtor

MainStep ==
  \/ MainAlone
  \/ \E c \in Clients : EnqueueLock(c) \/ EnqueuePush(c)
  \/ EnqueueNotify
  \/ DtorEnter \/ DtorStop \/ DtorWaits \/ DtorJoin

-----------------------------------------------------------------------------
(* The workers.                                                            *)

\* Around the tasks.
WorkerAlone(w) ==
  /\ PoolExists
  /\ \/ Pool!WorkerAcquire(w) \/ Pool!WorkerTest(w) \/ Pool!WorkerBlock(w)
     \/ Pool!WorkerExit(w)
  /\ UNCHANGED serverVars

SpuriousWakeup(w) == PoolExists /\ Pool!SpuriousWakeup(w) /\ UNCHANGED serverVars

\* The front of the queue, and the first lines of HandleClient.
BeginTask(w) == Pool!WorkerPop(w) /\ \E c \in {task'[w]} : Srv!BeginHandler(c)

\* What the client has no part in, of the handler this worker runs.
HandlerAlone(w) ==
  workerPc[w] = "run" /\ UNCHANGED poolVars /\ Srv!ReleaseSSL(task[w])

EndTask(w) == Pool!TaskReturns(w) /\ Srv!EndHandler(task[w])

WorkerStep(w) == WorkerAlone(w) \/ BeginTask(w) \/ HandlerAlone(w) \/ EndTask(w)

\* What it does if its client does its part.
ClientStep(w) ==
  /\ workerPc[w] = "run"
  /\ \/ /\ UNCHANGED poolVars
        /\ Srv!Handshake(task[w]) \/ Srv!ReadRequest(task[w]) \/ Srv!Respond(task[w])
     \/ Pool!TaskThrows(w) /\ Srv!HandlerFails(task[w])

-----------------------------------------------------------------------------
(* Clients and the console.                                                *)

Connect(c) == UNCHANGED poolVars /\ Srv!Connect(c)

ConsoleEvent(s) == UNCHANGED poolVars /\ Srv!ConsoleEvent(s)

StopStep(s) == UNCHANGED poolVars /\ (Srv!StopClears(s) \/ Srv!StopCloses(s))

Next ==
  \/ MainStep \/ AcceptFailsForOnce
  \/ \E w \in Workers : WorkerStep(w) \/ SpuriousWakeup(w) \/ ClientStep(w)
  \/ \E c \in Clients : Connect(c) \/ Accept(c)
  \/ \E s \in Signals : ConsoleEvent(s) \/ StopStep(s)
  \/ (terminated \/ mainPc = "exited") /\ UNCHANGED vars

Spec == Init /\ [][Next]_vars

-----------------------------------------------------------------------------
(* Correctness of the composition.                                         *)

\* The server on the real pool behaves as Server does on the abstract one, so
\* that what is proved of Server holds of the program.
ImplementsServer == Srv!Spec

\* The mutex is held for the few lines it guards, never across a call that
\* waits for a client, for accept or for join.
NobodyWaitsWithTheMutex ==
  queueMutex # Nobody /\ ~terminated =>
    /\ queueMutex = Main => mainPc \in {"enqueue", "closePool"}
    /\ queueMutex \in Workers => task[queueMutex] = NoTask /\ PoolExists

\* Server and ThreadPool each take their calls for granted: enqueue gets a
\* closure it has not seen, is not called on a closing pool (so it never
\* throws), and the connection accepted for it is still open when it has
\* waited for the mutex (server.cpp:62-70); a queued closure has never run
\* and a running one has not returned.  The composition keeps these promises,
\* so joining the two modules' steps takes no behaviour away.
CallsMeetTheirPreconditions ==
  /\ mainPc = "enqueue" /\ callerPc[Main] = "idle" => table[iClientFd] \in Pool!Fresh
  /\ callerPc[Main] = "locked" => table[iClientFd] = argument[Main] /\ ~stop
  /\ \A c \in Pool!Queued : handlerPc[c] = "none"
  /\ \A c \in Pool!RunningTasks : handlerPc[c] \notin {"none", "returned"}

-----------------------------------------------------------------------------
(* The inductive invariant behind the safety properties: those of the two  *)
(* modules, and what ties them together.                                   *)

\* Where the thread of main is in the pool's code and where it is in Run.
MainInv ==
  /\ callerPc[Main] = "locked" => mainPc = "enqueue" /\ argument[Main] = table[iClientFd]
  /\ callerPc[Main] = "notify" => mainPc = "loop"
  /\ callerPc[Main] \in {"dtorLock", "dtorLocked"} => mainPc = "closePool"
  /\ callerPc[Main] \in {"dtorNotify", "dtorJoin"} => mainPc = "joinPool"
  /\ callerPc[Main] = "destroyed" => mainPc \in {"destroy", "returning", "exited"}
  /\ refused = {}

\* Workers leave their starting point only while Run's pool exists, and each
\* client's handler has returned when its task is finished.
WorkersInv ==
  /\ ~PoolExists => \A w \in Workers : workerPc[w] \in {"acquire", "exited"}
  /\ \A c \in Clients : handlerPc[c] = "returned" <=> c \in finished

IInv == Pool!IInv /\ Srv!IInv /\ MainInv /\ WorkersInv
=============================================================================
