------------------------------- MODULE Server -------------------------------
(***************************************************************************)
(* CServer (server.cpp) as main (InfraLite-MockServer.cpp) runs it: the    *)
(* thread that accepts connections, the pool threads inside HandleClient,  *)
(* and the threads on which Windows calls ConsoleHandler.                  *)
(*                                                                         *)
(* Sockets are entries of a handle table whose numbers are used again as   *)
(* soon as they are closed: closesocket(h) closes whatever h denotes now.  *)
(* The pool is TaskPool, which ThreadPool implements; a task is a client.  *)
(* bIsRunning is a plain bool that two threads use without a lock.  Every  *)
(* access is next to an opaque call (accept, closesocket), so the build    *)
(* reads and writes memory each time: accesses are atomic steps here.      *)
(***************************************************************************)
EXTENDS Naturals, Sequences, FiniteSets

CONSTANTS
  Clients,    \* connections, each of them made once
  Capacity,   \* std::thread::hardware_concurrency()
  Secure,     \* the TLS constructor was used (pTLS # nullptr)
  Signals,    \* console events, each delivered on a thread of its own
  Handles,    \* what the process can have open at a time
  NoHandle,   \* -1, INVALID_SOCKET
  Free, Opened, Listening   \* what a handle denotes, when not a client

ASSUME ServerAssumption ==
  /\ IsFiniteSet(Clients)
  /\ Capacity \in Nat
  /\ Secure \in BOOLEAN
  /\ NoHandle \notin Handles
  /\ Clients \cap {Free, Opened, Listening} = {}
  /\ Free # Opened /\ Opened # Listening /\ Listening # Free

VARIABLES
  \* CServer and the accepting thread
  mainPc,      \* where the thread is in main and Run
  bIsRunning,
  iServerFd,
  iClientFd,   \* Run's local variable
  \* the operating system
  table,       \* what each handle denotes
  waiting,     \* connections in the listening socket's queue
  \* HandleClient
  handlerPc,   \* where the handler of each client is
  clientFd,    \* the handle its closure captured
  ssl,         \* clients with a live SSL object
  \* ConsoleHandler
  stopPc,      \* where each console event is in CServer::Stop
  \* the pool
  backlog, active, finished, refused, phase, crashed

Pool == INSTANCE TaskPool WITH Tasks <- Clients

poolVars == <<backlog, active, finished, refused, phase, crashed>>
mainVars == <<mainPc, bIsRunning, iServerFd, iClientFd>>
osVars == <<table, waiting>>
handlerVars == <<handlerPc, clientFd, ssl>>
vars == <<mainVars, osVars, handlerVars, stopPc, poolVars>>

MainPcs == {"register", "openSocket", "bindListen", "setRunning", "loop", "accept",
            "enqueue", "closeListener", "closePool", "joinPool", "destroy",
            "returning", "exited"}
HandlerPcs == {"none", "handshake", "read", "respond", "release", "close", "returned"}

TypeOK ==
  /\ mainPc \in MainPcs
  /\ bIsRunning \in BOOLEAN
  /\ iServerFd \in Handles \cup {NoHandle}
  /\ mainPc \notin {"register", "openSocket", "destroy", "returning", "exited"}
       => iServerFd \in Handles
  /\ iClientFd \in Handles \cup {NoHandle}
  /\ table \in [Handles -> Clients \cup {Free, Opened, Listening}]
  /\ waiting \in SUBSET Clients
  /\ handlerPc \in [Clients -> HandlerPcs]
  /\ clientFd \in [Clients -> Handles \cup {NoHandle}]
  /\ ssl \in SUBSET Clients
  /\ stopPc \in [Signals -> {"none", "clear", "close", "returned"}]
  /\ Pool!TypeOK

\* CServer has just been constructed in main.
Init ==
  /\ mainPc = "register"
  /\ bIsRunning = FALSE
  /\ iServerFd = NoHandle
  /\ iClientFd = NoHandle
  /\ table = [h \in Handles |-> Free]
  /\ waiting = {}
  /\ handlerPc = [c \in Clients |-> "none"]
  /\ clientFd = [c \in Clients |-> NoHandle]
  /\ ssl = {}
  /\ stopPc = [s \in Signals |-> "none"]
  /\ Pool!Init

-----------------------------------------------------------------------------
(* The operating system.                                                   *)

\* closesocket(h): an error, without effect, when h is not a handle.
Closed(h) == [g \in Handles |-> IF g = h THEN Free ELSE table[g]]

FreeHandles == {h \in Handles : table[h] = Free}
IsListening == iServerFd # NoHandle /\ table[iServerFd] = Listening

\* Connections already accepted, by the handle that was given out for them.
Accepted == {c \in Clients : clientFd[c] # NoHandle} \cup {table[h] : h \in Handles}

\* A client connects: the kernel queues it for the listening socket.
Connect(c) ==
  /\ mainPc # "exited" /\ ~crashed
  /\ IsListening
  /\ c \notin waiting \cup Accepted
  /\ waiting' = waiting \cup {c}
  /\ UNCHANGED <<mainVars, table, handlerVars, stopPc, poolVars>>

-----------------------------------------------------------------------------
(* main and CServer::Run.                                                  *)

MainMoves(from, to) ==
  /\ ~crashed
  /\ mainPc = from
  /\ mainPc' = to

\* gServer = &rServer; SetConsoleCtrlHandler: from now on events reach Stop.
Register ==
  /\ MainMoves("register", "openSocket")
  /\ UNCHANGED <<bIsRunning, iServerFd, iClientFd, osVars, handlerVars, stopPc, poolVars>>

\* InitSocket, up to socket().
OpenSocket ==
  /\ MainMoves("openSocket", "bindListen")
  /\ \E h \in FreeHandles :
       /\ iServerFd' = h
       /\ table' = [table EXCEPT ![h] = Opened]
  /\ UNCHANGED <<bIsRunning, iClientFd, waiting, handlerVars, stopPc, poolVars>>

\* Variant: INVALID_SOCKET is not looked for.
OpenSocketFailsUnseen ==
  /\ MainMoves("openSocket", "bindListen")
  /\ UNCHANGED <<bIsRunning, iServerFd, iClientFd, osVars, handlerVars, stopPc, poolVars>>

\* WSAStartup or socket() fails: the exception leaves Run before the pool is
\* built, and main's block destroys the server.
OpenSocketFails ==
  /\ MainMoves("openSocket", "destroy")
  /\ UNCHANGED <<bIsRunning, iServerFd, iClientFd, osVars, handlerVars, stopPc, poolVars>>

\* bind() and listen(), on a handle that Stop may have closed.
BindListen ==
  /\ MainMoves("bindListen", "setRunning")
  /\ table[iServerFd] = Opened
  /\ table' = [table EXCEPT ![iServerFd] = Listening]
  /\ UNCHANGED <<bIsRunning, iServerFd, iClientFd, waiting, handlerVars, stopPc, poolVars>>

\* bind() or listen() fails: closesocket, throw.  iServerFd keeps its value.
BindListenFails ==
  /\ MainMoves("bindListen", "destroy")
  /\ table' = Closed(iServerFd)
  /\ UNCHANGED <<bIsRunning, iServerFd, iClientFd, waiting, handlerVars, stopPc, poolVars>>

\* The flag is raised after the socket is open; then the pool is built.
SetRunning ==
  /\ MainMoves("setRunning", "loop")
  /\ bIsRunning' = TRUE
  /\ UNCHANGED <<iServerFd, iClientFd, osVars, handlerVars, stopPc, poolVars>>

LoopTest ==
  /\ MainMoves("loop", IF bIsRunning THEN "accept" ELSE "closeListener")
  /\ UNCHANGED <<bIsRunning, iServerFd, iClientFd, osVars, handlerVars, stopPc, poolVars>>

\* accept() returns a new handle for a queued connection.
AcceptClient(c) ==
  /\ MainMoves("accept", "enqueue")
  /\ IsListening
  /\ c \in waiting
  /\ \E h \in FreeHandles :
       /\ iClientFd' = h
       /\ table' = [table EXCEPT ![h] = c]
  /\ waiting' = waiting \ {c}
  /\ UNCHANGED <<bIsRunning, iServerFd, handlerVars, stopPc, poolVars>>

\* accept() returns -1 and the loop goes on: the socket was closed, or no
\* handle is left for the connection.
AcceptFails ==
  /\ MainMoves("accept", "loop")
  /\ ~IsListening \/ (waiting # {} /\ FreeHandles = {})
  /\ UNCHANGED <<bIsRunning, iServerFd, iClientFd, osVars, handlerVars, stopPc, poolVars>>

\* accept() may also fail for a reason of the network's.
AcceptFailsForOnce ==
  /\ MainMoves("accept", "loop")
  /\ UNCHANGED <<bIsRunning, iServerFd, iClientFd, osVars, handlerVars, stopPc, poolVars>>

\* The closure captures iClientFd: the server's part of the call of enqueue.
HandOver(c) ==
  /\ MainMoves("enqueue", "loop")
  /\ table[iClientFd] = c
  /\ clientFd' = [clientFd EXCEPT ![c] = iClientFd]
  /\ UNCHANGED <<bIsRunning, iServerFd, iClientFd, osVars, handlerPc, ssl, stopPc>>

EnqueueClient(c) == HandOver(c) /\ Pool!Submit(c)

\* closesocket(iServerFd) after the loop, closed by Stop or not.
CloseListener ==
  /\ MainMoves("closeListener", "closePool")
  /\ table' = Closed(iServerFd)
  /\ UNCHANGED <<bIsRunning, iServerFd, iClientFd, waiting, handlerVars, stopPc, poolVars>>

\* The pool is a local of Run: its destructor runs as Run returns.
EnterPoolDtor ==
  /\ MainMoves("closePool", "joinPool")
  /\ UNCHANGED <<bIsRunning, iServerFd, iClientFd, osVars, handlerVars, stopPc>>

ClosePool == EnterPoolDtor /\ Pool!Close

\* Variant: the threads are detached, nobody waits for them.
DetachPool ==
  /\ MainMoves("joinPool", "destroy")
  /\ phase' = "closed"
  /\ UNCHANGED <<bIsRunning, iServerFd, iClientFd, osVars, handlerVars, stopPc,
                 backlog, active, finished, refused, crashed>>

LeavePoolDtor ==
  /\ MainMoves("joinPool", "destroy")
  /\ UNCHANGED <<bIsRunning, iServerFd, iClientFd, osVars, handlerVars, stopPc>>

JoinPool == LeavePoolDtor /\ Pool!Dispose

\* ~CServer closes iServerFd again unless it was never set.
DestroyServer ==
  /\ MainMoves("destroy", "returning")
  /\ table' = Closed(iServerFd)
  /\ UNCHANGED <<bIsRunning, iServerFd, iClientFd, waiting, handlerVars, stopPc, poolVars>>

\* main returns and the process ends, with every thread left in it.
ExitProcess ==
  /\ MainMoves("returning", "exited")
  /\ UNCHANGED <<bIsRunning, iServerFd, iClientFd, osVars, handlerVars, stopPc, poolVars>>

-----------------------------------------------------------------------------
(* CServer::HandleClient, on a pool thread.                                *)

HandlerMoves(c, from, to) ==
  /\ ~crashed
  /\ mainPc # "exited"
  /\ handlerPc[c] = from
  /\ handlerPc' = [handlerPc EXCEPT ![c] = to]

\* Where a handler goes when it is done with the client.
Finale == IF Secure THEN "release" ELSE "close"

\* SSL_new and SSL_set_fd.
BeginHandler(c) ==
  /\ HandlerMoves(c, "none", IF Secure THEN "handshake" ELSE "read")
  /\ ssl' = IF Secure THEN ssl \cup {c} ELSE ssl
  /\ UNCHANGED <<mainVars, osVars, clientFd, stopPc>>

\* A pool thread takes the oldest closure and calls it.
HandleClient(c) == backlog # <<>> /\ c = Head(backlog) /\ Pool!Start /\ BeginHandler(c)

\* Variant: the return of the failure branch is missing.
HandshakeGoesOn(c) ==
  /\ HandlerMoves(c, "handshake", "read")
  /\ \/ UNCHANGED <<ssl, table>>
     \/ ssl' = ssl \ {c} /\ table' = Closed(clientFd[c])
  /\ UNCHANGED <<mainVars, waiting, clientFd, stopPc, poolVars>>

\* SSL_accept waits for the client, and may fail: then SSL_free only.
Handshake(c) ==
  /\ \/ HandlerMoves(c, "handshake", "read") /\ UNCHANGED ssl
     \/ HandlerMoves(c, "handshake", "close") /\ ssl' = ssl \ {c}
  /\ UNCHANGED <<mainVars, osVars, clientFd, stopPc, poolVars>>

\* Variant: an empty request returns without cleaning up.
ReadRequestLeaks(c) ==
  /\ \/ HandlerMoves(c, "read", "respond") /\ UNCHANGED poolVars
     \/ HandlerMoves(c, "read", "returned") /\ Pool!Finish(c)
  /\ UNCHANGED <<mainVars, osVars, clientFd, ssl, stopPc>>

\* ReadRequest returns a request, or nothing when the first read fails.
ReadRequest(c) ==
  /\ \E to \in {"respond", Finale} : HandlerMoves(c, "read", to)
  /\ UNCHANGED <<mainVars, osVars, clientFd, ssl, stopPc, poolVars>>

\* Parse, route and SendResponse, whose result nobody looks at.
Respond(c) ==
  /\ HandlerMoves(c, "respond", Finale)
  /\ UNCHANGED <<mainVars, osVars, clientFd, ssl, stopPc, poolVars>>

\* A Content-Length that std::stoi rejects throws out of ReadRequest or Parse.
HandlerFails(c) ==
  /\ mainPc # "exited"
  /\ handlerPc[c] \in {"read", "respond"}
  /\ UNCHANGED <<mainVars, osVars, handlerVars, stopPc>>

HandlerThrows(c) == HandlerFails(c) /\ Pool!Crash

\* SSL_shutdown, SSL_free.
ReleaseSSL(c) ==
  /\ HandlerMoves(c, "release", "close")
  /\ ssl' = ssl \ {c}
  /\ UNCHANGED <<mainVars, osVars, clientFd, stopPc, poolVars>>

\* closesocket(iClientFd); the handler returns and its closure is destroyed.
EndHandler(c) ==
  /\ HandlerMoves(c, "close", "returned")
  /\ table' = Closed(clientFd[c])
  /\ UNCHANGED <<mainVars, waiting, clientFd, ssl, stopPc>>

CloseClient(c) == EndHandler(c) /\ Pool!Finish(c)

-----------------------------------------------------------------------------
(* ConsoleHandler and CServer::Stop, on a thread of the console's.  Nobody *)
(* sets gServer back to null: an event that comes while main returns runs  *)
(* Stop on the destroyed server, whose fields still hold their values.     *)

StopMoves(s, from, to) ==
  /\ ~crashed
  /\ mainPc \notin {"register", "exited"}
  /\ stopPc[s] = from
  /\ stopPc' = [stopPc EXCEPT ![s] = to]

\* Ctrl-C.  When the console is closed the same runs until Windows ends the
\* process: a behaviour of this specification cut short.
ConsoleEvent(s) ==
  /\ StopMoves(s, "none", "clear")
  /\ UNCHANGED <<mainVars, osVars, handlerVars, poolVars>>

StopClears(s) ==
  /\ StopMoves(s, "clear", "close")
  /\ bIsRunning' = FALSE
  /\ UNCHANGED <<mainPc, iServerFd, iClientFd, osVars, handlerVars, poolVars>>

\* Variant: Stop only clears the flag.
StopClosesNothing(s) ==
  /\ StopMoves(s, "close", "returned")
  /\ UNCHANGED <<mainVars, osVars, handlerVars, poolVars>>

StopCloses(s) ==
  /\ StopMoves(s, "close", "returned")
  /\ table' = Closed(iServerFd)
  /\ UNCHANGED <<mainVars, waiting, handlerVars, poolVars>>

-----------------------------------------------------------------------------
\* What the accepting thread does without waiting for a client.
MainStep ==
  \/ Register
  \/ OpenSocket \/ OpenSocketFails
  \/ BindListen \/ BindListenFails
  \/ SetRunning
  \/ LoopTest
  \/ AcceptFails
  \/ \E c \in Clients : EnqueueClient(c)
  \/ CloseListener
  \/ ClosePool
  \/ JoinPool
  \/ DestroyServer
  \/ ExitProcess

\* What a handler does once it no longer needs its client.
HandlerStep(c) == HandleClient(c) \/ ReleaseSSL(c) \/ CloseClient(c)

\* What it does only if the client does its part.
ClientStep(c) == Handshake(c) \/ ReadRequest(c) \/ Respond(c) \/ HandlerThrows(c)

StopStep(s) == StopClears(s) \/ StopCloses(s)

Halted ==
  /\ crashed \/ mainPc = "exited"
  /\ UNCHANGED vars

Next ==
  \/ MainStep
  \/ AcceptFailsForOnce
  \/ \E c \in Clients : Connect(c) \/ AcceptClient(c) \/ HandlerStep(c) \/ ClientStep(c)
  \/ \E s \in Signals : ConsoleEvent(s) \/ StopStep(s)
  \/ Halted

Spec == Init /\ [][Next]_vars

(***************************************************************************)
(* Threads run (weak fairness).  accept() serves every queued connection   *)
(* in the end, although it may fail again and again in between (strong     *)
(* fairness).  Nothing makes a client talk: the code sets no timeout, so   *)
(* ClientFairness is an assumption about clients, not about the code.      *)
(***************************************************************************)
Fairness ==
  /\ WF_vars(MainStep)
  /\ \A c \in Clients : SF_vars(AcceptClient(c)) /\ WF_vars(HandlerStep(c))
  /\ \A s \in Signals : WF_vars(StopStep(s))

ClientFairness == \A c \in Clients : WF_vars(ClientStep(c))

FairSpec == Spec /\ Fairness /\ ClientFairness

-----------------------------------------------------------------------------
(* Safety.                                                                 *)

\* From accept to its own closesocket, a connection keeps its handle: nobody
\* else (another handler, the accepting thread, Stop, ~CServer) closes that
\* number, although the listening socket's is closed up to four times
\* (server.cpp:73, 80, 110, 47).
HandlersOwnTheirHandles ==
  /\ \A c \in Clients : clientFd[c] # NoHandle /\ handlerPc[c] # "returned"
                          => table[clientFd[c]] = c
  /\ mainPc = "enqueue" => table[iClientFd] \in Clients

\* While the server, the router and the TLS context are being destroyed no
\* handler that captured them is running (the pool is joined as Run returns).
NoHandlerOutlivesRun ==
  mainPc \in {"destroy", "returning"} => active = {}

\* When Run has returned, every connection ever accepted has been closed and
\* every SSL object freed, whatever path its handler took.
NothingLeftOpen ==
  /\ mainPc \in {"destroy", "returning", "exited"} /\ Capacity > 0
       => ssl = {} /\ \A h \in Handles : table[h] \notin Clients
  /\ ssl \subseteq active

-----------------------------------------------------------------------------
(* The inductive invariant behind the safety properties.                   *)

BeforePool == {"register", "openSocket", "bindListen", "setRunning"}
AfterPool == {"destroy", "returning", "exited"}

\* Who owns which handle: the listening socket's number never denotes a
\* client, and a handle that does belongs to that client's handler or is the
\* one the accepting thread is about to hand over.
HandleInv ==
  /\ HandlersOwnTheirHandles
  /\ iServerFd \in Handles => table[iServerFd] \notin Clients
  /\ \A c \in waiting : clientFd[c] = NoHandle /\ \A h \in Handles : table[h] # c
  /\ mainPc = "enqueue" => iClientFd \in Handles /\ clientFd[table[iClientFd]] = NoHandle
  /\ \A h \in Handles : table[h] \in Clients =>
       \/ clientFd[table[h]] = h /\ handlerPc[table[h]] # "returned"
       \/ mainPc = "enqueue" /\ h = iClientFd

\* The pool's view of a handler agrees with the handler's own.
HandlerInv ==
  /\ \A c \in Clients : handlerPc[c] # "none" => clientFd[c] # NoHandle
  /\ \A c \in Clients : clientFd[c] # NoHandle /\ handlerPc[c] = "none" => c \in Pool!Queued
  /\ \A c \in Pool!Queued : clientFd[c] # NoHandle
  /\ \A c \in Clients : c \in active <=> handlerPc[c] \notin {"none", "returned"}
  /\ \A c \in ssl : handlerPc[c] \in {"handshake", "read", "respond", "release"}
  /\ ~Secure => ssl = {}

\* The pool is used only while Run's local variable exists.
PoolInv ==
  /\ mainPc \in BeforePool \cup AfterPool => active = {}
  /\ mainPc \in BeforePool \/ (mainPc \in AfterPool /\ Capacity > 0) => backlog = <<>>

IInv == TypeOK /\ HandleInv /\ HandlerInv /\ PoolInv

-----------------------------------------------------------------------------
(* Liveness.                                                               *)

\* A stop request that finds the flag raised ends the process, after the
\* connections that were accepted have been served (server.cpp:61-81).
ShutdownCompletes ==
  (mainPc \in {"loop", "accept", "enqueue"} /\ ~bIsRunning)
    ~> (mainPc = "exited" \/ crashed)

\* Every accepted connection is closed in the end, shutdown or not.
ConnectionsAreClosed ==
  Capacity > 0 => \A c \in Clients :
    (\E h \in Handles : table[h] = c) ~> (crashed \/ \A h \in Handles : table[h] # c)

\* A connection in the kernel's queue is accepted, unless the server stops
\* listening: the loop outlives failing accepts and exhausted handles.
QueuedClientsAreAccepted ==
  Capacity > 0 => \A c \in Clients :
    (c \in waiting) ~> (c \notin waiting \/ ~IsListening \/ crashed)

\* What server.cpp:81 logs at the end of Stop: "Stop signal received. Server
\* loop will exit."
StopEndsTheLoop ==
  \A s \in Signals : (stopPc[s] = "returned")
    ~> (mainPc \in {"closeListener", "closePool", "joinPool", "destroy",
                    "returning", "exited"} \/ crashed)
=============================================================================
