---------------------------- MODULE ServerProofs ----------------------------
(***************************************************************************)
(* Theorems of Server, for every set of clients, handles and console       *)
(* events, every capacity of the pool, and with or without TLS.            *)
(***************************************************************************)
EXTENDS Server, FiniteSetTheorems, SequenceTheorems, TLAPS

\* Groups of variables and the readings of the handle table, expanded in
\* every proof below.
USE DEF poolVars, mainVars, osVars, handlerVars, Closed, FreeHandles, IsListening,
        HandOver, EnterPoolDtor, LeavePoolDtor, BeginHandler, HandlerFails, EndHandler

LEMMA InitIInv == Init => IInv
<1> SUFFICES ASSUME Init PROVE IInv
  OBVIOUS
<1> USE ServerAssumption DEF Init, Pool!Init
<1>1. backlog \in Seq(Clients)
  OBVIOUS
<1>2. TypeOK
  BY <1>1 DEF TypeOK, MainPcs, HandlerPcs, Pool!TypeOK
<1>3. HandleInv
  BY DEF HandleInv, HandlersOwnTheirHandles
<1>4. HandlerInv
  BY DEF HandlerInv, Pool!Queued
<1>5. PoolInv
  BY DEF PoolInv, BeforePool, AfterPool
<1> QED
  BY <1>2, <1>3, <1>4, <1>5 DEF IInv

-----------------------------------------------------------------------------
(* The operating system's steps and the console's.                         *)

\* Closing the listening socket's number, whoever does it and however often,
\* takes no client's handle away.
LEMMA CloseListenerKeepsHandles ==
  ASSUME IInv, table' = Closed(iServerFd),
         UNCHANGED <<iServerFd, iClientFd, waiting, clientFd, handlerPc>>,
         mainPc' = "enqueue" <=> mainPc = "enqueue"
  PROVE  HandleInv' /\ table' \in [Handles -> Clients \cup {Free, Opened, Listening}]
<1> USE ServerAssumption DEF IInv, TypeOK
<1>1. \A h \in Handles : table'[h] = IF h = iServerFd THEN Free ELSE table[h]
  OBVIOUS
<1>2. \A h \in Handles : table[h] \in Clients => h # iServerFd
  BY DEF HandleInv
<1>3. \A h \in Handles : table[h] \in Clients => table'[h] = table[h]
  BY <1>1, <1>2
<1>4. \A h \in Handles : table'[h] \in Clients => table[h] = table'[h]
  BY <1>1
<1>5. HandlersOwnTheirHandles'
  BY <1>3 DEF HandleInv, HandlersOwnTheirHandles
<1>6. (iServerFd \in Handles => table[iServerFd] \notin Clients)'
  BY <1>1
<1>7. (\A c \in waiting : clientFd[c] = NoHandle /\ \A h \in Handles : table[h] # c)'
  BY <1>1, <1>4 DEF HandleInv
<1>8. (mainPc = "enqueue" => iClientFd \in Handles /\ clientFd[table[iClientFd]] = NoHandle)'
  BY <1>3 DEF HandleInv, HandlersOwnTheirHandles
<1>9. (\A h \in Handles : table[h] \in Clients =>
         \/ clientFd[table[h]] = h /\ handlerPc[table[h]] # "returned"
         \/ mainPc = "enqueue" /\ h = iClientFd)'
  BY <1>4 DEF HandleInv
<1> QED
  BY <1>5, <1>6, <1>7, <1>8, <1>9 DEF HandleInv

LEMMA ConnectIInv ==
  ASSUME IInv, NEW c \in Clients, Connect(c)
  PROVE  IInv'
<1> USE DEF IInv, Connect
<1>1. TypeOK'
  BY DEF TypeOK, Pool!TypeOK
<1>2. clientFd[c] = NoHandle /\ \A h \in Handles : table[h] # c
  BY DEF Accepted
<1>3. HandleInv'
  BY <1>2 DEF HandleInv, HandlersOwnTheirHandles
<1>4. HandlerInv' /\ PoolInv'
  BY DEF HandlerInv, PoolInv, Pool!Queued
<1> QED
  BY <1>1, <1>3, <1>4

LEMMA StopIInv ==
  ASSUME IInv, NEW s \in Signals, ConsoleEvent(s) \/ StopStep(s)
  PROVE  IInv'
<1> USE DEF IInv, StopMoves
<1>1. stopPc' \in [Signals -> {"none", "clear", "close", "returned"}]
  BY DEF TypeOK, StopStep, ConsoleEvent, StopClears, StopCloses
<1>2. HandlerInv' /\ PoolInv'
  BY DEF StopStep, ConsoleEvent, StopClears, StopCloses, HandlerInv, PoolInv, Pool!Queued
<1>3. CASE ConsoleEvent(s) \/ StopClears(s)
  BY <1>1, <1>2, <1>3
  DEF ConsoleEvent, StopClears, TypeOK, Pool!TypeOK, HandleInv, HandlersOwnTheirHandles
<1>4. CASE StopCloses(s)
  <2>1. HandleInv' /\ table' \in [Handles -> Clients \cup {Free, Opened, Listening}]
    BY <1>4, CloseListenerKeepsHandles DEF StopCloses
  <2> QED
    BY <1>1, <1>2, <1>4, <2>1 DEF StopCloses, TypeOK, Pool!TypeOK
<1> QED
  BY <1>3, <1>4 DEF StopStep

-----------------------------------------------------------------------------
(* main and Run.                                                           *)

\* The steps of the accepting thread that touch neither a handle nor the pool.
QuietMainStep ==
  \/ Register \/ OpenSocketFails \/ SetRunning \/ LoopTest
  \/ AcceptFails \/ AcceptFailsForOnce \/ ExitProcess

LEMMA QuietMainIInv == IInv /\ QuietMainStep => IInv'
<1> SUFFICES ASSUME IInv, QuietMainStep PROVE IInv'
  OBVIOUS
<1> USE DEF IInv, QuietMainStep, MainMoves, Register, OpenSocketFails, SetRunning,
            LoopTest, AcceptFails, AcceptFailsForOnce, ExitProcess
<1>1. TypeOK'
  BY DEF TypeOK, Pool!TypeOK, MainPcs
<1>2. HandleInv'
  BY DEF HandleInv, HandlersOwnTheirHandles
<1>3. HandlerInv'
  BY DEF HandlerInv, Pool!Queued
<1>4. PoolInv'
  BY DEF PoolInv, BeforePool, AfterPool
<1> QED
  BY <1>1, <1>2, <1>3, <1>4

\* A new socket takes a free number, which is nobody's; bind and listen keep
\* it from being a client's.
LEMMA OpenListenerIInv == IInv /\ (OpenSocket \/ BindListen) => IInv'
<1> SUFFICES ASSUME IInv, OpenSocket \/ BindListen PROVE IInv'
  OBVIOUS
<1> USE ServerAssumption DEF IInv, MainMoves
<1>1. PICK h \in Handles, v \in {Opened, Listening} :
        /\ table' = [table EXCEPT ![h] = v]
        /\ iServerFd' = h
        /\ table[h] \notin Clients
  BY DEF OpenSocket, BindListen, TypeOK
<1>2. UNCHANGED <<iClientFd, waiting, handlerVars, stopPc, poolVars, bIsRunning>>
  BY DEF OpenSocket, BindListen
<1>3. /\ mainPc \in BeforePool /\ mainPc' \in BeforePool
      /\ mainPc' \in MainPcs /\ mainPc' # "enqueue" /\ mainPc # "enqueue"
  BY DEF OpenSocket, BindListen, BeforePool, MainPcs
<1>4. TypeOK'
  BY <1>1, <1>2, <1>3 DEF TypeOK, Pool!TypeOK
<1>5. HandleInv'
  BY <1>1, <1>2, <1>3 DEF TypeOK, HandleInv, HandlersOwnTheirHandles
<1>6. HandlerInv'
  BY <1>2 DEF HandlerInv, Pool!Queued
<1>7. PoolInv'
  BY <1>2, <1>3 DEF PoolInv
<1> QED
  BY <1>4, <1>5, <1>6, <1>7

\* The three places where the accepting thread closes the listener's number.
LEMMA CloseListenerIInv ==
  IInv /\ (BindListenFails \/ CloseListener \/ DestroyServer) => IInv'
<1> SUFFICES ASSUME IInv, BindListenFails \/ CloseListener \/ DestroyServer PROVE IInv'
  OBVIOUS
<1> USE DEF IInv, MainMoves, BindListenFails, CloseListener, DestroyServer
<1>1. HandleInv' /\ table' \in [Handles -> Clients \cup {Free, Opened, Listening}]
  BY CloseListenerKeepsHandles
<1>2. TypeOK'
  BY <1>1 DEF TypeOK, Pool!TypeOK, MainPcs
<1>3. HandlerInv'
  BY DEF HandlerInv, Pool!Queued
<1>4. PoolInv'
  BY DEF PoolInv, BeforePool, AfterPool
<1> QED
  BY <1>1, <1>2, <1>3, <1>4

\* accept gives a client that has no handle a number that is free, and not
\* the listener's, which denotes a listening socket at that moment.
LEMMA AcceptIInv ==
  ASSUME IInv, NEW c \in Clients, AcceptClient(c)
  PROVE  IInv'
<1> USE ServerAssumption DEF IInv, MainMoves
<1>1. PICK h \in Handles : table[h] = Free /\ iClientFd' = h /\ table' = [table EXCEPT ![h] = c]
  BY DEF AcceptClient
<1>2. /\ iServerFd # h /\ clientFd[c] = NoHandle
      /\ \A g \in Handles : table[g] # c
      /\ mainPc = "accept" /\ mainPc' = "enqueue" /\ waiting' = waiting \ {c}
  BY <1>1 DEF AcceptClient, HandleInv, TypeOK
<1>3. UNCHANGED <<bIsRunning, iServerFd, handlerVars, stopPc, poolVars>>
  BY DEF AcceptClient
<1>4. TypeOK'
  BY <1>1, <1>2, <1>3 DEF TypeOK, Pool!TypeOK, MainPcs
<1>5. HandleInv'
  BY <1>1, <1>2, <1>3 DEF TypeOK, HandleInv, HandlersOwnTheirHandles
<1>6. HandlerInv'
  BY <1>3 DEF HandlerInv, Pool!Queued
<1>7. PoolInv'
  BY <1>2, <1>3 DEF PoolInv, BeforePool, AfterPool
<1> QED
  BY <1>4, <1>5, <1>6, <1>7

\* The handle passes from the accepting thread to the client's handler.
LEMMA EnqueueIInv ==
  ASSUME IInv, NEW c \in Clients, EnqueueClient(c)
  PROVE  IInv'
<1> USE ServerAssumption DEF IInv, MainMoves, EnqueueClient, Pool!Submit
<1>1. /\ iClientFd \in Handles /\ table[iClientFd] = c /\ clientFd[c] = NoHandle
      /\ mainPc = "enqueue" /\ mainPc' = "loop"
      /\ clientFd' = [clientFd EXCEPT ![c] = iClientFd]
      /\ handlerPc[c] = "none"
  BY DEF HandleInv, HandlerInv
<1>2. backlog' \in Seq(Clients) /\ Pool!Queued' = Pool!Queued \cup {c}
  <2>1. backlog \in Seq(Clients) /\ backlog' = Append(backlog, c)
    BY DEF TypeOK, Pool!TypeOK
  <2> QED
    BY <2>1 DEF Pool!Queued
<1>3. TypeOK'
  BY <1>1, <1>2 DEF TypeOK, Pool!TypeOK, MainPcs
<1>4. HandleInv'
  BY <1>1 DEF TypeOK, HandleInv, HandlersOwnTheirHandles
<1>5. HandlerInv'
  <2>1. \A d \in Clients : clientFd'[d] = IF d = c THEN iClientFd ELSE clientFd[d]
    BY <1>1 DEF TypeOK
  <2>2. (\A d \in Clients : handlerPc[d] # "none" => clientFd[d] # NoHandle)'
    BY <1>1, <2>1 DEF HandlerInv
  <2>3. (\A d \in Clients : clientFd[d] # NoHandle /\ handlerPc[d] = "none" => d \in Pool!Queued)'
    BY <1>1, <1>2, <2>1 DEF HandlerInv
  <2>4. (\A d \in Pool!Queued : clientFd[d] # NoHandle)'
    <3>1. Pool!Queued \subseteq Clients
      BY DEF Pool!Queued, TypeOK, Pool!TypeOK
    <3> QED
      BY <1>1, <1>2, <2>1, <3>1 DEF HandlerInv
  <2> QED
    BY <2>2, <2>3, <2>4 DEF HandlerInv
<1>6. PoolInv'
  BY <1>1 DEF PoolInv, BeforePool, AfterPool
<1> QED
  BY <1>3, <1>4, <1>5, <1>6

\* The end of Run: the pool is closed and joined.
LEMMA EndOfRunIInv == IInv /\ (ClosePool \/ JoinPool) => IInv'
<1> SUFFICES ASSUME IInv, ClosePool \/ JoinPool PROVE IInv'
  OBVIOUS
<1> USE DEF IInv, MainMoves, ClosePool, JoinPool, Pool!Close, Pool!Dispose
<1>1. TypeOK'
  BY DEF TypeOK, Pool!TypeOK, MainPcs
<1>2. HandleInv'
  BY DEF HandleInv, HandlersOwnTheirHandles
<1>3. HandlerInv'
  BY DEF HandlerInv, Pool!Queued
<1>4. PoolInv'
  BY DEF PoolInv, BeforePool, AfterPool
<1> QED
  BY <1>1, <1>2, <1>3, <1>4

-----------------------------------------------------------------------------
(* HandleClient.                                                           *)

\* A pool thread starts the oldest handler.  It cannot while Run has no pool
\* or after it has joined it.
LEMMA StartIInv ==
  ASSUME IInv, NEW c \in Clients, HandleClient(c)
  PROVE  IInv'
<1> USE ServerAssumption DEF IInv, HandlerMoves, HandleClient, Pool!Start
<1>1. backlog \in Seq(Clients) /\ backlog # <<>> /\ c = Head(backlog) /\ backlog' = Tail(backlog)
  BY DEF TypeOK, Pool!TypeOK
<1>2. /\ backlog' \in Seq(Clients) /\ Pool!Queued' \subseteq Pool!Queued
      /\ Pool!Queued \subseteq Pool!Queued' \cup {c}
  <2>1. ASSUME NEW i \in DOMAIN backlog, backlog[i] # c
        PROVE  i - 1 \in DOMAIN backlog' /\ backlog'[i - 1] = backlog[i]
    BY <1>1, <2>1
  <2> QED
    BY <1>1, <2>1 DEF Pool!Queued
<1>3. active' = active \cup {c}
  BY <1>1
<1>4. TypeOK'
  BY <1>2, <1>3 DEF TypeOK, Pool!TypeOK, HandlerPcs
<1>5. HandleInv'
  BY DEF TypeOK, HandleInv, HandlersOwnTheirHandles, HandlerInv
<1>6. HandlerInv'
  <2>1. \A d \in Clients : handlerPc'[d] =
          IF d = c THEN (IF Secure THEN "handshake" ELSE "read") ELSE handlerPc[d]
    BY DEF TypeOK
  <2>2. clientFd[c] # NoHandle
    <3>1. c \in Pool!Queued
      BY <1>1 DEF Pool!Queued
    <3> QED
      BY <3>1 DEF HandlerInv
  <2> QED
    BY <1>2, <1>3, <2>1, <2>2 DEF TypeOK, HandlerInv
<1>7. PoolInv'
  <2>1. mainPc \notin BeforePool
    BY <1>1 DEF PoolInv
  <2>2. mainPc \notin AfterPool
    <3>1. SUFFICES ASSUME mainPc \in AfterPool, Capacity = 0 PROVE FALSE
      BY <1>1 DEF PoolInv
    <3>2. Pool!Cardinality(active) = Cardinality(active)
      BY DEF Pool!Cardinality, Cardinality
    <3>3. Cardinality(active) = 0
      BY <3>1, FS_EmptySet DEF PoolInv
    <3> QED
      BY <3>1, <3>2, <3>3
  <2> QED
    BY <2>1, <2>2 DEF PoolInv
<1> QED
  BY <1>4, <1>5, <1>6, <1>7

\* What a handler does between its start and its closesocket: it stays active,
\* and without TLS there is no SSL object it could leave behind.
LEMMA ConversationIInv ==
  ASSUME IInv, NEW c \in Clients, Handshake(c) \/ ReadRequest(c) \/ Respond(c) \/ ReleaseSSL(c)
  PROVE  IInv'
<1> DEFINE Talking == {"handshake", "read", "respond", "release"}
<1> USE DEF IInv, HandlerMoves, Finale
<1>1. PICK from \in Talking, to \in Talking \cup {"close"} :
        /\ handlerPc[c] = from
        /\ handlerPc' = [handlerPc EXCEPT ![c] = to]
        /\ to = "close" => ssl' = ssl \ {c} \/ (ssl' = ssl /\ ~Secure)
        /\ ssl' = ssl \/ ssl' = ssl \ {c}
  BY DEF Handshake, ReadRequest, Respond, ReleaseSSL
<1>2. UNCHANGED <<mainVars, osVars, clientFd, stopPc, poolVars>>
  BY DEF Handshake, ReadRequest, Respond, ReleaseSSL
<1> HIDE DEF HandlerMoves
<1>3. \A d \in Clients : handlerPc'[d] = IF d = c THEN handlerPc'[c] ELSE handlerPc[d]
  BY <1>1 DEF TypeOK
<1>4. handlerPc'[c] \notin {"none", "returned"} /\ handlerPc[c] \notin {"none", "returned"}
  BY <1>1 DEF TypeOK
<1>5. TypeOK'
  BY <1>1, <1>2 DEF TypeOK, Pool!TypeOK, HandlerPcs
<1>6. HandleInv'
  BY <1>2, <1>3, <1>4 DEF HandleInv, HandlersOwnTheirHandles
<1>7. HandlerInv'
  <2>1. Pool!Queued' = Pool!Queued
    BY <1>2 DEF Pool!Queued
  <2>2. (\A d \in ssl : handlerPc[d] \in Talking)' /\ (~Secure => ssl' = {})
    BY <1>1, <1>3 DEF TypeOK, HandlerInv
  <2> QED
    BY <1>2, <1>3, <1>4, <2>1, <2>2 DEF HandlerInv
<1>8. PoolInv'
  BY <1>2 DEF PoolInv
<1> QED
  BY <1>5, <1>6, <1>7, <1>8

\* A handler closes its own handle, which no other handler has and which is
\* not the one the accepting thread holds.
LEMMA CloseClientIInv ==
  ASSUME IInv, NEW c \in Clients, CloseClient(c)
  PROVE  IInv'
<1> USE ServerAssumption DEF IInv, HandlerMoves, CloseClient, Pool!Finish
<1> DEFINE h == clientFd[c]
<1>1. /\ h \in Handles /\ table[h] = c /\ handlerPc[c] = "close"
      /\ handlerPc' = [handlerPc EXCEPT ![c] = "returned"]
      /\ \A g \in Handles : table'[g] = IF g = h THEN Free ELSE table[g]
  BY DEF TypeOK, HandlerInv, HandleInv, HandlersOwnTheirHandles
<1>2. UNCHANGED <<mainVars, waiting, clientFd, ssl, stopPc, backlog>>
  OBVIOUS
<1>3. \A d \in Clients : handlerPc'[d] = IF d = c THEN "returned" ELSE handlerPc[d]
  BY <1>1 DEF TypeOK
<1>4. TypeOK'
  BY <1>1, <1>2 DEF TypeOK, Pool!TypeOK, HandlerPcs
<1>5. HandleInv'
  <2>1. mainPc = "enqueue" => iClientFd # h
    BY <1>1, <1>2 DEF HandleInv
  <2>2. HandlersOwnTheirHandles'
    BY <1>1, <1>2, <1>3, <2>1 DEF TypeOK, HandleInv, HandlersOwnTheirHandles
  <2>3. (\A g \in Handles : table[g] \in Clients =>
           \/ clientFd[table[g]] = g /\ handlerPc[table[g]] # "returned"
           \/ mainPc = "enqueue" /\ g = iClientFd)'
    BY <1>1, <1>2, <1>3 DEF HandleInv
  <2>4. (\A d \in waiting : clientFd[d] = NoHandle /\ \A g \in Handles : table[g] # d)'
    BY <1>1, <1>2 DEF HandleInv, TypeOK
  <2>5. (iServerFd \in Handles => table[iServerFd] \notin Clients)'
    BY <1>1, <1>2 DEF HandleInv
  <2>6. (mainPc = "enqueue" => iClientFd \in Handles /\ clientFd[table[iClientFd]] = NoHandle)'
    BY <1>1, <1>2, <2>1 DEF HandleInv
  <2> QED
    BY <2>2, <2>3, <2>4, <2>5, <2>6 DEF HandleInv
<1>6. HandlerInv'
  <2>1. Pool!Queued' = Pool!Queued
    BY <1>2 DEF Pool!Queued
  <2>2. active' = active \ {c} /\ c \notin ssl
    BY <1>1 DEF HandlerInv
  <2> QED
    BY <1>1, <1>2, <1>3, <2>1, <2>2 DEF HandlerInv, TypeOK
<1>7. PoolInv'
  BY <1>2 DEF PoolInv
<1> QED
  BY <1>4, <1>5, <1>6, <1>7

LEMMA HandlerThrowsIInv ==
  ASSUME IInv, NEW c \in Clients, HandlerThrows(c)
  PROVE  IInv'
<1> USE DEF IInv, HandlerThrows, Pool!Crash
<1>1. TypeOK'
  BY DEF TypeOK, Pool!TypeOK
<1>2. HandleInv' /\ HandlerInv' /\ PoolInv'
  BY DEF HandleInv, HandlersOwnTheirHandles, HandlerInv, PoolInv, Pool!Queued
<1> QED
  BY <1>1, <1>2

-----------------------------------------------------------------------------
(* The invariant and what follows from it.                                 *)

LEMMA StutterIInv == IInv /\ UNCHANGED vars => IInv'
<1> SUFFICES ASSUME IInv, UNCHANGED vars PROVE IInv'
  OBVIOUS
<1> QED
  BY DEF IInv, vars, TypeOK, Pool!TypeOK, HandleInv, HandlersOwnTheirHandles,
         HandlerInv, PoolInv, Pool!Queued

LEMMA NextIInv == IInv /\ [Next]_vars => IInv'
<1> SUFFICES ASSUME IInv, [Next]_vars PROVE IInv'
  OBVIOUS
<1>1. CASE MainStep \/ AcceptFailsForOnce
  BY <1>1, QuietMainIInv, OpenListenerIInv, CloseListenerIInv, EnqueueIInv, EndOfRunIInv
  DEF MainStep, QuietMainStep
<1>2. ASSUME NEW c \in Clients, Connect(c) \/ AcceptClient(c)
      PROVE  IInv'
  BY <1>2, ConnectIInv, AcceptIInv
<1>3. ASSUME NEW c \in Clients, HandlerStep(c) \/ ClientStep(c)
      PROVE  IInv'
  BY <1>3, StartIInv, ConversationIInv, CloseClientIInv, HandlerThrowsIInv
  DEF HandlerStep, ClientStep
<1>4. ASSUME NEW s \in Signals, ConsoleEvent(s) \/ StopStep(s)
      PROVE  IInv'
  BY <1>4, StopIInv
<1>5. CASE Halted \/ UNCHANGED vars
  BY <1>5, StutterIInv DEF Halted
<1> QED
  BY <1>1, <1>2, <1>3, <1>4, <1>5 DEF Next

\* The inductive invariant holds in every reachable state: what iServerFd may
\* denote, whose each handle is, and the pool's view of the handlers.
THEOREM Invariant == Spec => []IInv
<1> QED
  BY InitIInv, NextIInv, PTL DEF Spec

\* Every variable of the server keeps its type; the accepting thread always
\* has a socket to bind, accept on and close once InitSocket has got one.
THEOREM TypeCorrectness == Spec => []TypeOK
<1>1. IInv => TypeOK
  BY DEF IInv
<1> QED
  BY <1>1, Invariant, PTL

\* For any number of clients and handles, no thread closes the handle of a
\* connection that is not its own, although numbers are used again and the
\* listening socket's is closed up to four times (server.cpp:47, 73, 80, 110).
THEOREM NoHandleStolen == Spec => []HandlersOwnTheirHandles
<1>1. IInv => HandlersOwnTheirHandles
  BY DEF IInv, HandleInv
<1> QED
  BY <1>1, Invariant, PTL

\* Once Run has returned no handler runs, whatever the capacity of the pool:
\* the objects that handlers captured can be destroyed (server.cpp:59-75).
THEOREM HandlersEndWithRun == Spec => []NoHandlerOutlivesRun
<1>1. IInv => NoHandlerOutlivesRun
  BY DEF IInv, PoolInv, NoHandlerOutlivesRun, AfterPool
<1> QED
  BY <1>1, Invariant, PTL

\* A Run that has returned has closed every connection it accepted and freed
\* every SSL object, on each of HandleClient's ways out (server.cpp:129-193).
THEOREM EverythingIsClosed == Spec => []NothingLeftOpen
<1>1. IInv => NothingLeftOpen
  <2> SUFFICES ASSUME IInv PROVE NothingLeftOpen
    OBVIOUS
  <2> USE DEF IInv
  <2>1. ssl \subseteq active
    BY DEF HandlerInv, TypeOK
  <2>2. ASSUME mainPc \in AfterPool, Capacity > 0, NEW h \in Handles, table[h] \in Clients
        PROVE  FALSE
    <3>1. active = {} /\ Pool!Queued = {}
      BY <2>2 DEF PoolInv, Pool!Queued
    <3>2. clientFd[table[h]] = h /\ handlerPc[table[h]] # "returned"
      BY <2>2 DEF HandleInv, AfterPool
    <3>3. handlerPc[table[h]] = "none"
      BY <2>2, <3>1, <3>2 DEF HandlerInv
    <3> QED
      BY <2>2, <3>1, <3>2, <3>3, ServerAssumption DEF HandlerInv
  <2>3. mainPc \in AfterPool => ssl = {}
    BY <2>1 DEF PoolInv
  <2> QED
    BY <2>1, <2>2, <2>3 DEF NothingLeftOpen, AfterPool
<1> QED
  BY <1>1, Invariant, PTL

=============================================================================
