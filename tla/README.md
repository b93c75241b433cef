# InfraLite mock server: a TLA+ model

InfraLite is a small HTTP/HTTPS mock server for Windows, written in C++17
(about 1600 lines of `.cpp` and 570 of `.hpp`; everything else under `src/` is
vendored: SQLite, nlohmann/json, picojson, jwt-cpp, spdlog, OpenSSL headers).
It accepts connections on one thread, hands each of them to a pool of worker
threads that read one request and send one response, and takes its routes from
code, from a JSON file and from a SQLite database that it fills on every start.

This directory models that program in TLA+, checks the models with TLC on
small instances, and proves the central results with TLAPS for all instances.

All paths below are relative to the repository; `main` is
`src/InfraLite-MockServer.cpp`.

## 1. Inventory

| Part | State | Operations | Works with |
|---|---|---|---|
| Thread pool (`server/threadpool.hpp`, `.cpp`) | task queue, stop flag, mutex, condition variable, worker threads | constructor, `enqueue`, worker loop, destructor | built, fed and destroyed by `CServer::Run` |
| Server (`server/server.cpp`) | `bIsRunning`, `iServerFd`, one handle per connection | `Run`, `InitSocket`, `AcceptClient`, `Stop`, `HandleClient`, destructor | the pool runs `HandleClient`; the console's thread calls `Stop` |
| `main` | `gServer`, locals | seeds the database, builds the router, installs `ConsoleHandler`, calls `Run` | all of the others |
| Database repositories (`src/db`) | five tables in one SQLite file, one connection | `CREATE TABLE`, `Add...`, `Get...`, `SetConfig` | called by `main` only, before the server runs |
| Request reader and parser (`ReadRequest`, `request.cpp`) | a local buffer; a `CHttpRequest` | read headers, read body, parse | called by `HandleClient` |
| Router (`router.cpp`) | map of routes, map of secure routes, file handler | `AddRoute`, `AddSecureRoute`, `RouteRequest` | filled by `main` and the loader; read by the pool's threads |
| Authorisation (`SecurityManager.cpp`, `JwtHandler.cpp`) | secret, issuer | `Authorize` | called inside secure routes |
| Configuration loader (`config_loader.cpp`) | none | `Load` of `config/routes.json` | adds routes to the router |
| File handler, response (`file_handler.cpp`, `response.cpp`) | base directory; a response's fields | serve a file; serialise | called by routes |
| Access log repository | one table | `AddLog`, `GetLogs` | never called once the table exists |
| TLS context, logger | an `SSL_CTX`; spdlog's sinks | set-up, log | used by `HandleClient` and everyone |

The README of the repository also names a Qt user interface; there is no code
of it. `tests/test_routes.py` and the CI workflow are read as statements about
the program.

### What is hard, and what makes each part correct

*Thread pool.* Several workers sleep on one condition variable; `enqueue`
notifies after it has released the mutex, another worker can take the task in
between, wakeups may be spurious, and the destructor raises its flag while
workers are anywhere in their loops. It is correct if no accepted task is lost
or run twice, no task is left in the queue with everybody asleep, `front()` is
never called on an empty queue, and the destructor returns, after the queue
has been emptied.

*Server.* Three kinds of threads share a handle table whose numbers are used
again at once: the accepting thread, the handlers, and the console's thread
inside `Stop`. The listening socket's number is closed in up to four places,
and `HandleClient` has five ways out. It is correct if nobody closes a handle
that is another one's, if nothing stays open, if no handler outlives the
objects it captured, and if a stop request ends the loop.

*Start-up.* `main` repeats its inserts at every start and ignores their
results; it may be killed between any two of them, any of them may fail, and
the id it attaches a file to is whatever `sqlite3_last_insert_rowid` says. It
is correct if each route is served from its own file, also after restarts, and
if an interrupted start costs no more than what it was about to write.

*Requests.* The text of a request arrives in pieces that TCP chooses, and the
client may end at any of them. It is correct if the handler neither waits for
bytes that will not come nor goes on without bytes that will, if the body
it passes on is the one that was sent, and if only a whole submission is
acknowledged. The hard cases: headers that arrive in
two reads, a last piece that goes beyond the declared length, a
`Content-Length` that is no number or no `int`, and a client that leaves before the end.

*Routes, authorisation, configuration.* Three sources fill two tables in an
order of `main`'s, each assignment replacing an earlier one, and any request may
come. It is correct if the right source wins, if secured content goes to the
right holders whatever the configuration says of the same key.

*Stored settings.* `main` writes some rows of the database at every start and
reads them later in the same start; somebody else may write them in between or
before. It is correct if what an administrator stored is used.

## 2. Plan

The order follows the weight of the behaviour.

1. `TaskPool`, `ThreadPool`, `ThreadPoolProofs`: the concurrent core, its
   abstract promise, the proof that it is kept. *Done.*
2. `Server`: connections and shutdown, composed with `TaskPool`. *Done.*
3. `Bootstrap`: the seeding of the database over several starts. *Done.*
4. `ServerProofs`: handles are never closed by strangers, nothing outlives
   `Run`. `BootstrapProofs`: the routes of any number of starts. *Done.*
5. `HttpRequest`, `RequestReader`: both `ReadRequest`s and `Parse` against the
   pieces in which the bytes arrive; the reference is what the client meant. *Done.*
6. `Router`: the configuration's loading, registration from the three sources,
   look-up, authorisation, fall-back to files, response types. *Done.*
   `RouterProofs`: every safety property of `Router`. *Done.*
7. `System`: `Server` over `ThreadPool` instead of `TaskPool`. *Done.*
   `SystemProofs`: it implements `Server`. *Done.*
8. `PORT` in `Bootstrap`: `main`'s value against an administrator's. *Done.*
9. `RequestReaderProofs`: every safety property of `RequestReader`; what
   `Number` computes, in `ContentLengthProofs`. *Done.*
10. Still to prove: that the messages `Message` builds are well formed for all
    values and bodies (TLC evaluates it on the messages of the runs).
11. Still to model: two processes that start on one database file.

## 3. Modules

| Module | Models |
|---|---|
| `TaskPool` | what the pool promises: a first-in first-out backlog, at most `Capacity` tasks active, a closing that drains |
| `ThreadPool` | `threadpool.hpp` and `threadpool.cpp`, one action per step another thread can observe |
| `MCThreadPool` | bounds for TLC |
| `ThreadPoolProofs` | the inductive invariant and the refinement, proved |
| `Server` | `server.cpp` and `main`'s console handler, over a handle table |
| `MCServer` | bounds and symmetry for TLC |
| `ServerProofs` | the handle invariant, proved |
| `System` | `Server` composed with `ThreadPool`: the whole concurrent program |
| `MCSystem` | bounds for TLC |
| `SystemProofs` | `System` implements `Server`, keeps both modules' invariants and calls each as it must be called, proved |
| `HttpRequest` | `HttpRequest::Parse`, as operators on sequences of tokens |
| `RequestReader` | both `ReadRequest`s and the `Parse` after them, with the client |
| `MCRequestReader` | the messages that clients send |
| `ContentLengthProofs` | what `Number` and `Throws` make of every value, against the definition by decimal places, proved |
| `RequestReaderProofs` | what the parser's other operators return, and the reader's properties, proved |
| `IndexFacts` | least and greatest members of sets of numbers, and induction on a set |
| `Router` | `main`'s filling of the tables, `config_loader.cpp`, `router.cpp`, `SecurityManager.cpp`, `file_handler.cpp`, `response.cpp` |
| `MCRouter` | configurations, rows and requests |
| `RouterProofs` | types, which source wins, secured content, proved |
| `Bootstrap` | the statements of `main` (lines 59-126) through the repositories, over several starts, and the port it then reads; its runs need no MC module |
| `BootstrapProofs` | which ids routes and files get, what a crash costs and whose the routes are, proved for any number of starts |

Operators introduced by a comment "Variant:" are plausible bugs of the action
that follows them. No specification uses them: they exist so that one can
check that each property notices one.

### ThreadPool

| Code | Model |
|---|---|
| `std::queue tasks`, `stop`, `queueMutex` | `tasks`, `stop`, `queueMutex` (its holder) |
| waiting in `condition.wait` | `workerPc[w] = "blocked"` |
| taking the lock | `WorkerAcquire`, `EnqueueLock`, `DtorLock` |
| the predicate of `wait`, then blocking | `WorkerTest`; `WorkerBlock` blocks and frees the mutex in one step, as `wait` does |
| `if (stop && tasks.empty()) return` | `WorkerExit` |
| `front`, `pop`, end of the lock's scope | `WorkerPop` |
| `task()` | `TaskReturns`, `TaskThrows` (nothing catches: `std::terminate`) |
| `enqueue`: throw, push, `notify_one` | `EnqueueThrow`, `EnqueuePush`, `EnqueueNotify` |
| destructor: flag, `notify_all`, joins | `DtorStop`, `DtorNotifyAll`, `DtorJoin` |

`notify_one` wakes any one sleeping worker, or nobody when nobody sleeps;
`SpuriousWakeup` may wake a sleeper at any time. `accepted`, `refused` and
`finished` are history: they only record. `ImplementsTaskPool` maps `tasks` to
the backlog, the tasks of the workers that are in `task()` to the active ones,
and the destructor's place to the phase.

Left out: a `std::thread` that cannot be created in the constructor, and
allocation failures. The joins are one step: each returns when its worker has
exited, workers do not come back, and the owner does nothing in between.

### Server

The pool's six variables are those of `TaskPool` (`Pool == INSTANCE TaskPool
WITH Tasks <- Clients`): a task is the handler of one client. `EnqueueClient`
is `Pool!Submit`, `HandleClient` begins with `Pool!Start`, `CloseClient` ends
with `Pool!Finish`, the end of `Run` is `Pool!Close` and `Pool!Dispose`. The actions that
touch the pool are conjunctions of the server's part (`HandOver`,
`BeginHandler`, `EndHandler`, ...) and the pool's, so that `System` can join the
same parts with the real pool's steps.

`table` is the process's handle table: a handle is free, a socket, the
listening socket or a client. `closesocket(h)` frees whatever `h` denotes now
and does nothing to a number that is not open. `mainPc` follows `main` from
the installation of the console handler through `Run` to the exit of the
process; `handlerPc[c]` follows `HandleClient`; `stopPc[s]` follows one console
event through `Stop`. The content of requests is left out: what counts is
which way a handler takes out of `HandleClient`. `SSL_new` returning null and
a failing allocation are left out. `ConsoleEvent` is Ctrl-C or the closing of
the console window (`main`:281); after the second one Windows ends the process
by itself some time after the handler has returned. That only cuts a behaviour
short, which no safety property can notice; what the liveness properties say
of shutdown is said of Ctrl-C.

`bIsRunning` is a plain `bool` that two threads use without synchronisation.
Formally that is a data race. Every access is next to a call the compiler
cannot see into (`accept`, `closesocket`, `socket`), so each access is a read
or a write of memory, and the model makes it one atomic step.

### System

`System` has the variables of `Server` without its abstract pool, and those of
`ThreadPool` with `Callers <- {Main}` and `Owner <- Main`: `Run`'s thread is the
only one that calls `enqueue` and the destructor. Each step is a step of one
thread. The step of the pool that takes effect is joined with the server's part:
`EnqueuePush` with `HandOver`, `WorkerPop` with `BeginHandler`, `TaskReturns`
with `EndHandler`, `TaskThrows` with `HandlerFails`, `DtorStop` and `DtorJoin`
with the ends of the destructor's wait; the pool's other steps (lock, notify,
wake up, test, block) leave the server alone. `ImplementsServer` maps the pool
as `ThreadPool` maps itself to `TaskPool`.

A joined step happens only when both of its parts can. Where the pool could go
on and the server's part could not, the composition would silently leave out what the
program does; `CallsMeetTheirPreconditions` says that this never happens.
`SystemAssumption` gathers what both modules assume of their constants.

### RequestReader

Text is a sequence of tokens, so that a message is ten to twenty of them: a
line end, a header that does not matter, the name `Content-Length:`, each
character of its value, each byte of a body. `Send` lets one more token arrive,
`EndLink` ends the connection, and a read takes any piece of what has arrived up
to `Buffer` tokens, which is what TCP may do; all ways to cut a message are
therefore behaviours. `Parse` is the code as it is: the last of several headers
wins, `stoi` takes a sign and the digits up to the first character that is none,
throws without digits and on a number that is no `int` (`MaxInt`), the string
constructor throws on a negative one, and the body is a string of zeros that the
text overwrites. The properties take what the client means from `message`
instead: `Says(value, n)` is how a number is written, by its decimal places,
with a sign, leading zeros and text behind it, and a size is a number from 0 to
`MaxInt`; nothing in it refers to `Number` or `Throws`. Both `ReadRequest`s take the same
steps over `recv` and `SSL_read`; their test for an empty `lenStr` decides
nothing, since `Parse` of the headers has thrown on an empty value by then.
`firstRead` is history.

`Submit` is the handler of `/submit` on the body that `Parse` made, be it cut or
filled with zeros: nlohmann's parser accepts one whole text and nothing behind
it, except that its lexer takes a zero byte as the end of its input.
`AcknowledgedSubmitsAreWhole` relates its answer to what the client sent.

`MessageAssumption` says of `Messages` what makes a text an HTTP message with
the declared lengths (`WellFormed`): its headers end at the first empty line, the
last `Content-Length` in them has the value that `lengths` ends with, and only
bytes follow. It does not restrict the client, who may cut the text anywhere,
stop in the middle, declare too much or too little, or declare no number.

### Router

`stage` follows `main`; each action up to `StartServing` is a stretch of it.
The handlers are records: where the handler comes from and the status, format
and `Content-Type` it sets (`NoType` for none, which `HandleClient` then
fills); `FormatType` is the switch of `ToString`. `RouterAssumption` says that the
array "routes" is a sequence and that `Extension` gives a format. `Serve` is one request from `Parse` to
`SendResponse`; nobody writes the tables once `Run` has begun, so requests at
the same time cannot influence one another. What a token or a body is has been
reduced to what the code tells apart (signed and valid or not, the role, which
JSON it is). Which of the bodies that arrive are whole is `RequestReader`'s
question.

### Bootstrap

One action per SQL statement that writes, each committed by itself as SQLite
does without `BEGIN`. Rows are reduced to ids and references. What SQLite does
with ids (an ignored row uses one, a row that violates `UNIQUE` does not,
`REPLACE` gives a new one) was confirmed by running the vendored version
3.51.2. `Crash` kills the process between any two statements.

Any statement may fail, for a reason of its own (`SQLITE_BUSY`: no busy timeout
is set) or because its table could not be created, which `main` does not look at.
`PrepareFails` is a `CREATE TABLE` that fails or an `INSERT` that cannot be
prepared: `AddUser` and `AddRoute` return -1, and `AddFile` may then store
the -1. `StepFails` is an `INSERT` that is prepared and not executed: nothing is
stored, `AddUser` returns -1, `AddRoute` returns `last_insert_rowid`, which is as
before, or the id of the row if the statement failed when it was committed. A
`SELECT` that fails gives the rows it had got to (`LoadRoutes`), and
`GetConfig` the empty string, as it does without a row (`StartServer`).

`StorePort` is an administrator's tool that calls `SetConfig("PORT", ...)` over a
connection of its own, at any moment once the table exists; `StartServer` reads
the value, and ends the process if it is no number. `stored` is history: the value
that was stored while no start was under way.

## 4. Runs

| Run | Instance | Shows |
|---|---|---|
| `pool` | 3 workers, 2 callers, 3 tasks | accounting of tasks, no lost wakeup, safe pop, nobody asleep at join, drained at destruction; every accepted task runs, the destructor returns, `ThreadPool` implements `TaskPool` with its fairness; and that the inductive invariant `IInv` of the proofs holds |
| `server_safety` | 3 clients, 3 handles, 2 pool threads, 2 console events, TLS | handles are closed by their owners only, no handler outlives `Run`, nothing stays open; and that `IInv` holds |
| `server_live` | 3 clients, 3 handles, 1 pool thread, 1 console event, TCP | queued clients are accepted although `accept` fails while no handle is left; shutdown completes and accepted connections are closed, those in the backlog included |
| `server_stop` | 2 clients, 2 handles, 1 console event | *violation*: a stop request that comes before `Run` sets the flag is lost |
| `bootstrap_safety` | 4 starts, crashes anywhere, 1 failing statement, 1 edit of `PORT` | which routes are served from files after interrupted starts, what each crash costs, whose the routes are; and that `IInv` holds |
| `bootstrap_port` | 2 starts, 1 edit of `PORT` | *violation*: a port stored between two starts is gone before it is read |
| `bootstrap_foreign_key` | 2 starts | *violation*: files are given to the ids of rows of other tables |
| `system_safety` | 2 clients, 3 handles, 2 workers, 1 console event, TLS | the composition implements `Server`; the mutex is never held across a call that waits; each module's operations are called as it expects |
| `reader` | 42 messages: 18 lists of lengths, bodies of 0 to 10 bytes, with and without a next request, buffer of 10 tokens, `int` up to 12 | the body is what arrived, no waiting in vain, which lengths throw, only whole submissions are acknowledged; complete requests are handled while the client keeps the connection open |
| `reader_split` | 1 POST | *violation*: headers in two reads lose the body |
| `router_safety` | 8 configurations, 3 contents of `MOCKROUTE`, 56 requests | which source wins, secured content; and that `IInv` holds |
| `router_types` | the shipped `routes.json` | *violation*: a json route is not served as json |

### The disagreements

`server_stop`: `main` installs the console handler before it calls `Run`
(lines 262-264), and `Run` sets `bIsRunning = true` after `InitSocket`
(server.cpp:55-56). A Ctrl-C in between has its `false` overwritten. `Stop`
has logged "Server loop will exit" (server.cpp:81) and the loop runs on; if
`Stop` also closed the socket, it runs on failing accepts.

`bootstrap_foreign_key`: `AddRoute` returns `sqlite3_last_insert_rowid` even
when its `INSERT` failed (route_repository.cpp:53-59), which is every time from
the second start on. The id is then that of the last `SERVERCONFIG` or
`STATICFILE` row, and `AddFile` stores it, against the declared foreign key.
That the wrong ids never reach a route that has a body of its own is what
`FilesGoToTheirRoutes` shows.

`bootstrap_port`: `main` calls `SetConfig("PORT", "8080", ...)` at every start
(line 70) and reads `PORT` 151 lines later, so the value an administrator has
stored in the table is replaced before it is ever used. The repository's
README says of the SQLite configuration "Configure server behavior without code
changes" (README.md:14). Only an edit that falls between the two lines counts,
or one before a start whose `SetConfig` fails.

`reader_split`: `ReadRequest` looks for the end of the headers in its first
read only (server.cpp:203-205, 239-241). If they arrive in two reads, the rest
of the request is never read; the route gets an empty body, or zeros.
`BodyIsWhatArrived` shows that with the headers in one read the body is right
for every way to cut what follows.

`router_types`: `config_loader.hpp:13` and the shipped `routes.json` spell the
types in lower case, `StringToFormat` compares with upper case, so every
configured route is `text/plain`; `HandleClient` then adds `text/html`, since
the format's header is not in `mHeaders`.

Two more were seen while modelling, and no run shows them as a violation:

- `AddUser` returns -1 when the user exists (user_repository.cpp:40-46), `main`
  uses the result unchecked, and a start that inserts the routes an interrupted
  one did not get to stores `CreatedBy = -1`, against the foreign key of
  route_repository.cpp:26. `RoutesHaveTheirCreator` shows that this needs a
  crash, and which routes it can happen to: those that come after everything the
  interrupted start had inserted.
- `GetUsers` selects the column `CreatedAt` (user_repository.cpp:56), the table
  has `CreateAt` (17): the statement is not prepared and the list is empty.

### Bounds, and why they are enough

*Pool.* Two callers are needed for an `enqueue` to meet the destructor. Three
workers and three tasks let one worker sleep while another takes a task and a
third is woken for it; more of either repeats those roles, and the proofs
remove the bound for safety. There is no symmetry, which is unsound for the
liveness that the same run checks.

*Server.* Three handles: the listening socket and two connections, so that in
`server_safety` a third client meets an exhausted table and takes over a closed
number. Two console events allow two concurrent `Stop`s. The liveness run
has no symmetry: one pool thread and two connections put one of them in the
backlog at shutdown, and the third client makes `accept` fail until one of the
two handles is free. The safety properties are proved without bounds.

*Bootstrap.* The first start fills the tables, the second one meets them full
with stale ids. `last_insert_rowid` at each later `AddRoute` depends only on
the configuration rows (three per start) and the file rows (three per start):
four starts cover an interrupted one, its repair and two regular ones, or two
interrupted ones that cost two files. One failing statement may stand anywhere,
so that every later statement meets what it leaves behind; the properties beside
the types make no claim once one has failed.
`MaxBoots`, `MaxFailed` and `MaxEdits` are the only bounds inside the module.

*System.* The bounds of its parts: two workers make one sleep while another
takes a task, two connections make one wait in the queue. The composition is
checked for safety only: its liveness is that of `Server`, which assumes the
fairness of `TaskPool`, together with `ImplementsFairTaskPool`, by which the
real pool has that fairness. Its safety is proved without bounds.

*RequestReader.* The headers take 5 to 8 tokens with one length. A buffer of
10 tokens lets a first read end before, at and after their end, and more than
one further read follow a length of 10. `4096` only matters in relation to the
message, and `INT_MAX` in relation to the numbers: with 12 for it, 2, 10 and 12
are in its range and 20 and 100 are not. Values of
one and two digits, with leading zeros, signs and text behind them, empty, a sign
alone, two signs, negative, too large and no number are all the classes `stoi` and the string constructor
tell apart. The safety properties are proved for messages, buffers and ranges of
any size.

*Router.* The eight configurations are the classes `LoadConfig` tells apart, the
shipped one, and one whose entries collide with every other source and with
one another. The safety properties are proved for all.

## 5. Fairness

*ThreadPool.* Weak fairness of each worker's and each caller's steps: the
scheduler runs threads that can run, and tasks end. Calling `enqueue` or the
destructor and waking spuriously are not fair: nobody has to. `DtorLock` is
strongly fair: a mutex is not queued, and a destructor that finds it free again
and again gets it at some point. Without that, workers woken spuriously
without end could keep it from the destructor.

*Server.* Weak fairness of the accepting thread, of what handlers do without
their client, and of `Stop`; strong fairness of `accept` per client, since it
may fail in between. `ClientFairness` says that a client completes the
handshake, sends its request and reads the response, or goes away. The code
does not enforce it: no socket has a timeout. The liveness properties of
`Server` are under that assumption, and without it neither shutdown nor
closing would complete. Every liveness property excepts the end of the
process by an escaped exception.

*System.* None: see Bounds.

*RequestReader.* Weak fairness of the reader's steps and none of the client's:
that is the point of `CompleteRequestsAreHandled`.

## 6. Proofs

`ThreadPoolProofs` proves, for every set of workers (the empty one too),
callers and tasks, from `ThreadsAssumption` alone (the sets of threads are finite
and disjoint, the owner is a caller, the two null values are not threads or
tasks):

- `TypeCorrectness`, `NoTaskLostOrRepeated`, `NoLostWakeup`, `PopIsSafe`,
  `NoSleeperAtJoin`, `DestructionDrains`: each safety property that
  `pool` checks;
- `Refinement`: `Spec => ImplementsTaskPool`.

The argument. None of the properties is inductive. `IInv` adds to the types
`ControlInv`, which says who holds the mutex at each place of the loops, that
only the owner is in the destructor, that the flag is up exactly from
`DtorStop` on, that a worker about to block has seen the flag down and the
queue empty *and still holds the mutex*, and that an exited worker left the
queue empty with the flag up; and `ClosureInv`, which says where a closure is
between `enqueue` and its end and that fresh tasks are fresh. The lost-wakeup
property `WakeupsCoverBacklog` counts: while anybody sleeps, the queue is no
longer than the notifications on their way plus the workers that will look at
it. A push adds a task and a notification; a notification becomes an awake
worker; a pop takes one of each; a worker blocks only when the queue is empty.
The proof treats one disjunct of `Next` at a time and, under it, one conjunct
that the step can disturb; the cardinalities come from lemmas about adding to
and removing from finite sets.

`Refinement` maps each step to a step of `TaskPool` or to a stutter, in one
lemma per step (`PopRefines`, `PushRefines`, ...), which `SystemProofs` cites. The step
that needs work is `WorkerPop`: fewer tasks are active than there are workers,
because the popping worker is not running one and no two workers run the same.

`ServerProofs` proves `TypeOK`, `HandlersOwnTheirHandles`
(`NoHandleStolen`), `NoHandlerOutlivesRun` (`HandlersEndWithRun`) and
`NothingLeftOpen` (`EverythingIsClosed`) of `Server`, for all sets of clients,
handles and console events, every capacity (zero too) and with or without TLS,
from `ServerAssumption`. Its `IInv` has three parts beside the types.
`HandleInv`: the number in `iServerFd` never denotes a client, because a new
connection gets a free number while the listener is open, and once the
listener is closed there are no new connections; and a handle that denotes a
client is that client's handler's, or the one the accepting thread is about to
hand over. `HandlerInv`: the pool's view of a handler (queued, active,
finished) agrees with the handler's own place. `PoolInv`: nothing is active or
queued before `Run` builds the pool or after it has joined it.

`BootstrapProofs` proves `TypeOK`, `FilesGoToTheirRoutes`,
`HelloIsServedFromFile`, `CrashesCostOneFileEach` (`CrashesCostLittle`) and
`RoutesHaveTheirCreator` for every `MaxBoots`, `MaxFailed` and `MaxEdits`
(`BoundsAssumption`: they are natural numbers) and every set of ports
(`PortsAssumption`: the names of the other values are not among them). Why a
stale id never hits `/dbtest`, whose id is 2, takes an invariant over all of the
connection's history: `last_insert_rowid` can be 2 only right before an
`AddRoute` that inserts (`RowidInv`), since three configuration rows precede
every `AddRoute`, and a file row 2 is only written in a start that still has
to insert `/logo` (`FilesInv`). `RoutesInv` says that interrupted starts
insert a prefix of the routes, so that ids are the positions in `main`.
`LossInv` counts: `/banner` or `/logo` can be without its file, outside the step
between the two statements, only at the price of a crash each.
`CreatorInv` says that a start that stores the user finds no other's route, and
that without a crash a start that finds the user also finds every route, so
that the -1 is stored only after one.

`SystemProofs` proves, from `SystemAssumption`:

- `UsesThePool`: `Spec => Pool!Spec`, so that every theorem of
  `ThreadPoolProofs` holds of the program (`PoolIsSafeInTheServer`);
- `Refinement`: `Spec => ImplementsServer`, so that every theorem of
  `ServerProofs` does (`ServerIsSafeOnTheRealPool`);
- `MutexIsHeldBriefly` (`NobodyWaitsWithTheMutex`) and `PreconditionsAreMet`
  (`CallsMeetTheirPreconditions`).

The proof modules of the pool and of the server are instantiated with
`System`'s substitutions, and `Same...` lemmas identify their formulas with
those `System` is written in. Each step of `System` is a step of the pool or
leaves it alone, whatever the server's part does: therefore the pool's invariant holds
before anything is known of the server, and it alone carries the refinement
(`NextRefines`): `WorkerPop` takes the head of the queue and a worker that ran
nothing, which is `Start`; `EnqueuePush` finds the pool open, which is
`Submit`; the pool's other steps change nothing that `Server` sees. The refinement in turn
gives the server's invariant. The two say nothing of one another: `MainInv` ties the
thread of `main`'s place in `enqueue` and the destructor to its place in `Run`,
`WorkersInv` the workers' life to that of `Run`'s pool and finished tasks to
handlers that have returned. That an accepted handle is still the same client's when
`enqueue` has got the mutex follows from `HandleInv`, since only its own
handler could close it and that is not queued yet.

`RouterProofs` proves every safety property of `Router`, for every set of configuration
files of any length, contents of `MOCKROUTE` and requests, from `RouterAssumption`: `TypeOK`,
`SecureContentIsGuarded` (`SecuredContent`) and `TablesFollowTheirSources`
(`TablesMatchTheirSources`). `GuardInv`
adds what is in the tables: from `RegisterSecureRoutes` on the secure table is
`main`'s, and nothing in the open table has the secured handlers. For secured content the open table's
handlers are arbitrary otherwise. Which of them won is `SourcesInv`: at each stage of
`main`, the keys of the table and, for each key, the entry, row or line of
`main` its handler is from. After `n` turns of the loop over the entries it is the
last of the first `n` with that key; a turn adds one entry, which is later
than all others. `TablesFollowTheirSources` reads the same off the sources alone, with
a `CHOOSE` of the last entry, which is shown to exist by `GreatestIndex`.

`ContentLengthProofs` proves that the code's reading of a number is right, for
every value and every `MaxInt` (`SaysFacts`): it throws exactly if no number from 0 to `MaxInt` is
written there, and otherwise `Number` is the one that is. `Number` goes through the
digits from the left and multiplies, `Says` compares decimal places from the
right and divides; `Reads` and `Writes` are the two directions, by induction
on the length of the prefix. The induction theorems of the library take an
operator, so `SetInduction` of `IndexFacts` states it for a set instead and
proves it by the least counterexample.

`RequestReaderProofs` proves every safety property of `RequestReader`, for messages
and buffers of any length, every range of `int` and every way to cut the text, from
`MaxIntAssumption`, `BufferAssumption` and `MessageAssumption`: `TypeOK`, `NeverWaitsInVain`
(`WaitsForWhatIsMissing`), `OnlyBadLengthsThrow` (`ThrowsExactlyOnBadLengths`),
`BodyIsWhatArrived` (`BodiesAreWhatArrived`) and `AcknowledgedSubmitsAreWhole`
(`AcknowledgementsAreDeserved`). It begins with the operators:
what `HeaderEnd`, `LengthField` and `Parse` return. `Cut` is the
central one: of a well-formed message cut anywhere behind its headers,
`HeaderEnd` is the end of the headers and `LengthField` the last declared value; the bytes
behind them do not matter. The invariant has one part for headers that
arrived in one read (`WholeHeaderInv`: when the reader stops, all that was
declared has been read or nothing more can come, `ReadAll`, and the result is
what was read, filled up with zeros) and one for those that did not
(`CutHeaderInv`: nothing more is read, and the body is empty or zeros, which is
why a cut header cannot lead to a false acknowledgement).

*Only model-checked:* all liveness (`EveryTaskRuns`, `DestructorReturns`,
`ImplementsFairTaskPool`, `QueuedClientsAreAccepted`, `ShutdownCompletes`,
`ConnectionsAreClosed`, `CompleteRequestsAreHandled`), since the prover does not
handle fairness and `ENABLED`; and that `Message` builds well-formed messages,
which TLC evaluates for those of the runs as it checks `MessageAssumption`.
The five violations are TLC's counterexamples. Every
invariant that a passing run checks is a theorem. The `IInv`s of `System` and
`RequestReader` are not listed in a run: their parts that say something of the
code are, one by one, and what the rest says is proved.

## 7. Not modelled

*Vendored code.* More than 99% of the lines under `src/` that are not
documentation are copies of other projects: SQLite's amalgamation and header
(236 000 lines), nlohmann/json, picojson, jwt-cpp, spdlog with fmt, and the
OpenSSL headers. They are used as they are, and modelled only where the
program depends on what they do: SQLite's ids, the
lexer's treatment of a zero byte, the outcome of verifying a token, the
condition variable, the handle table, `recv`. Of the program's own 1600 lines
of `.cpp`, the modules cover all functions that change or choose something,
apart from those named below.

*Access log.* Never written: `CServer` keeps the repository's pointer and does
not use it. *TLS context:* three calls at start-up, modelled as success or
failure; cryptography belongs to OpenSSL and jwt-cpp. *Logger:* no state of its
own. *`GetAllConfigs`, `GetUsers`*: called by nothing. *User interface:* no code.

*Two processes on one database.* `Bootstrap` has one process at a time. Two
that start together on an empty database interleave their inserts and can give
`/dbtest` a file; planned.

*`AddUser` when it succeeds* does not finalize its statement
(user_repository.cpp:43-48); `sqlite3_close` then fails at the end of the first
start, right before the process ends, so no later state depends on it.

*Numbers and memory.* `stoi` skips blanks before the number, and `PORT` has one
spelling of "no number"; a Content-Length that fits an `int` and no memory throws
`bad_alloc`, which is an allocation failure like others.

*Contents:* bodies, file contents, delays and the wording of logs.
