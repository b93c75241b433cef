------------------------------ MODULE TaskPool ------------------------------
(***************************************************************************)
(* What a ThreadPool promises the thread that owns it, without threads,    *)
(* locks or condition variables: a first-in first-out backlog, a bounded   *)
(* number of tasks running at a time, each accepted task run once, and a   *)
(* destructor that returns only when everything accepted has been run.     *)
(*                                                                         *)
(* ThreadPool (the translation of threadpool.hpp and threadpool.cpp) is    *)
(* shown to implement this module; Server uses it as its pool.             *)
(***************************************************************************)
EXTENDS Naturals, Sequences, FiniteSets

CONSTANTS
  Tasks,      \* the closures handed to enqueue, each of them once
  Capacity    \* the number of workers the pool was built with, a natural number

VARIABLES
  backlog,    \* tasks accepted and not started, oldest first
  active,     \* tasks being executed
  finished,   \* tasks that have returned
  refused,    \* tasks whose enqueue threw
  phase,      \* "open", "closing" (destructor entered), "closed" (returned)
  crashed     \* a task let an exception escape: std::terminate

poolVars == <<backlog, active, finished, refused, phase, crashed>>

Queued == {backlog[i] : i \in DOMAIN backlog}

\* Tasks that some enqueue call has already been given.
Known == Queued \cup active \cup finished \cup refused

TypeOK ==
  /\ backlog \in Seq(Tasks)
  /\ active \in SUBSET Tasks
  /\ finished \in SUBSET Tasks
  /\ refused \in SUBSET Tasks
  /\ phase \in {"open", "closing", "closed"}
  /\ crashed \in BOOLEAN

Init ==
  /\ backlog = <<>>
  /\ active = {}
  /\ finished = {}
  /\ refused = {}
  /\ phase = "open"
  /\ crashed = FALSE

-----------------------------------------------------------------------------
\* enqueue(t) on a pool that is not being destroyed.
Submit(t) ==
  /\ ~crashed
  /\ phase = "open"
  /\ t \notin Known
  /\ backlog' = Append(backlog, t)
  /\ UNCHANGED <<active, finished, refused, phase, crashed>>

\* enqueue(t) once the destructor has raised the stop flag: it throws.
Refuse(t) ==
  /\ ~crashed
  /\ phase # "open"
  /\ t \notin Known
  /\ refused' = refused \cup {t}
  /\ UNCHANGED <<backlog, active, finished, phase, crashed>>

\* A free worker takes the oldest task.
Start ==
  /\ ~crashed
  /\ backlog # <<>>
  /\ Cardinality(active) < Capacity
  /\ active' = active \cup {Head(backlog)}
  /\ backlog' = Tail(backlog)
  /\ UNCHANGED <<finished, refused, phase, crashed>>

\* A task returns.
Finish(t) ==
  /\ ~crashed
  /\ t \in active
  /\ active' = active \ {t}
  /\ finished' = finished \cup {t}
  /\ UNCHANGED <<backlog, refused, phase, crashed>>

\* A task throws: nothing catches it on the worker's stack, the process ends.
Crash ==
  /\ ~crashed
  /\ active # {}
  /\ crashed' = TRUE
  /\ UNCHANGED <<backlog, active, finished, refused, phase>>

\* The owner enters the destructor and raises the stop flag.
Close ==
  /\ ~crashed
  /\ phase = "open"
  /\ phase' = "closing"
  /\ UNCHANGED <<backlog, active, finished, refused, crashed>>

\* The destructor returns: it has waited for every worker to leave, and a
\* worker leaves only when the backlog is empty.  A pool built with no worker
\* at all has nobody to wait for and drops its backlog.
Dispose ==
  /\ ~crashed
  /\ phase = "closing"
  /\ active = {}
  /\ Capacity > 0 => backlog = <<>>
  /\ phase' = "closed"
  /\ UNCHANGED <<backlog, active, finished, refused, crashed>>

Next ==
  \/ \E t \in Tasks : Submit(t) \/ Refuse(t) \/ Finish(t)
  \/ Start
  \/ Crash
  \/ Close
  \/ Dispose

Spec == Init /\ [][Next]_poolVars

\* Tasks end, by returning or by throwing; free workers take what is queued.
Fairness ==
  /\ WF_poolVars(Start)
  /\ \A t \in Tasks : WF_poolVars(Finish(t) \/ (t \in active /\ Crash))

FairSpec == Spec /\ Fairness
=============================================================================
