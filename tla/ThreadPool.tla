----------------------------- MODULE ThreadPool -----------------------------
(***************************************************************************)
(* Thread_pool: worker threads, a task queue, a mutex, a condition         *)
(* variable and a stop flag.  One owner thread constructs the pool, hands  *)
(* tasks in, may wait for the future of a packaged task, and destroys the  *)
(* pool; with no workers the owner runs the tasks itself.  How many threads*)
(* there are is decided where the pool is made: hardware_concurrency().    *)
(*                                                                         *)
(* A thread that holds the mutex is in a critical section of several       *)
(* steps, so that notifications, which are sent without the mutex, can     *)
(* fall between a worker's test of the predicate and its sleep.            *)
(***************************************************************************)
EXTENDS Integers, Sequences, FiniteSets

CONSTANTS
  Workers,     \* the threads there can be
  Owner,       \* the thread that owns the pool
  Nobody,      \* no thread; no task
  Tasks,
  Packaged,    \* tasks handed to run_packaged_task(), the others to run_task()
  Throwing,    \* tasks that end with an exception
  MaxSpurious  \* bound: spurious wake-ups of the condition variable

ASSUME PoolAssumption ==
  /\ Owner \notin Workers /\ Nobody \notin Workers \cup {Owner} /\ Nobody \notin Tasks
  /\ IsFiniteSet(Workers) /\ IsFiniteSet(Tasks)
  /\ Packaged \subseteq Tasks /\ Throwing \subseteq Tasks
  /\ MaxSpurious \in Nat

VARIABLES
  tasks,     \* the queue
  stop,
  mutex,     \* holder of the mutex
  waiting,   \* workers asleep on the condition variable
  wpc,       \* where each worker is
  task,      \* the task each worker has taken
  opc,       \* where the owner is
  arg,       \* the task the owner is handing in or waiting for
  outcome,   \* of every task: "none", "value" or "exception"
  aborted,   \* std::terminate() was called
  spurious,  \* spurious wake-ups so far
  handedIn   \* the tasks handed in so far, in order (history)

shared == <<tasks, stop>>
worker == <<wpc, task>>
owner == <<opc, arg>>
vars == <<shared, mutex, waiting, worker, owner, outcome, aborted, spurious, handedIn>>

Inline == \A w \in Workers : wpc[w] = "absent"     \* threads.empty()
Submitted == {handedIn[i] : i \in DOMAIN handedIn}

Init ==
  /\ tasks = << >> /\ stop = FALSE
  /\ mutex = Nobody /\ waiting = {}
  /\ wpc \in [Workers -> {"unborn", "absent"}]      \* pool_size
  /\ task = [w \in Workers |-> Nobody]
  /\ opc = "construct" /\ arg = Nobody
  /\ outcome = [t \in Tasks |-> "none"]
  /\ aborted = FALSE /\ spurious = 0
  /\ handedIn = << >>

WorkerAt(w, from, to) == wpc[w] = from /\ wpc' = [wpc EXCEPT ![w] = to]
OwnerAt(from, to) == opc = from /\ opc' = to

\* The mutex is taken by a free choice among the threads that want it.
Take(p) == mutex = Nobody /\ mutex' = p
Release == mutex' = Nobody

-----------------------------------------------------------------------------
(* The worker's loop.                                                      *)

Acquire(w) ==
  /\ WorkerAt(w, "lock", "test")
  /\ Take(w)
  /\ UNCHANGED <<shared, waiting, task, owner, outcome, aborted, spurious, handedIn>>

\* The predicate of wait() is false: go to sleep ...
Doze(w) ==
  /\ WorkerAt(w, "test", "doze")
  /\ ~stop /\ tasks = << >>
  /\ UNCHANGED <<shared, mutex, waiting, task, owner, outcome, aborted, spurious, handedIn>>

\* ... which releases the mutex and registers the worker in one step.
Sleep(w) ==
  /\ WorkerAt(w, "doze", "sleep")
  /\ waiting' = waiting \cup {w}
  /\ Release
  /\ UNCHANGED <<shared, task, owner, outcome, aborted, spurious, handedIn>>

\* A notified worker, or one that wakes for no reason, tests again.
Wake(w) ==
  /\ WorkerAt(w, "sleep", "lock")
  /\ \/ w \notin waiting /\ UNCHANGED spurious
     \/ w \in waiting /\ spurious < MaxSpurious /\ spurious' = spurious + 1
  /\ waiting' = waiting \ {w}
  /\ UNCHANGED <<shared, mutex, task, owner, outcome, aborted, handedIn>>

\* if (stop && tasks.empty()) return;
\* A bug: if (stop) return;
ExitOnStop(w) ==
  /\ WorkerAt(w, "test", "exited")
  /\ stop
  /\ Release
  /\ UNCHANGED <<shared, waiting, task, owner, outcome, aborted, spurious, handedIn>>

Exit(w) ==
  /\ WorkerAt(w, "test", "exited")
  /\ stop /\ tasks = << >>
  /\ Release
  /\ UNCHANGED <<shared, waiting, task, owner, outcome, aborted, spurious, handedIn>>

\* A bug: the newest task is taken first.
PopBack(w) ==
  /\ WorkerAt(w, "test", "run")
  /\ tasks # << >>
  /\ task' = [task EXCEPT ![w] = tasks[Len(tasks)]]
  /\ tasks' = SubSeq(tasks, 1, Len(tasks) - 1)
  /\ Release
  /\ UNCHANGED <<stop, waiting, owner, outcome, aborted, spurious, handedIn>>

Pop(w) ==
  /\ WorkerAt(w, "test", "run")
  /\ tasks # << >>
  /\ task' = [task EXCEPT ![w] = Head(tasks)]
  /\ tasks' = Tail(tasks)
  /\ Release
  /\ UNCHANGED <<stop, waiting, owner, outcome, aborted, spurious, handedIn>>

\* How task t ends: a packaged task keeps its exception for the future.
Ended(t) == [outcome EXCEPT ![t] = IF t \in Throwing THEN "exception" ELSE "value"]

\* task();  An exception of a plain task leaves the thread: std::terminate().
Run(w) ==
  LET t == task[w]
  IN \/ /\ t \notin Throwing \/ t \in Packaged
        /\ WorkerAt(w, "run", "lock")
        /\ outcome' = Ended(t)
        /\ task' = [task EXCEPT ![w] = Nobody]
        /\ UNCHANGED <<shared, mutex, waiting, owner, aborted, spurious, handedIn>>
     \/ /\ wpc[w] = "run" /\ t \in Throwing \ Packaged
        /\ aborted' = TRUE
        /\ UNCHANGED <<shared, mutex, waiting, worker, owner, outcome, spurious, handedIn>>

WorkerStep(w) ==
  /\ ~aborted
  /\ Acquire(w) \/ Doze(w) \/ Sleep(w) \/ Exit(w) \/ Pop(w) \/ Run(w)
       \/ (Wake(w) /\ w \notin waiting)

SpuriousWake(w) == ~aborted /\ w \in waiting /\ Wake(w)
-----------------------------------------------------------------------------
(* The owner.                                                              *)

\* The constructor starts the threads one by one.
Launch ==
  /\ opc = "construct"
  /\ \/ /\ \E w \in Workers : WorkerAt(w, "unborn", "lock")
        /\ UNCHANGED opc
     \/ /\ \A w \in Workers : wpc[w] # "unborn"
        /\ opc' = "open"
        /\ UNCHANGED wpc
  /\ UNCHANGED <<shared, mutex, waiting, task, arg, outcome, aborted, spurious, handedIn>>

\* run_task() and run_packaged_task() with workers: queue, then notify.
HandIn(t) ==
  /\ OwnerAt("open", "enqueue") /\ ~Inline /\ t \notin Submitted
  /\ arg' = t
  /\ UNCHANGED <<shared, mutex, waiting, worker, outcome, aborted, spurious, handedIn>>

Enqueue ==
  /\ OwnerAt("enqueue", "notify")
  /\ mutex = Nobody
  /\ tasks' = Append(tasks, arg)
  /\ handedIn' = Append(handedIn, arg)
  /\ UNCHANGED <<stop, mutex, waiting, worker, arg, outcome, aborted, spurious>>

NotifyOne ==
  /\ OwnerAt("notify", "open")
  /\ \/ waiting = {} /\ UNCHANGED waiting
     \/ \E w \in waiting : waiting' = waiting \ {w}
  /\ arg' = Nobody
  /\ UNCHANGED <<shared, mutex, worker, outcome, aborted, spurious, handedIn>>

\* ... and without: the owner runs the task.  The exception of a plain task
\* propagates to the caller.
RunInline(t) ==
  /\ opc = "open" /\ Inline /\ t \notin Submitted
  /\ handedIn' = Append(handedIn, t)
  /\ outcome' = Ended(t)
  /\ opc' = IF t \in Throwing \ Packaged THEN "unwind" ELSE "open"
  /\ UNCHANGED <<shared, mutex, waiting, worker, arg, aborted, spurious>>

\* get() of the future of a packaged task rethrows the task's exception.
Await(t) ==
  /\ OwnerAt("open", "await") /\ t \in Submitted \cap Packaged
  /\ arg' = t
  /\ UNCHANGED <<shared, mutex, waiting, worker, outcome, aborted, spurious, handedIn>>

Get ==
  /\ opc = "await" /\ outcome[arg] # "none"
  /\ opc' = IF outcome[arg] = "exception" THEN "unwind" ELSE "open"
  /\ arg' = Nobody
  /\ UNCHANGED <<shared, mutex, waiting, worker, outcome, aborted, spurious, handedIn>>

\* The scope that holds the pool is left ...
Destroy ==
  /\ OwnerAt("open", "stop")
  /\ UNCHANGED <<shared, mutex, waiting, worker, arg, outcome, aborted, spurious, handedIn>>

\* ... also by an exception, unless it is caught before.
Unwind ==
  /\ opc = "unwind" /\ opc' \in {"stop", "open"}
  /\ UNCHANGED <<shared, mutex, waiting, worker, arg, outcome, aborted, spurious, handedIn>>

\* ~Thread_pool(): set stop, notify all, join all threads.
\* A bug: stop is set without the mutex.
SetStopUnlocked ==
  /\ OwnerAt("stop", "notifyAll")
  /\ stop' = TRUE
  /\ UNCHANGED <<tasks, mutex, waiting, worker, arg, outcome, aborted, spurious, handedIn>>

SetStop ==
  /\ OwnerAt("stop", "notifyAll")
  /\ mutex = Nobody
  /\ stop' = TRUE
  /\ UNCHANGED <<tasks, mutex, waiting, worker, arg, outcome, aborted, spurious, handedIn>>

\* A bug: the destructor wakes one worker only.
NotifyOnlyOne ==
  /\ OwnerAt("notifyAll", "join")
  /\ \/ waiting = {} /\ UNCHANGED waiting
     \/ \E w \in waiting : waiting' = waiting \ {w}
  /\ UNCHANGED <<shared, mutex, worker, arg, outcome, aborted, spurious, handedIn>>

NotifyAll ==
  /\ OwnerAt("notifyAll", "join")
  /\ waiting' = {}
  /\ UNCHANGED <<shared, mutex, worker, arg, outcome, aborted, spurious, handedIn>>

Join ==
  /\ OwnerAt("join", "closed")
  /\ \A w \in Workers : wpc[w] \in {"exited", "absent"}
  /\ UNCHANGED <<shared, mutex, waiting, worker, arg, outcome, aborted, spurious, handedIn>>

\* Steps the owner takes once it has begun a call.
OwnerStep == ~aborted /\ (Launch \/ Enqueue \/ NotifyOne \/ Get
                          \/ Unwind \/ SetStop \/ NotifyAll \/ Join)

\* Calls the owner is free to make.
OwnerCall ==
  /\ ~aborted
  /\ \E t \in Tasks : HandIn(t) \/ RunInline(t) \/ Await(t)

OwnerDestroys == ~aborted /\ Destroy
-----------------------------------------------------------------------------
Next ==
  \/ OwnerStep \/ OwnerCall \/ OwnerDestroys
  \/ \E w \in Workers : WorkerStep(w) \/ SpuriousWake(w)

\* The operating system schedules every thread that can take a step; which
\* calls the owner makes is its own choice.
Fairness == WF_vars(OwnerStep) /\ \A w \in Workers : WF_vars(WorkerStep(w))

Spec == Init /\ [][Next]_vars /\ Fairness
-----------------------------------------------------------------------------
(* Properties.                                                             *)

OwnerStates == {"construct", "open", "enqueue", "notify", "await", "unwind",
                "stop", "notifyAll", "join", "closed"}
WorkerStates == {"absent", "unborn", "lock", "test", "doze", "sleep", "run", "exited"}

DataTypes ==
  /\ tasks \in Seq(Tasks) /\ handedIn \in Seq(Tasks)
  /\ stop \in BOOLEAN /\ aborted \in BOOLEAN
  /\ spurious \in 0..MaxSpurious
  /\ arg \in Tasks \cup {Nobody}
  /\ outcome \in [Tasks -> {"none", "value", "exception"}]

ControlTypes ==
  /\ mutex \in Workers \cup {Nobody}
  /\ wpc \in [Workers -> WorkerStates]
  /\ task \in [Workers -> Tasks \cup {Nobody}]
  /\ opc \in OwnerStates
  /\ waiting \subseteq {w \in Workers : wpc[w] = "sleep"}
  /\ \A w \in Workers : /\ mutex = w <=> wpc[w] \in {"test", "doze"}
                        /\ task[w] # Nobody <=> wpc[w] = "run"

\* The variables have their types; the critical sections exclude each other,
\* only sleeping workers are registered with the condition variable, and a
\* worker has a task exactly while it runs one.
TypeOK == DataTypes /\ ControlTypes

Taken == Len(handedIn) - Len(tasks)     \* tasks taken from the queue so far

\* Tasks leave the queue in the order they were handed in, and none is lost
\* or run twice: a task is in the queue, or at one worker, or has ended.
EachTaskOnce ==
  /\ Taken \in Nat
  /\ \A i \in DOMAIN tasks : tasks[i] = handedIn[Taken + i]
  /\ \A i, j \in DOMAIN handedIn : handedIn[i] = handedIn[j] => i = j
  /\ \A i \in DOMAIN handedIn :
       LET running == \E w \in Workers : task[w] = handedIn[i]
           ended == outcome[handedIn[i]] # "none"
       IN IF i > Taken THEN ~running /\ ~ended ELSE running <=> ~ended
  /\ \A v, w \in Workers : task[v] = task[w] /\ task[v] # Nobody => v = w

\* A worker that is asleep once stop is set still has the destructor's
\* notification ahead of it: the wake-up is not lost between its test of the
\* predicate and its sleep.
StopReachesSleepers == stop /\ waiting # {} => opc = "notifyAll"

\* "The destructor of the Thread_pool will wait until all tasks are finished
\* and the queue is empty": a worker leaves only then, and after the
\* destructor every task handed in has ended.
DestructorWaits ==
  /\ \A w \in Workers : wpc[w] = "exited" => stop /\ tasks = << >>
  /\ opc = "closed" => /\ \A w \in Workers : wpc[w] \in {"exited", "absent"}
                      /\ \A t \in Submitted : outcome[t] # "none"

\* The threads, the mutex and the condition variable implement the task pool:
\* tasks start in order and once, every task ends and the destructor returns.
TaskStatus(t) ==
  IF outcome[t] # "none" THEN "finished"
  ELSE IF \E w \in Workers : task[w] = t THEN "running"
  ELSE IF t \in Submitted THEN "queued" ELSE "new"

Phase ==
  IF aborted THEN "aborted"
  ELSE IF opc \in {"stop", "notifyAll", "join"} THEN "closing"
  ELSE IF opc = "closed" THEN "closed" ELSE "open"

Abstract == INSTANCE TaskPool
  WITH status <- [t \in Tasks |-> TaskStatus(t)], line <- tasks, phase <- Phase

ImplementsTaskPool == Abstract!Spec
=============================================================================
