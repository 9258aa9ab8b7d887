------------------------------ MODULE TaskPool ------------------------------
(***************************************************************************)
(* What Thread_pool promises to its user, without threads or locks: every  *)
(* task handed in is executed exactly once, tasks are started in the order *)
(* they were handed in, and the destructor returns when all are finished.  *)
(* A plain task that throws in a worker takes the whole program down.      *)
(***************************************************************************)
EXTENDS Sequences, FiniteSets

CONSTANTS
  Tasks,
  Packaged,   \* tasks run by run_packaged_task(): exceptions go to the future
  Throwing    \* tasks that end with an exception

VARIABLES
  status,     \* "new", "queued", "running" or "finished", per task
  line,       \* the queued tasks, in the order they were handed in
  phase       \* "open", "closing", "closed" or "aborted"

vars == <<status, line, phase>>

Init ==
  /\ status = [t \in Tasks |-> "new"]
  /\ line = << >>
  /\ phase = "open"

Submit(t) ==
  /\ phase = "open" /\ status[t] = "new"
  /\ status' = [status EXCEPT ![t] = "queued"]
  /\ line' = Append(line, t)
  /\ UNCHANGED phase

\* Also while the pool is closing: the destructor waits for the queue.
Start ==
  /\ phase \in {"open", "closing"} /\ line # << >>
  /\ status' = [status EXCEPT ![Head(line)] = "running"]
  /\ line' = Tail(line)
  /\ UNCHANGED phase

Finish(t) ==
  /\ phase \in {"open", "closing"} /\ status[t] = "running"
  /\ t \notin Throwing \/ t \in Packaged
  /\ status' = [status EXCEPT ![t] = "finished"]
  /\ UNCHANGED <<line, phase>>

Abort(t) ==
  /\ phase \in {"open", "closing"} /\ status[t] = "running"
  /\ t \in Throwing \ Packaged
  /\ phase' = "aborted"
  /\ UNCHANGED <<status, line>>

Close ==
  /\ phase = "open"
  /\ phase' = "closing"
  /\ UNCHANGED <<status, line>>

Closed ==
  /\ phase = "closing"
  /\ \A t \in Tasks : status[t] \in {"new", "finished"}
  /\ phase' = "closed"
  /\ UNCHANGED <<status, line>>

\* The caller may run a task itself when no task is ahead of it.
RunAtOnce(t) ==
  /\ phase = "open" /\ status[t] = "new"
  /\ \A u \in Tasks : status[u] \in {"new", "finished"}
  /\ status' = [status EXCEPT ![t] = "finished"]
  /\ UNCHANGED <<line, phase>>

Next ==
  \/ Start \/ Close \/ Closed
  \/ \E t \in Tasks : Submit(t) \/ Finish(t) \/ Abort(t) \/ RunAtOnce(t)

\* Every task handed in ends, and the destructor returns, unless the program
\* is taken down.
TasksEnd ==
  \A t \in Tasks : status[t] = "queued" ~> status[t] = "finished" \/ phase = "aborted"

DestructorReturns == phase = "closing" ~> phase \in {"closed", "aborted"}

\* Its safety part, and all of it.
SafeSpec == Init /\ [][Next]_vars
Spec == SafeSpec /\ TasksEnd /\ DestructorReturns
=============================================================================
