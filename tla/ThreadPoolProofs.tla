-------------------------- MODULE ThreadPoolProofs --------------------------
(***************************************************************************)
(* Safety of Thread_pool for any number of workers and tasks.  PoolInv is  *)
(* inductive: the types, the bookkeeping of the queue, and what the        *)
(* control of the owner and of a worker inside its critical section says   *)
(* about the stop flag and the queue.                                      *)
(***************************************************************************)
EXTENDS ThreadPool, TLAPS, SequenceTheorems

\* What the owner's place in its calls says: a task on its way into the queue
\* is new, and stop is set exactly from the destructor's notification on.
OwnerControl ==
  /\ opc \in {"enqueue", "await"} => arg \in Tasks
  /\ opc = "enqueue" => arg \notin Submitted
  /\ stop <=> opc \in {"notifyAll", "join", "closed"}

\* A worker between its test of the predicate and its sleep holds the mutex,
\* so that the predicate stays false.
DozingIsIdle == \A w \in Workers : wpc[w] = "doze" => ~stop /\ tasks = << >>

\* Nothing happens to a task before it is handed in.
NewUntouched ==
  \A t \in Tasks : t \notin Submitted =>
    outcome[t] = "none" /\ \A w \in Workers : task[w] # t

\* Without threads nothing is queued.
InlineIdle == Inline => tasks = << >> /\ opc # "enqueue"

PoolInv ==
  /\ TypeOK /\ OwnerControl /\ DozingIsIdle /\ NewUntouched /\ InlineIdle
  /\ EachTaskOnce /\ StopReachesSleepers /\ DestructorWaits
-----------------------------------------------------------------------------
LEMMA InitPool ==
  ASSUME Init
  PROVE  PoolInv
<1>1. tasks = << >> /\ handedIn = << >> /\ stop = FALSE /\ waiting = {} /\ opc = "construct"
  BY DEF Init
<1>2. \A w \in Workers : wpc[w] \in {"unborn", "absent"} /\ task[w] = Nobody
  BY DEF Init
<1>3. Submitted = {} /\ Taken = 0
  BY <1>1 DEF Submitted, Taken
<1>4. DataTypes
  <2>1. tasks \in Seq(Tasks) /\ handedIn \in Seq(Tasks)
    BY <1>1
  <2>2. spurious \in 0..MaxSpurious
    BY PoolAssumption DEF Init
  <2>3. stop \in BOOLEAN /\ aborted \in BOOLEAN
    BY DEF Init
  <2>4. arg \in Tasks \cup {Nobody} /\ outcome \in [Tasks -> {"none", "value", "exception"}]
    BY DEF Init
  <2> QED
    BY <2>1, <2>2, <2>3, <2>4 DEF DataTypes
<1>5. ControlTypes
  BY PoolAssumption DEF Init, ControlTypes, OwnerStates, WorkerStates
<1>6. OwnerControl /\ DozingIsIdle /\ StopReachesSleepers /\ DestructorWaits
  BY <1>1, <1>2 DEF OwnerControl, DozingIsIdle, StopReachesSleepers, DestructorWaits
<1>7. NewUntouched /\ InlineIdle
  BY <1>1, <1>2, PoolAssumption DEF Init, NewUntouched, InlineIdle
<1>8. EachTaskOnce
  BY <1>1, <1>2, <1>3 DEF EachTaskOnce
<1> QED
  BY <1>4, <1>5, <1>6, <1>7, <1>8 DEF PoolInv, TypeOK

\* The actions of Next, and the stuttering step.
LEMMA Steps ==
  ASSUME [Next]_vars
  PROVE  \/ Launch \/ Enqueue \/ NotifyOne \/ Get \/ Unwind
         \/ SetStop \/ NotifyAll \/ Join \/ Destroy
         \/ \E t \in Tasks : HandIn(t) \/ RunInline(t) \/ Await(t)
         \/ \E w \in Workers : \/ Acquire(w) \/ Doze(w) \/ Sleep(w) \/ Wake(w)
                               \/ Exit(w) \/ Pop(w) \/ Run(w)
         \/ UNCHANGED vars
BY DEF Next, OwnerStep, OwnerCall, OwnerDestroys, WorkerStep, SpuriousWake

-----------------------------------------------------------------------------
(* Types.                                                                  *)

LEMMA TypeStep ==
  ASSUME TypeOK, OwnerControl, [Next]_vars
  PROVE  TypeOK'
<1> USE PoolAssumption
       DEF TypeOK, DataTypes, ControlTypes, OwnerStates, WorkerStates,
           WorkerAt, OwnerAt, shared, worker, owner
<1>1. CASE Launch
  BY <1>1 DEF Launch
<1>2. CASE Enqueue
  BY <1>2 DEF Enqueue, OwnerControl
<1>3. CASE NotifyOne
  BY <1>3 DEF NotifyOne
<1>4. CASE Get
  BY <1>4 DEF Get
<1>5. CASE Unwind
  BY <1>5 DEF Unwind
<1>6. CASE SetStop
  BY <1>6 DEF SetStop
<1>7. CASE NotifyAll
  BY <1>7 DEF NotifyAll
<1>8. CASE Join
  BY <1>8 DEF Join
<1>9. CASE Destroy
  BY <1>9 DEF Destroy
<1>10. ASSUME NEW t \in Tasks, HandIn(t) PROVE TypeOK'
  BY <1>10 DEF HandIn
<1>11. ASSUME NEW t \in Tasks, RunInline(t) PROVE TypeOK'
  BY <1>11 DEF RunInline, Ended
<1>12. ASSUME NEW t \in Tasks, Await(t) PROVE TypeOK'
  BY <1>12 DEF Await
<1>13. ASSUME NEW w \in Workers, Acquire(w) PROVE TypeOK'
  BY <1>13 DEF Acquire, Take
<1>14. ASSUME NEW w \in Workers, Doze(w) PROVE TypeOK'
  BY <1>14 DEF Doze
<1>15. ASSUME NEW w \in Workers, Sleep(w) PROVE TypeOK'
  BY <1>15 DEF Sleep, Release
<1>16. ASSUME NEW w \in Workers, Wake(w) PROVE TypeOK'
  BY <1>16 DEF Wake
<1>17. ASSUME NEW w \in Workers, Exit(w) PROVE TypeOK'
  BY <1>17 DEF Exit, Release
<1>18. ASSUME NEW w \in Workers, Pop(w) PROVE TypeOK'
  <2>1. tasks \in Seq(Tasks) /\ tasks # << >> /\ tasks' = Tail(tasks)
    BY <1>18 DEF Pop
  <2>2. Head(tasks) \in Tasks /\ tasks' \in Seq(Tasks)
    BY <2>1, HeadTailProperties
  <2>3. wpc[w] = "test" /\ wpc' = [wpc EXCEPT ![w] = "run"] /\ mutex' = Nobody
        /\ task' = [task EXCEPT ![w] = Head(tasks)]
        /\ UNCHANGED <<stop, waiting, opc, arg, outcome, aborted, spurious, handedIn>>
    BY <1>18 DEF Pop, WorkerAt, Release, owner
  <2>4. DataTypes'
    BY <2>2, <2>3
  <2>5. ControlTypes'
    BY <2>2, <2>3
  <2> QED
    BY <2>4, <2>5
<1>19. ASSUME NEW w \in Workers, Run(w) PROVE TypeOK'
  <2>1. UNCHANGED <<tasks, stop, mutex, waiting, opc, arg, spurious, handedIn>>
    BY <1>19 DEF Run, shared, owner
  <2>2. CASE aborted' = TRUE /\ UNCHANGED <<wpc, task, outcome>>
    BY <2>1, <2>2
  <2>3. CASE /\ wpc[w] = "run" /\ wpc' = [wpc EXCEPT ![w] = "lock"]
             /\ outcome' = Ended(task[w]) /\ task' = [task EXCEPT ![w] = Nobody]
             /\ UNCHANGED aborted
    <3>1. outcome' \in [Tasks -> {"none", "value", "exception"}]
      BY <2>3 DEF Ended
    <3>2. DataTypes'
      BY <2>1, <2>3, <3>1
    <3>3. ControlTypes'
      BY <2>1, <2>3
    <3> QED
      BY <3>2, <3>3
  <2> QED
    BY <1>19, <2>2, <2>3 DEF Run, WorkerAt, worker
<1>20. CASE UNCHANGED vars
  BY <1>20 DEF vars
<1> QED
  BY Steps, <1>1, <1>2, <1>3, <1>4, <1>5, <1>6, <1>7, <1>8, <1>9, <1>10,
     <1>11, <1>12, <1>13, <1>14, <1>15, <1>16, <1>17, <1>18, <1>19, <1>20

LEMMA OwnerControlStep ==
  ASSUME PoolInv, [Next]_vars
  PROVE  OwnerControl'
<1> USE
       DEF PoolInv, OwnerControl, TypeOK, ControlTypes, DataTypes, Submitted, OwnerStates,
           WorkerAt, OwnerAt, shared, worker, owner
<1>1. CASE Launch
  BY <1>1 DEF Launch
<1>2. CASE Enqueue
  BY <1>2 DEF Enqueue
<1>3. CASE NotifyOne
  BY <1>3 DEF NotifyOne
<1>4. CASE Get
  BY <1>4 DEF Get
<1>5. CASE Unwind
  BY <1>5 DEF Unwind
<1>6. CASE SetStop
  BY <1>6 DEF SetStop
<1>7. CASE NotifyAll
  BY <1>7 DEF NotifyAll
<1>8. CASE Join
  BY <1>8 DEF Join
<1>9. CASE Destroy
  BY <1>9 DEF Destroy
<1>10. ASSUME NEW t \in Tasks, HandIn(t) PROVE OwnerControl'
  BY <1>10 DEF HandIn
<1>11. ASSUME NEW t \in Tasks, RunInline(t) PROVE OwnerControl'
  BY <1>11 DEF RunInline, Ended, InlineIdle
<1>12. ASSUME NEW t \in Tasks, Await(t) PROVE OwnerControl'
  BY <1>12 DEF Await
<1>13. ASSUME NEW w \in Workers, Acquire(w) PROVE OwnerControl'
  BY <1>13 DEF Acquire, Take
<1>14. ASSUME NEW w \in Workers, Doze(w) PROVE OwnerControl'
  BY <1>14 DEF Doze
<1>15. ASSUME NEW w \in Workers, Sleep(w) PROVE OwnerControl'
  BY <1>15 DEF Sleep, Release
<1>16. ASSUME NEW w \in Workers, Wake(w) PROVE OwnerControl'
  BY <1>16 DEF Wake
<1>17. ASSUME NEW w \in Workers, Exit(w) PROVE OwnerControl'
  BY <1>17 DEF Exit, Release
<1>18. ASSUME NEW w \in Workers, Pop(w) PROVE OwnerControl'
  BY <1>18 DEF Pop, Release
<1>19. ASSUME NEW w \in Workers, Run(w) PROVE OwnerControl'
  BY <1>19 DEF Run, Ended
<1>20. CASE UNCHANGED vars
  BY <1>20 DEF vars
<1> QED
  BY Steps, <1>1, <1>2, <1>3, <1>4, <1>5, <1>6, <1>7, <1>8, <1>9, <1>10,
     <1>11, <1>12, <1>13, <1>14, <1>15, <1>16, <1>17, <1>18, <1>19, <1>20

LEMMA DozingStep ==
  ASSUME PoolInv, [Next]_vars
  PROVE  DozingIsIdle'
<1> USE PoolAssumption
       DEF PoolInv, DozingIsIdle, TypeOK, ControlTypes, WorkerStates,
           WorkerAt, OwnerAt, shared, worker, owner
<1>1. CASE Launch
  BY <1>1 DEF Launch
<1>2. CASE Enqueue
  BY <1>2 DEF Enqueue
<1>3. CASE NotifyOne
  BY <1>3 DEF NotifyOne
<1>4. CASE Get
  BY <1>4 DEF Get
<1>5. CASE Unwind
  BY <1>5 DEF Unwind
<1>6. CASE SetStop
  BY <1>6 DEF SetStop
<1>7. CASE NotifyAll
  BY <1>7 DEF NotifyAll
<1>8. CASE Join
  BY <1>8 DEF Join
<1>9. CASE Destroy
  BY <1>9 DEF Destroy
<1>10. ASSUME NEW t \in Tasks, HandIn(t) PROVE DozingIsIdle'
  BY <1>10 DEF HandIn
<1>11. ASSUME NEW t \in Tasks, RunInline(t) PROVE DozingIsIdle'
  BY <1>11 DEF RunInline, Ended, InlineIdle
<1>12. ASSUME NEW t \in Tasks, Await(t) PROVE DozingIsIdle'
  BY <1>12 DEF Await
<1>13. ASSUME NEW w \in Workers, Acquire(w) PROVE DozingIsIdle'
  BY <1>13 DEF Acquire, Take
<1>14. ASSUME NEW w \in Workers, Doze(w) PROVE DozingIsIdle'
  BY <1>14 DEF Doze
<1>15. ASSUME NEW w \in Workers, Sleep(w) PROVE DozingIsIdle'
  BY <1>15 DEF Sleep, Release
<1>16. ASSUME NEW w \in Workers, Wake(w) PROVE DozingIsIdle'
  BY <1>16 DEF Wake
<1>17. ASSUME NEW w \in Workers, Exit(w) PROVE DozingIsIdle'
  BY <1>17 DEF Exit, Release
<1>18. ASSUME NEW w \in Workers, Pop(w) PROVE DozingIsIdle'
  BY <1>18 DEF Pop, Release
<1>19. ASSUME NEW w \in Workers, Run(w) PROVE DozingIsIdle'
  BY <1>19 DEF Run, Ended
<1>20. CASE UNCHANGED vars
  BY <1>20 DEF vars
<1> QED
  BY Steps, <1>1, <1>2, <1>3, <1>4, <1>5, <1>6, <1>7, <1>8, <1>9, <1>10,
     <1>11, <1>12, <1>13, <1>14, <1>15, <1>16, <1>17, <1>18, <1>19, <1>20

LEMMA SleepersStep ==
  ASSUME PoolInv, [Next]_vars
  PROVE  StopReachesSleepers'
<1> USE PoolAssumption
       DEF PoolInv, StopReachesSleepers, DozingIsIdle, OwnerControl, TypeOK, ControlTypes,
           WorkerAt, OwnerAt, shared, worker, owner
<1>1. CASE Launch
  BY <1>1 DEF Launch
<1>2. CASE Enqueue
  BY <1>2 DEF Enqueue
<1>3. CASE NotifyOne
  BY <1>3 DEF NotifyOne
<1>4. CASE Get
  BY <1>4 DEF Get
<1>5. CASE Unwind
  BY <1>5 DEF Unwind
<1>6. CASE SetStop
  BY <1>6 DEF SetStop
<1>7. CASE NotifyAll
  BY <1>7 DEF NotifyAll
<1>8. CASE Join
  BY <1>8 DEF Join
<1>9. CASE Destroy
  BY <1>9 DEF Destroy
<1>10. ASSUME NEW t \in Tasks, HandIn(t) PROVE StopReachesSleepers'
  BY <1>10 DEF HandIn
<1>11. ASSUME NEW t \in Tasks, RunInline(t) PROVE StopReachesSleepers'
  BY <1>11 DEF RunInline, Ended, InlineIdle
<1>12. ASSUME NEW t \in Tasks, Await(t) PROVE StopReachesSleepers'
  BY <1>12 DEF Await
<1>13. ASSUME NEW w \in Workers, Acquire(w) PROVE StopReachesSleepers'
  BY <1>13 DEF Acquire, Take
<1>14. ASSUME NEW w \in Workers, Doze(w) PROVE StopReachesSleepers'
  BY <1>14 DEF Doze
<1>15. ASSUME NEW w \in Workers, Sleep(w) PROVE StopReachesSleepers'
  BY <1>15 DEF Sleep, Release
<1>16. ASSUME NEW w \in Workers, Wake(w) PROVE StopReachesSleepers'
  BY <1>16 DEF Wake
<1>17. ASSUME NEW w \in Workers, Exit(w) PROVE StopReachesSleepers'
  BY <1>17 DEF Exit, Release
<1>18. ASSUME NEW w \in Workers, Pop(w) PROVE StopReachesSleepers'
  BY <1>18 DEF Pop, Release
<1>19. ASSUME NEW w \in Workers, Run(w) PROVE StopReachesSleepers'
  BY <1>19 DEF Run, Ended
<1>20. CASE UNCHANGED vars
  BY <1>20 DEF vars
<1> QED
  BY Steps, <1>1, <1>2, <1>3, <1>4, <1>5, <1>6, <1>7, <1>8, <1>9, <1>10,
     <1>11, <1>12, <1>13, <1>14, <1>15, <1>16, <1>17, <1>18, <1>19, <1>20

LEMMA HandingIn ==
  ASSUME handedIn \in Seq(Tasks), NEW t \in Tasks, handedIn' = Append(handedIn, t)
  PROVE  Submitted' = Submitted \cup {t}
<1>1. Len(handedIn') = Len(handedIn) + 1 /\ handedIn' \in Seq(Tasks)
  OBVIOUS
<1>2. \A i \in 1..Len(handedIn) : handedIn'[i] = handedIn[i]
  OBVIOUS
<1>3. handedIn'[Len(handedIn) + 1] = t
  OBVIOUS
<1>4. DOMAIN handedIn = 1..Len(handedIn) /\ DOMAIN handedIn' = 1..Len(handedIn)+1
  BY <1>1
<1>5. Len(handedIn) \in Nat
  OBVIOUS
<1>6. ASSUME NEW x \in Submitted' PROVE x \in Submitted \cup {t}
  <2>1. PICK i \in 1..Len(handedIn)+1 : x = handedIn'[i]
    BY <1>4, <1>6 DEF Submitted
  <2>2. CASE i = Len(handedIn) + 1
    BY <2>1, <2>2, <1>3
  <2>3. CASE i \in 1..Len(handedIn)
    BY <2>1, <2>3, <1>2, <1>4 DEF Submitted
  <2> QED
    BY <2>1, <2>2, <2>3, <1>5
<1>7. ASSUME NEW x \in Submitted PROVE x \in Submitted'
  <2>1. PICK i \in 1..Len(handedIn) : x = handedIn[i]
    BY <1>4, <1>7 DEF Submitted
  <2>2. x = handedIn'[i] /\ i \in 1..Len(handedIn)+1
    BY <2>1, <1>2, <1>5
  <2> QED
    BY <2>2, <1>4 DEF Submitted
<1>8. t \in Submitted'
  BY <1>3, <1>4, <1>5 DEF Submitted
<1> QED
  BY <1>6, <1>7, <1>8

LEMMA HeadSubmitted ==
  ASSUME PoolInv, tasks # << >>
  PROVE  /\ Head(tasks) = handedIn[Taken + 1] /\ Taken + 1 \in DOMAIN handedIn
         /\ Head(tasks) \in Submitted
<1>1. tasks \in Seq(Tasks) /\ handedIn \in Seq(Tasks) /\ Taken \in Nat
  BY DEF PoolInv, TypeOK, DataTypes, EachTaskOnce
<1>2. Len(tasks) \in Nat \ {0} /\ Len(handedIn) \in Nat
  BY <1>1
<1>3. 1 \in DOMAIN tasks /\ Taken + 1 \in DOMAIN handedIn
  BY <1>1, <1>2 DEF Taken
<1>4. Head(tasks) = tasks[1] /\ tasks[1] = handedIn[Taken + 1]
  BY <1>1, <1>3 DEF PoolInv, EachTaskOnce
<1> QED
  BY <1>3, <1>4 DEF Submitted

LEMMA NewStep ==
  ASSUME PoolInv, [Next]_vars
  PROVE  NewUntouched'
<1> USE PoolAssumption
       DEF PoolInv, NewUntouched, OwnerControl, TypeOK, ControlTypes, DataTypes,
           WorkerAt, OwnerAt, shared, worker, owner
<1>1. CASE Launch
  BY <1>1 DEF Launch, Submitted
<1>2. CASE Enqueue
  <2>1. arg \in Tasks /\ handedIn' = Append(handedIn, arg)
        /\ UNCHANGED <<outcome, task>>
    BY <1>2 DEF Enqueue, OwnerAt, worker
  <2>2. Submitted' = Submitted \cup {arg}
    BY <2>1, HandingIn
  <2> QED
    BY <2>1, <2>2
<1>3. CASE NotifyOne
  BY <1>3 DEF NotifyOne, Submitted
<1>4. CASE Get
  BY <1>4 DEF Get, Submitted
<1>5. CASE Unwind
  BY <1>5 DEF Unwind, Submitted
<1>6. CASE SetStop
  BY <1>6 DEF SetStop, Submitted
<1>7. CASE NotifyAll
  BY <1>7 DEF NotifyAll, Submitted
<1>8. CASE Join
  BY <1>8 DEF Join, Submitted
<1>9. CASE Destroy
  BY <1>9 DEF Destroy, Submitted
<1>10. ASSUME NEW t \in Tasks, HandIn(t) PROVE NewUntouched'
  BY <1>10 DEF HandIn, Submitted
<1>11. ASSUME NEW t \in Tasks, RunInline(t) PROVE NewUntouched'
  <2>1. handedIn' = Append(handedIn, t) /\ outcome' = Ended(t) /\ UNCHANGED <<task, tasks>>
    BY <1>11 DEF RunInline, worker, shared
  <2>2. Submitted' = Submitted \cup {t}
    BY <2>1, HandingIn
  <2> QED
    BY <2>1, <2>2 DEF Ended
<1>12. ASSUME NEW t \in Tasks, Await(t) PROVE NewUntouched'
  BY <1>12 DEF Await, Submitted
<1>13. ASSUME NEW w \in Workers, Acquire(w) PROVE NewUntouched'
  BY <1>13 DEF Acquire, Take, Submitted
<1>14. ASSUME NEW w \in Workers, Doze(w) PROVE NewUntouched'
  BY <1>14 DEF Doze, Submitted
<1>15. ASSUME NEW w \in Workers, Sleep(w) PROVE NewUntouched'
  BY <1>15 DEF Sleep, Release, Submitted
<1>16. ASSUME NEW w \in Workers, Wake(w) PROVE NewUntouched'
  BY <1>16 DEF Wake, Submitted
<1>17. ASSUME NEW w \in Workers, Exit(w) PROVE NewUntouched'
  BY <1>17 DEF Exit, Release, Submitted
<1>18. ASSUME NEW w \in Workers, Pop(w) PROVE NewUntouched'
  <2>1. tasks # << >> /\ tasks' = Tail(tasks) /\ task' = [task EXCEPT ![w] = Head(tasks)]
        /\ UNCHANGED <<outcome, handedIn>>
    BY <1>18 DEF Pop
  <2>2. Head(tasks) \in Submitted
    BY <2>1, HeadSubmitted
  <2>3. Submitted' = Submitted
    BY <2>1 DEF Submitted
  <2> QED
    BY <2>1, <2>2, <2>3
<1>19. ASSUME NEW w \in Workers, Run(w) PROVE NewUntouched'
  BY <1>19 DEF Run, Ended, Submitted
<1>20. CASE UNCHANGED vars
  BY <1>20 DEF vars, Submitted
<1> QED
  BY Steps, <1>1, <1>2, <1>3, <1>4, <1>5, <1>6, <1>7, <1>8, <1>9, <1>10,
     <1>11, <1>12, <1>13, <1>14, <1>15, <1>16, <1>17, <1>18, <1>19, <1>20

-----------------------------------------------------------------------------
(* Each task once: the queue is what is left of handedIn, and the tasks    *)
(* taken from it are running or have ended.                                *)

LEMMA OnceUnchanged ==
  ASSUME PoolInv, UNCHANGED <<tasks, handedIn, task, outcome>>
  PROVE  EachTaskOnce'
BY DEF PoolInv, EachTaskOnce, Taken

\* A new task is queued behind the others.
LEMMA OnceQueued ==
  ASSUME PoolInv, NEW t \in Tasks, t \notin Submitted, UNCHANGED <<task, outcome>>,
         handedIn' = Append(handedIn, t), tasks' = Append(tasks, t)
  PROVE  EachTaskOnce'
<1>1. tasks \in Seq(Tasks) /\ handedIn \in Seq(Tasks) /\ Taken \in Nat
  BY DEF PoolInv, TypeOK, DataTypes, EachTaskOnce
<1>2. Len(tasks) \in Nat /\ Len(handedIn) \in Nat
  BY <1>1
<1>3. Taken' = Taken
  BY <1>1, <1>2 DEF Taken
<1>4. /\ DOMAIN tasks = 1..Len(tasks) /\ DOMAIN tasks' = 1..Len(tasks) + 1
      /\ DOMAIN handedIn = 1..Len(handedIn) /\ DOMAIN handedIn' = 1..Len(handedIn) + 1
  BY <1>1
<1>5. /\ \A i \in 1..Len(tasks) : tasks'[i] = tasks[i]
      /\ \A i \in 1..Len(handedIn) : handedIn'[i] = handedIn[i]
      /\ tasks'[Len(tasks) + 1] = t /\ handedIn'[Len(handedIn) + 1] = t
  BY <1>1
<1>6. \A i \in DOMAIN tasks' : tasks'[i] = handedIn'[Taken + i]
  <2> SUFFICES ASSUME NEW i \in 1..Len(tasks) + 1
               PROVE  tasks'[i] = handedIn'[Taken + i]
    BY <1>4
  <2>1. CASE i = Len(tasks) + 1
    <3>1. Taken + i = Len(handedIn) + 1
      BY <2>1, <1>2 DEF Taken
    <3> QED
      BY <2>1, <3>1, <1>5
  <2>2. CASE i \in 1..Len(tasks)
    <3>1. Taken + i \in 1..Len(handedIn)
      BY <2>2, <1>1, <1>2 DEF Taken
    <3> QED
      BY <2>2, <3>1, <1>4, <1>5 DEF PoolInv, EachTaskOnce
  <2>3. i \in 1..Len(tasks) \/ i = Len(tasks) + 1
    BY <1>2
  <2> QED
    BY <2>1, <2>2, <2>3
<1>7. \A i \in 1..Len(handedIn) : handedIn[i] # t
  BY <1>4 DEF Submitted
<1>8. \A i, j \in DOMAIN handedIn' : handedIn'[i] = handedIn'[j] => i = j
  <2>1. \A i \in 1..Len(handedIn) + 1 : i \in 1..Len(handedIn) \/ i = Len(handedIn) + 1
    BY <1>2
  <2>2. \A i, j \in 1..Len(handedIn) : handedIn[i] = handedIn[j] => i = j
    BY <1>4 DEF PoolInv, EachTaskOnce
  <2> QED
    BY <2>1, <2>2, <1>4, <1>5, <1>7
<1>9. ASSUME NEW i \in DOMAIN handedIn'
      PROVE  LET running == \E w \in Workers : task[w] = handedIn'[i]
                 ended == outcome[handedIn'[i]] # "none"
             IN IF i > Taken THEN ~running /\ ~ended ELSE running <=> ~ended
  <2>1. CASE i = Len(handedIn) + 1
    <3>1. i > Taken
      BY <2>1, <1>1, <1>2 DEF Taken
    <3>2. outcome[t] = "none" /\ \A w \in Workers : task[w] # t
      BY DEF PoolInv, NewUntouched
    <3> QED
      BY <2>1, <3>1, <3>2, <1>5
  <2>2. CASE i \in 1..Len(handedIn)
    BY <2>2, <1>4, <1>5 DEF PoolInv, EachTaskOnce
  <2> QED
    BY <1>9, <2>1, <2>2, <1>2, <1>4
<1>10. \A v, w \in Workers : task[v] = task[w] /\ task[v] # Nobody => v = w
  BY DEF PoolInv, EachTaskOnce
<1> QED
  BY <1>1, <1>3, <1>6, <1>8, <1>9, <1>10 DEF EachTaskOnce

\* The head of the queue moves to a worker.
LEMMA OnceTaken ==
  ASSUME PoolInv, NEW w \in Workers, Pop(w)
  PROVE  EachTaskOnce'
<1>1. /\ wpc[w] = "test" /\ tasks # << >> /\ tasks' = Tail(tasks)
      /\ task' = [task EXCEPT ![w] = Head(tasks)]
      /\ UNCHANGED <<outcome, handedIn>>
  BY DEF Pop, WorkerAt
<1>2. /\ tasks \in Seq(Tasks) /\ handedIn \in Seq(Tasks) /\ Taken \in Nat
      /\ task \in [Workers -> Tasks \cup {Nobody}] /\ task[w] = Nobody
  BY <1>1 DEF PoolInv, TypeOK, DataTypes, ControlTypes, EachTaskOnce
<1>3. Len(tasks) \in Nat \ {0} /\ Len(tasks') = Len(tasks) - 1 /\ Len(handedIn) \in Nat
  BY <1>1, <1>2
<1>4. Taken' = Taken + 1
  BY <1>1, <1>3 DEF Taken
<1>5. /\ Head(tasks) = handedIn[Taken + 1] /\ Taken + 1 \in DOMAIN handedIn
  BY <1>1, HeadSubmitted
<1>6. \A i \in DOMAIN tasks' : tasks'[i] = handedIn'[Taken' + i]
  <2> SUFFICES ASSUME NEW i \in 1..Len(tasks) - 1
               PROVE  tasks'[i] = handedIn[Taken + 1 + i]
    BY <1>1, <1>2, <1>3, <1>4
  <2>1. i + 1 \in DOMAIN tasks /\ tasks'[i] = tasks[i + 1]
    BY <1>1, <1>2, <1>3
  <2>2. tasks[i + 1] = handedIn[Taken + (i + 1)]
    BY <2>1 DEF PoolInv, EachTaskOnce
  <2>3. Taken + (i + 1) = Taken + 1 + i
    BY <1>2
  <2> QED
    BY <2>1, <2>2, <2>3
<1>7. \A i, j \in DOMAIN handedIn : handedIn[i] = handedIn[j] => i = j
  BY DEF PoolInv, EachTaskOnce
<1>8. \A v \in Workers : task[v] # Head(tasks)
  <2>1. ~(Taken + 1 <= Taken)
    BY <1>2
  <2> QED
    BY <1>2, <1>5, <2>1 DEF PoolInv, EachTaskOnce
<1>9. ASSUME NEW i \in DOMAIN handedIn'
      PROVE  LET running == \E v \in Workers : task'[v] = handedIn'[i]
                 ended == outcome'[handedIn'[i]] # "none"
             IN IF i > Taken' THEN ~running /\ ~ended ELSE running <=> ~ended
  <2> DEFINE running(tk) == \E v \in Workers : tk[v] = handedIn[i]
             ended == outcome[handedIn[i]] # "none"
  <2>1. i \in DOMAIN handedIn /\ i \in Nat
    BY <1>1, <1>2
  <2>2. IF i > Taken THEN ~running(task) /\ ~ended ELSE running(task) <=> ~ended
    BY <2>1 DEF PoolInv, EachTaskOnce
  <2>3. CASE i = Taken + 1
    <3>1. ~ended
      BY <2>2, <2>3, <1>2
    <3>2. running(task')
      BY <1>1, <1>2, <1>5, <2>3
    <3>3. ~(i > Taken')
      BY <2>3, <1>4, <1>2
    <3> QED
      BY <3>1, <3>2, <3>3, <1>1
  <2>4. CASE i # Taken + 1
    <3>1. handedIn[i] # Head(tasks)
      BY <1>5, <1>7, <2>1, <2>4
    <3>2. handedIn[i] # Nobody
      BY <2>1, <1>2, PoolAssumption
    <3>3. running(task') <=> running(task)
      BY <3>1, <3>2, <1>1, <1>2
    <3>4. i > Taken' <=> i > Taken
      BY <2>1, <2>4, <1>2, <1>4
    <3> QED
      BY <3>3, <3>4, <2>2, <1>1
  <2> QED
    BY <2>3, <2>4
<1>10. \A u, v \in Workers : task'[u] = task'[v] /\ task'[u] # Nobody => u = v
  <2>1. \A u, v \in Workers : task[u] = task[v] /\ task[u] # Nobody => u = v
    BY DEF PoolInv, EachTaskOnce
  <2> QED
    BY <2>1, <1>1, <1>2, <1>8
<1>11. Taken' \in Nat
  BY <1>2, <1>4
<1> QED
  BY <1>1, <1>6, <1>7, <1>9, <1>10, <1>11 DEF EachTaskOnce

\* A running task ends.
LEMMA OnceEnded ==
  ASSUME PoolInv, NEW w \in Workers, Run(w)
  PROVE  EachTaskOnce'
<1>1. UNCHANGED <<tasks, handedIn>> /\ wpc[w] = "run"
  BY DEF Run, shared, WorkerAt
<1>2. CASE UNCHANGED <<task, outcome>>
  BY <1>1, <1>2, OnceUnchanged
<1>3. CASE task' = [task EXCEPT ![w] = Nobody] /\ outcome' = Ended(task[w])
  <2>1. /\ tasks \in Seq(Tasks) /\ handedIn \in Seq(Tasks)
        /\ task \in [Workers -> Tasks \cup {Nobody}] /\ task[w] \in Tasks
        /\ outcome \in [Tasks -> {"none", "value", "exception"}]
    BY <1>1 DEF PoolInv, TypeOK, DataTypes, ControlTypes
  <2>2. /\ outcome'[task[w]] # "none"
        /\ \A t \in Tasks : t # task[w] => outcome'[t] = outcome[t]
    BY <1>3, <2>1 DEF Ended
  <2>3. \A u, v \in Workers : task[u] = task[v] /\ task[u] # Nobody => u = v
    BY DEF PoolInv, EachTaskOnce
  <2>4. ASSUME NEW i \in DOMAIN handedIn
        PROVE  LET running == \E v \in Workers : task'[v] = handedIn[i]
                   ended == outcome'[handedIn[i]] # "none"
               IN IF i > Taken THEN ~running /\ ~ended ELSE running <=> ~ended
    <3> DEFINE running(tk) == \E v \in Workers : tk[v] = handedIn[i]
               ended(oc) == oc[handedIn[i]] # "none"
    <3>1. IF i > Taken THEN ~running(task) /\ ~ended(outcome)
                       ELSE running(task) <=> ~ended(outcome)
      BY DEF PoolInv, EachTaskOnce
    <3>2. handedIn[i] \in Tasks /\ handedIn[i] # Nobody /\ task[w] # Nobody
      BY <2>1, PoolAssumption
    <3>3. CASE handedIn[i] = task[w]
      <4>1. ~(i > Taken)
        BY <3>1, <3>3
      <4>2. ~running(task')
        BY <3>2, <3>3, <1>3, <2>1, <2>3
      <4>3. ended(outcome')
        BY <3>3, <2>2
      <4> QED
        BY <4>1, <4>2, <4>3
    <3>4. CASE handedIn[i] # task[w]
      <4>1. running(task') <=> running(task)
        BY <3>2, <3>4, <1>3, <2>1
      <4>2. ended(outcome') <=> ended(outcome)
        BY <3>2, <3>4, <2>2
      <4> QED
        BY <3>1, <4>1, <4>2
    <3> QED
      BY <3>3, <3>4
  <2>5. \A u, v \in Workers : task'[u] = task'[v] /\ task'[u] # Nobody => u = v
    BY <1>3, <2>1, <2>3
  <2> QED
    BY <1>1, <2>4, <2>5 DEF PoolInv, EachTaskOnce, Taken
<1> QED
  BY <1>2, <1>3 DEF Run, worker

\* Without workers, a task is handed in and ends in one step.
LEMMA OnceRun ==
  ASSUME PoolInv, NEW t \in Tasks, t \notin Submitted, Inline, UNCHANGED <<tasks, task>>,
         handedIn' = Append(handedIn, t), outcome' = Ended(t)
  PROVE  EachTaskOnce'
<1>1. /\ tasks = << >> /\ handedIn \in Seq(Tasks) /\ \A w \in Workers : task[w] = Nobody
      /\ outcome \in [Tasks -> {"none", "value", "exception"}]
  BY DEF PoolInv, TypeOK, DataTypes, ControlTypes, InlineIdle, Inline
<1>2. Len(handedIn) \in Nat /\ Taken = Len(handedIn) /\ Taken' = Len(handedIn) + 1
  BY <1>1 DEF Taken
<1>3. DOMAIN handedIn = 1..Len(handedIn) /\ DOMAIN handedIn' = 1..Len(handedIn) + 1
  BY <1>1
<1>4. /\ \A i \in 1..Len(handedIn) : handedIn'[i] = handedIn[i]
      /\ handedIn'[Len(handedIn) + 1] = t
  BY <1>1
<1>5. \A i \in 1..Len(handedIn) : handedIn[i] # t /\ handedIn[i] \in Tasks
  BY <1>1, <1>3 DEF Submitted
<1>6. \A i \in 1..Len(handedIn) + 1 : i \in 1..Len(handedIn) \/ i = Len(handedIn) + 1
  BY <1>2
<1>7. \A i, j \in DOMAIN handedIn' : handedIn'[i] = handedIn'[j] => i = j
  <2>1. \A i, j \in 1..Len(handedIn) : handedIn[i] = handedIn[j] => i = j
    BY <1>3 DEF PoolInv, EachTaskOnce
  <2> QED
    BY <2>1, <1>3, <1>4, <1>5, <1>6
<1>8. \A i \in DOMAIN handedIn' : outcome'[handedIn'[i]] # "none" /\ ~(i > Taken')
  <2>1. \A i \in 1..Len(handedIn) : outcome[handedIn[i]] # "none"
    <3> SUFFICES ASSUME NEW i \in 1..Len(handedIn) PROVE outcome[handedIn[i]] # "none"
      OBVIOUS
    <3>1. ~(i > Taken)
      BY <1>2
    <3>2. \A w \in Workers : task[w] # handedIn[i]
      BY <1>1, <1>5, PoolAssumption
    <3> QED
      BY <3>1, <3>2, <1>1, <1>3 DEF PoolInv, EachTaskOnce
  <2>2. outcome'[t] # "none" /\ \A u \in Tasks : u # t => outcome'[u] = outcome[u]
    BY <1>1 DEF Ended
  <2>3. \A i \in 1..Len(handedIn) + 1 : ~(i > Taken')
    BY <1>2
  <2> QED
    BY <2>1, <2>2, <2>3, <1>3, <1>4, <1>5, <1>6
<1>9. DOMAIN tasks' = {}
  BY <1>1
<1>10. /\ \A w \in Workers : task'[w] = Nobody
       /\ \A i \in DOMAIN handedIn' : handedIn'[i] # Nobody
  BY <1>1, <1>3, <1>4, <1>5, <1>6, PoolAssumption
<1> QED
  BY <1>1, <1>2, <1>7, <1>8, <1>9, <1>10 DEF EachTaskOnce

LEMMA OnceStep ==
  ASSUME PoolInv, [Next]_vars
  PROVE  EachTaskOnce'
<1>1. CASE Launch
  BY <1>1, OnceUnchanged DEF Launch, shared, worker
<1>2. CASE Enqueue
  <2>1. arg \in Tasks /\ arg \notin Submitted /\ UNCHANGED <<task, outcome>>
        /\ handedIn' = Append(handedIn, arg) /\ tasks' = Append(tasks, arg)
    BY <1>2 DEF Enqueue, OwnerAt, worker, PoolInv, OwnerControl
  <2> QED
    BY <2>1, OnceQueued
<1>3. CASE NotifyOne
  BY <1>3, OnceUnchanged DEF NotifyOne, shared, worker
<1>4. CASE Get
  BY <1>4, OnceUnchanged DEF Get, shared, worker
<1>5. CASE Unwind
  BY <1>5, OnceUnchanged DEF Unwind, shared, worker
<1>6. CASE SetStop
  BY <1>6, OnceUnchanged DEF SetStop, shared, worker
<1>7. CASE NotifyAll
  BY <1>7, OnceUnchanged DEF NotifyAll, shared, worker
<1>8. CASE Join
  BY <1>8, OnceUnchanged DEF Join, shared, worker
<1>9. CASE Destroy
  BY <1>9, OnceUnchanged DEF Destroy, shared, worker
<1>10. ASSUME NEW t \in Tasks, HandIn(t) PROVE EachTaskOnce'
  BY <1>10, OnceUnchanged DEF HandIn, shared, worker
<1>11. ASSUME NEW t \in Tasks, RunInline(t) PROVE EachTaskOnce'
  <2>1. t \notin Submitted /\ Inline /\ UNCHANGED <<tasks, task>>
        /\ handedIn' = Append(handedIn, t) /\ outcome' = Ended(t)
    BY <1>11 DEF RunInline, shared, worker
  <2> QED
    BY <2>1, OnceRun
<1>12. ASSUME NEW t \in Tasks, Await(t) PROVE EachTaskOnce'
  BY <1>12, OnceUnchanged DEF Await, shared, worker
<1>13. ASSUME NEW w \in Workers, Acquire(w) PROVE EachTaskOnce'
  BY <1>13, OnceUnchanged DEF Acquire, shared, worker
<1>14. ASSUME NEW w \in Workers, Doze(w) PROVE EachTaskOnce'
  BY <1>14, OnceUnchanged DEF Doze, shared, worker
<1>15. ASSUME NEW w \in Workers, Sleep(w) PROVE EachTaskOnce'
  BY <1>15, OnceUnchanged DEF Sleep, shared, worker
<1>16. ASSUME NEW w \in Workers, Wake(w) PROVE EachTaskOnce'
  BY <1>16, OnceUnchanged DEF Wake, shared, worker
<1>17. ASSUME NEW w \in Workers, Exit(w) PROVE EachTaskOnce'
  BY <1>17, OnceUnchanged DEF Exit, shared, worker
<1>18. ASSUME NEW w \in Workers, Pop(w) PROVE EachTaskOnce'
  BY <1>18, OnceTaken
<1>19. ASSUME NEW w \in Workers, Run(w) PROVE EachTaskOnce'
  BY <1>19, OnceEnded
<1>20. CASE UNCHANGED vars
  BY <1>20, OnceUnchanged DEF vars, shared, worker
<1> QED
  BY Steps, <1>1, <1>2, <1>3, <1>4, <1>5, <1>6, <1>7, <1>8, <1>9, <1>10,
     <1>11, <1>12, <1>13, <1>14, <1>15, <1>16, <1>17, <1>18, <1>19, <1>20

\* A pool has threads from the start or never, and only then queues tasks.
LEMMA InlineStep ==
  ASSUME PoolInv, [Next]_vars
  PROVE  InlineIdle'
<1>1. Inline' => Inline
  <2>1. CASE \/ Enqueue \/ NotifyOne \/ Get \/ Unwind \/ SetStop \/ NotifyAll \/ Join \/ Destroy
             \/ \E t \in Tasks : HandIn(t) \/ RunInline(t) \/ Await(t)
             \/ UNCHANGED vars
    <3>1. UNCHANGED wpc
      BY <2>1
      DEF Enqueue, NotifyOne, Get, Unwind, SetStop, NotifyAll, Join, Destroy, HandIn,
          RunInline, Await, vars, worker
    <3> QED BY <3>1 DEF Inline
  <2>2. ASSUME NEW w \in Workers, NEW from, NEW to, to # "absent", WorkerAt(w, from, to)
        PROVE  ~Inline'
    <3>1. wpc'[w] = to
      BY <2>2 DEF WorkerAt, PoolInv, TypeOK, ControlTypes
    <3> QED BY <2>2, <3>1 DEF Inline
  <2>3. CASE Launch
    BY <2>2, <2>3 DEF Launch, Inline
  <2>4. ASSUME NEW w \in Workers,
               Acquire(w) \/ Doze(w) \/ Sleep(w) \/ Wake(w) \/ Exit(w) \/ Pop(w)
        PROVE  ~Inline'
    BY <2>2, <2>4 DEF Acquire, Doze, Sleep, Wake, Exit, Pop
  <2>5. ASSUME NEW w \in Workers, Run(w) PROVE Inline' => Inline
    <3>1. WorkerAt(w, "run", "lock") \/ UNCHANGED wpc
      BY <2>5 DEF Run, worker
    <3> QED BY <2>2, <3>1 DEF Inline
  <2> QED BY Steps, <2>1, <2>3, <2>4, <2>5
<1>2. Inline => UNCHANGED tasks /\ opc' # "enqueue"
  BY Steps
  DEF Launch, Enqueue, NotifyOne, Get, Unwind, SetStop, NotifyAll, Join, Destroy, HandIn,
      RunInline, Await, Acquire, Doze, Sleep, Wake, Exit, Pop, Run, vars, shared, worker,
      owner, WorkerAt, OwnerAt, Inline, PoolInv, InlineIdle
<1> QED
  BY <1>1, <1>2 DEF PoolInv, InlineIdle

-----------------------------------------------------------------------------
(* The destructor.                                                         *)

\* Workers leave only an empty queue that stays empty.
LEMMA ExitedStep ==
  ASSUME PoolInv, [Next]_vars, NEW w \in Workers, (wpc[w] = "exited")'
  PROVE  stop' /\ tasks' = << >>
<1> USE PoolAssumption
       DEF PoolInv, DestructorWaits, OwnerControl, TypeOK, ControlTypes, WorkerStates,
           WorkerAt, OwnerAt, shared, worker, owner
<1>1. CASE Launch
  BY <1>1 DEF Launch
<1>2. CASE Enqueue
  BY <1>2 DEF Enqueue
<1>3. CASE NotifyOne
  BY <1>3 DEF NotifyOne
<1>4. CASE Get
  BY <1>4 DEF Get
<1>5. CASE Unwind
  BY <1>5 DEF Unwind
<1>6. CASE SetStop
  BY <1>6 DEF SetStop
<1>7. CASE NotifyAll
  BY <1>7 DEF NotifyAll
<1>8. CASE Join
  BY <1>8 DEF Join
<1>9. CASE Destroy
  BY <1>9 DEF Destroy
<1>10. ASSUME NEW t \in Tasks, HandIn(t) PROVE (stop /\ tasks = << >>)'
  BY <1>10 DEF HandIn
<1>11. ASSUME NEW t \in Tasks, RunInline(t) PROVE (stop /\ tasks = << >>)'
  BY <1>11 DEF RunInline, Ended, InlineIdle
<1>12. ASSUME NEW t \in Tasks, Await(t) PROVE (stop /\ tasks = << >>)'
  BY <1>12 DEF Await
<1>13. ASSUME NEW v \in Workers, Acquire(v) PROVE (stop /\ tasks = << >>)'
  BY <1>13 DEF Acquire, Take
<1>14. ASSUME NEW v \in Workers, Doze(v) PROVE (stop /\ tasks = << >>)'
  BY <1>14 DEF Doze
<1>15. ASSUME NEW v \in Workers, Sleep(v) PROVE (stop /\ tasks = << >>)'
  BY <1>15 DEF Sleep, Release
<1>16. ASSUME NEW v \in Workers, Wake(v) PROVE (stop /\ tasks = << >>)'
  BY <1>16 DEF Wake
<1>17. ASSUME NEW v \in Workers, Exit(v) PROVE (stop /\ tasks = << >>)'
  BY <1>17 DEF Exit, Release
<1>18. ASSUME NEW v \in Workers, Pop(v) PROVE (stop /\ tasks = << >>)'
  BY <1>18 DEF Pop, Release
<1>19. ASSUME NEW v \in Workers, Run(v) PROVE (stop /\ tasks = << >>)'
  BY <1>19 DEF Run, Ended
<1>20. CASE UNCHANGED vars
  BY <1>20 DEF vars
<1> QED
  BY Steps, <1>1, <1>2, <1>3, <1>4, <1>5, <1>6, <1>7, <1>8, <1>9, <1>10,
     <1>11, <1>12, <1>13, <1>14, <1>15, <1>16, <1>17, <1>18, <1>19, <1>20

\* When the last thread is joined, every task handed in has ended.
LEMMA AllEnded ==
  ASSUME PoolInv, \A w \in Workers : wpc[w] \in {"exited", "absent"}
  PROVE  \A t \in Submitted : outcome[t] # "none"
<1>1. tasks = << >>
  <2>1. CASE Inline
    BY <2>1 DEF PoolInv, InlineIdle
  <2>2. CASE ~Inline
    BY <2>2 DEF PoolInv, DestructorWaits, Inline
  <2> QED
    BY <2>1, <2>2
<1>2. handedIn \in Seq(Tasks) /\ Len(handedIn) \in Nat /\ Taken = Len(handedIn)
  BY <1>1 DEF PoolInv, TypeOK, DataTypes, Taken
<1>3. SUFFICES ASSUME NEW i \in DOMAIN handedIn
               PROVE  outcome[handedIn[i]] # "none"
  BY DEF Submitted
<1>4. ~(i > Taken) /\ handedIn[i] \in Tasks
  BY <1>2
<1>5. \A w \in Workers : task[w] # handedIn[i]
  BY <1>4, PoolAssumption DEF PoolInv, TypeOK, ControlTypes
<1> QED
  BY <1>4, <1>5 DEF PoolInv, EachTaskOnce

LEMMA DestructorStep ==
  ASSUME PoolInv, [Next]_vars
  PROVE  DestructorWaits'
<1>1. \A w \in Workers : (wpc[w] = "exited")' => stop' /\ tasks' = << >>
  BY ExitedStep
<1>2. ASSUME opc' = "closed"
      PROVE  /\ \A w \in Workers : (wpc[w] \in {"exited", "absent"})'
             /\ \A t \in Submitted' : outcome'[t] # "none"
  <2>1. CASE Join
    <3>1. \A w \in Workers : wpc[w] \in {"exited", "absent"}
      BY <2>1 DEF Join
    <3>2. UNCHANGED <<wpc, outcome, handedIn>>
      BY <2>1 DEF Join, worker
    <3> QED
      BY <3>1, <3>2, AllEnded DEF Submitted
  <2>2. CASE opc = "closed"
    <3>1. /\ \A w \in Workers : wpc[w] \in {"exited", "absent"}
          /\ \A t \in Submitted : outcome[t] # "none"
      BY <2>2 DEF PoolInv, DestructorWaits
    <3>2. UNCHANGED <<wpc, outcome, handedIn>>
      BY <2>2, <3>1, Steps
      DEF Launch, Enqueue, NotifyOne, Get, Unwind, SetStop, NotifyAll, Join, Destroy, HandIn,
          RunInline, Await, Acquire, Doze, Sleep, Wake, Exit, Pop, Run, vars, shared, worker,
          owner, WorkerAt, OwnerAt
    <3> QED
      BY <3>1, <3>2 DEF Submitted
  <2>3. opc = "closed" \/ Join
    BY <1>2, Steps
    DEF Launch, Enqueue, NotifyOne, Get, Unwind, SetStop, NotifyAll, Join, Destroy, HandIn,
        RunInline, Await, Acquire, Doze, Sleep, Wake, Exit, Pop, Run, vars, shared, worker,
        owner, WorkerAt, OwnerAt
  <2> QED
    BY <2>1, <2>2, <2>3
<1> QED
  BY <1>1, <1>2 DEF DestructorWaits

-----------------------------------------------------------------------------
(* PoolInv is an invariant, and with it the properties it consists of: for *)
(* any number of threads and tasks, and any calls of the owner.            *)

THEOREM PoolInvariant == Spec => []PoolInv
<1>1. Init => PoolInv
  BY InitPool
<1>2. PoolInv /\ [Next]_vars => PoolInv'
  <2> SUFFICES ASSUME PoolInv, [Next]_vars PROVE PoolInv'
    OBVIOUS
  <2>1. TypeOK'
    BY TypeStep DEF PoolInv
  <2>2. OwnerControl' /\ DozingIsIdle' /\ NewUntouched' /\ InlineIdle'
    BY OwnerControlStep, DozingStep, NewStep, InlineStep
  <2>3. EachTaskOnce' /\ StopReachesSleepers' /\ DestructorWaits'
    BY OnceStep, SleepersStep, DestructorStep
  <2> QED
    BY <2>1, <2>2, <2>3 DEF PoolInv
<1> QED
  BY <1>1, <1>2, PTL DEF Spec

\* The variables have their types and the critical sections exclude each other.
THEOREM TypeCorrect == Spec => []TypeOK
BY PoolInvariant, PTL DEF PoolInv

\* Tasks leave the queue in order; none is lost and none runs twice.
THEOREM EachTaskOnceInvariant == Spec => []EachTaskOnce
BY PoolInvariant, PTL DEF PoolInv

\* No worker misses the destructor's notification.
THEOREM StopReachesSleepersInvariant == Spec => []StopReachesSleepers
BY PoolInvariant, PTL DEF PoolInv

\* The destructor returns only after every task handed in has ended.
THEOREM DestructorWaitsInvariant == Spec => []DestructorWaits
BY PoolInvariant, PTL DEF PoolInv

(***************************************************************************)
(* The safety part of ImplementsTaskPool, for any number of threads and    *)
(* tasks: each step of the threads is a step of TaskPool, or none.  Its    *)
(* liveness part is checked by TLC.                                        *)
(***************************************************************************)

status == [t \in Tasks |-> TaskStatus(t)]

\* Where a task is decides its status.
LEMMA StatusOf ==
  ASSUME PoolInv, NEW t \in Tasks
  PROVE  /\ status[t] = "new" <=> t \notin Submitted
         /\ status[t] = "running" <=> \E w \in Workers : task[w] = t
         /\ status[t] = "finished" <=> outcome[t] # "none"
<1>1. t \notin Submitted => outcome[t] = "none" /\ \A w \in Workers : task[w] # t
  BY DEF PoolInv, NewUntouched
<1>2. (\E w \in Workers : task[w] = t) => outcome[t] = "none"
  <2> SUFFICES ASSUME \E w \in Workers : task[w] = t PROVE outcome[t] = "none"
    OBVIOUS
  <2>1. PICK i \in DOMAIN handedIn : handedIn[i] = t
    BY <1>1 DEF Submitted
  <2> QED
    BY <2>1 DEF PoolInv, EachTaskOnce
<1> QED
  BY <1>1, <1>2 DEF status, TaskStatus

\* A step that moves no task, and what it does to the phase.
LEMMA StatusSame ==
  ASSUME UNCHANGED <<outcome, task, handedIn>>
  PROVE  UNCHANGED status
BY DEF status, TaskStatus, Submitted

LEMMA StepSubmits ==
  ASSUME PoolInv, ~aborted, Enqueue
  PROVE  Abstract!Submit(arg)
<1>1. /\ opc = "enqueue" /\ opc' = "notify" /\ tasks' = Append(tasks, arg)
      /\ handedIn' = Append(handedIn, arg) /\ UNCHANGED <<outcome, task, aborted>>
  BY DEF Enqueue, OwnerAt, worker
<1>2. arg \in Tasks /\ arg \notin Submitted /\ handedIn \in Seq(Tasks)
  BY <1>1 DEF PoolInv, OwnerControl, TypeOK, DataTypes
<1>3. Submitted' = Submitted \cup {arg}
  BY <1>1, <1>2, HandingIn
<1>4. Phase = "open" /\ Phase' = "open"
  BY <1>1 DEF Phase
<1>5. outcome[arg] = "none" /\ \A w \in Workers : task[w] # arg
  BY <1>2 DEF PoolInv, NewUntouched
<1>6. status' = [status EXCEPT ![arg] = "queued"]
  BY <1>1, <1>2, <1>3, <1>5 DEF status, TaskStatus
<1>7. status[arg] = "new"
  BY <1>2, <1>5 DEF status, TaskStatus
<1> QED
  BY <1>1, <1>2, <1>4, <1>6, <1>7 DEF Abstract!Submit, status

LEMMA StepStarts ==
  ASSUME PoolInv, ~aborted, NEW w \in Workers, Pop(w)
  PROVE  Abstract!Start
<1>1. /\ wpc[w] = "test" /\ tasks # << >> /\ tasks' = Tail(tasks)
      /\ task' = [task EXCEPT ![w] = Head(tasks)]
      /\ UNCHANGED <<outcome, handedIn, opc, aborted>>
  BY DEF Pop, WorkerAt, owner
<1>2. /\ Head(tasks) = handedIn[Taken + 1] /\ Taken + 1 \in DOMAIN handedIn
      /\ Head(tasks) \in Submitted
  BY <1>1, HeadSubmitted
<1>3. /\ Taken \in Nat /\ Head(tasks) \in Tasks
      /\ task \in [Workers -> Tasks \cup {Nobody}] /\ task[w] = Nobody
  BY <1>1, HeadTailProperties
     DEF PoolInv, TypeOK, DataTypes, ControlTypes, EachTaskOnce
<1>4. outcome[Head(tasks)] = "none"
  <2>1. Taken + 1 > Taken
    BY <1>3
  <2> QED
    BY <1>2, <2>1 DEF PoolInv, EachTaskOnce
<1>5. \A t \in Tasks : t # Head(tasks) =>
        ((\E v \in Workers : task'[v] = t) <=> (\E v \in Workers : task[v] = t))
  BY <1>1, <1>3, PoolAssumption
<1>6. \E v \in Workers : task'[v] = Head(tasks)
  BY <1>1, <1>3
<1>7. status' = [status EXCEPT ![Head(tasks)] = "running"]
  <2>1. \A t \in Tasks : t = Head(tasks) => TaskStatus(t)' = "running"
    BY <1>1, <1>4, <1>6 DEF TaskStatus
  <2>2. \A t \in Tasks : t # Head(tasks) => TaskStatus(t)' = TaskStatus(t)
    BY <1>1, <1>5 DEF TaskStatus, Submitted
  <2> QED
    BY <1>3, <2>1, <2>2 DEF status
<1>8. Phase \in {"open", "closing"} /\ Phase' = Phase
  <2>1. opc # "closed"
    BY <1>1 DEF PoolInv, DestructorWaits
  <2> QED
    BY <1>1, <2>1 DEF Phase
<1> QED
  BY <1>1, <1>7, <1>8 DEF Abstract!Start, status

LEMMA StepEnds ==
  ASSUME PoolInv, ~aborted, NEW w \in Workers, Run(w)
  PROVE  task[w] \in Tasks /\ (Abstract!Finish(task[w]) \/ Abstract!Abort(task[w]))
<1>1. wpc[w] = "run" /\ UNCHANGED <<tasks, handedIn, opc>>
  BY DEF Run, WorkerAt, shared, owner
<1>2. task \in [Workers -> Tasks \cup {Nobody}] /\ task[w] \in Tasks
  BY <1>1 DEF PoolInv, TypeOK, ControlTypes
<1>3. status[task[w]] = "running" /\ outcome[task[w]] = "none"
  BY <1>2, StatusOf
<1>4. Phase \in {"open", "closing"}
  BY <1>1 DEF PoolInv, DestructorWaits, Phase
<1>5. CASE task[w] \in Throwing \ Packaged /\ aborted' /\ UNCHANGED <<task, outcome>>
  <2>1. UNCHANGED status /\ Phase' = "aborted"
    BY <1>1, <1>5, StatusSame DEF Phase
  <2> QED
    BY <1>1, <1>2, <1>3, <1>4, <1>5, <2>1 DEF Abstract!Abort, status
<1>6. CASE /\ task[w] \notin Throwing \/ task[w] \in Packaged
           /\ outcome' = Ended(task[w]) /\ task' = [task EXCEPT ![w] = Nobody]
           /\ UNCHANGED aborted
  <2>1. /\ outcome'[task[w]] # "none"
        /\ \A t \in Tasks : t # task[w] => outcome'[t] = outcome[t]
    BY <1>2, <1>6 DEF Ended, PoolInv, TypeOK, DataTypes
  <2>2. \A t \in Tasks : t # task[w] =>
          ((\E v \in Workers : task'[v] = t) <=> (\E v \in Workers : task[v] = t))
    BY <1>2, <1>6, PoolAssumption
  <2>3. status' = [status EXCEPT ![task[w]] = "finished"]
    <3>1. \A t \in Tasks : t = task[w] => TaskStatus(t)' = "finished"
      BY <1>1, <2>1 DEF TaskStatus
    <3>2. \A t \in Tasks : t # task[w] => TaskStatus(t)' = TaskStatus(t)
      BY <1>1, <2>1, <2>2 DEF TaskStatus, Submitted
    <3> QED
      BY <1>2, <3>1, <3>2 DEF status
  <2>4. Phase' = Phase
    BY <1>1, <1>6 DEF Phase
  <2> QED
    BY <1>1, <1>2, <1>3, <1>4, <1>6, <2>3, <2>4 DEF Abstract!Finish, status
<1> QED
  BY <1>2, <1>5, <1>6 DEF Run, WorkerAt, worker

LEMMA StepRunsAtOnce ==
  ASSUME PoolInv, ~aborted, NEW t \in Tasks, RunInline(t)
  PROVE  Abstract!RunAtOnce(t)
<1>1. /\ opc = "open" /\ opc' \in {"unwind", "open"} /\ Inline /\ t \notin Submitted
      /\ handedIn' = Append(handedIn, t) /\ outcome' = Ended(t)
      /\ UNCHANGED <<tasks, task, aborted>>
  BY DEF RunInline, shared, worker
<1>2. Submitted' = Submitted \cup {t}
  BY <1>1, HandingIn DEF PoolInv, TypeOK, DataTypes
<1>3. /\ outcome'[t] # "none" /\ \A u \in Tasks : u # t => outcome'[u] = outcome[u]
  BY <1>1 DEF Ended, PoolInv, TypeOK, DataTypes
<1>4. status' = [status EXCEPT ![t] = "finished"]
  BY <1>1, <1>2, <1>3 DEF status, TaskStatus
<1>5. Phase = "open" /\ Phase' = "open"
  BY <1>1 DEF Phase
<1>6. status[t] = "new"
  BY <1>1, StatusOf
<1>7. \A u \in Tasks : status[u] \in {"new", "finished"}
  <2>1. \A w \in Workers : task[w] = Nobody
    BY <1>1 DEF Inline, PoolInv, TypeOK, ControlTypes
  <2>2. \A u \in Submitted : outcome[u] # "none"
    BY <1>1, AllEnded DEF Inline
  <2> QED
    BY <2>1, <2>2, StatusOf, PoolAssumption
<1> QED
  BY <1>1, <1>4, <1>5, <1>6, <1>7 DEF Abstract!RunAtOnce, status

LEMMA StepCloses ==
  ASSUME PoolInv, ~aborted, Unwind \/ Destroy, opc' # "open"
  PROVE  Abstract!Close
<1>1. /\ opc \in {"unwind", "open"} /\ opc' = "stop"
      /\ UNCHANGED <<tasks, task, handedIn, outcome, aborted>>
  BY DEF Unwind, Destroy, OwnerAt, shared, worker
<1>2. Phase = "open" /\ Phase' = "closing" /\ UNCHANGED status
  BY <1>1, StatusSame DEF Phase
<1> QED
  BY <1>1, <1>2 DEF Abstract!Close, status

LEMMA StepClosed ==
  ASSUME PoolInv, ~aborted, Join
  PROVE  Abstract!Closed
<1>1. /\ opc = "join" /\ opc' = "closed" /\ \A w \in Workers : wpc[w] \in {"exited", "absent"}
      /\ UNCHANGED <<tasks, task, handedIn, outcome, aborted>>
  BY DEF Join, OwnerAt, shared, worker
<1>2. Phase = "closing" /\ Phase' = "closed" /\ UNCHANGED status
  BY <1>1, StatusSame DEF Phase
<1>3. \A t \in Tasks : status[t] \in {"new", "finished"}
  BY <1>1, AllEnded, StatusOf
<1> QED
  BY <1>1, <1>2, <1>3 DEF Abstract!Closed, status

\* Every other step of a thread is invisible.
LEMMA StepStutters ==
  ASSUME PoolInv, ~aborted,
         \/ Launch \/ NotifyOne \/ Get \/ SetStop \/ NotifyAll \/ (Unwind /\ opc' = "open")
         \/ \E t \in Tasks : HandIn(t) \/ Await(t)
         \/ \E w \in Workers : \/ Acquire(w) \/ Doze(w) \/ Sleep(w) \/ Wake(w)
                               \/ Exit(w)
  PROVE  UNCHANGED Abstract!vars
<1>1. UNCHANGED <<tasks, task, handedIn, outcome, aborted>>
  BY DEF Launch, NotifyOne, Get, SetStop, NotifyAll, Unwind, HandIn, Await, Acquire, Doze,
         Sleep, Wake, Exit, shared, worker
<1>2. Phase' = Phase
  BY <1>1 DEF Launch, NotifyOne, Get, SetStop, NotifyAll, Unwind, HandIn, Await, Acquire, Doze,
              Sleep, Wake, Exit, OwnerAt, owner, Phase
<1> QED
  BY <1>1, <1>2, StatusSame DEF Abstract!vars, status

\* The threads implement the task pool: tasks are started in order and once,
\* and the pool is closed only when every task handed in is finished.
THEOREM ImplementsSafely == Spec => Abstract!SafeSpec
<1>1. Init => Abstract!Init
  <2> SUFFICES ASSUME Init PROVE Abstract!Init
    OBVIOUS
  <2>1. Submitted = {} /\ tasks = << >> /\ Phase = "open"
    BY DEF Init, Submitted, Phase
  <2>2. status = [t \in Tasks |-> "new"]
    BY <2>1, PoolAssumption DEF Init, status, TaskStatus
  <2> QED
    BY <2>1, <2>2 DEF Abstract!Init, status
<1>2. PoolInv /\ [Next]_vars => [Abstract!Next]_(Abstract!vars)
  <2> SUFFICES ASSUME PoolInv, [Next]_vars PROVE [Abstract!Next]_(Abstract!vars)
    OBVIOUS
  <2>1. CASE UNCHANGED vars
    <3>1. UNCHANGED <<tasks, task, handedIn, outcome, aborted, opc>>
      BY <2>1 DEF vars, shared, worker, owner
    <3> QED
      BY <3>1, StatusSame DEF Abstract!vars, status, Phase
  <2>2. CASE Next
    <3>1. ~aborted
      BY <2>2 DEF Next, OwnerStep, OwnerCall, OwnerDestroys, WorkerStep, SpuriousWake
    <3>2. CASE Enqueue
      <4>1. arg \in Tasks
        BY <3>2 DEF Enqueue, OwnerAt, PoolInv, OwnerControl
      <4> QED
        BY <3>1, <3>2, <4>1, StepSubmits DEF Abstract!Next
    <3>3. CASE \E w \in Workers : Pop(w)
      BY <3>1, <3>3, StepStarts DEF Abstract!Next
    <3>4. CASE \E w \in Workers : Run(w)
      BY <3>1, <3>4, StepEnds DEF Abstract!Next
    <3>5. CASE \E t \in Tasks : RunInline(t)
      BY <3>1, <3>5, StepRunsAtOnce DEF Abstract!Next
    <3>6. CASE (Unwind \/ Destroy) /\ opc' # "open"
      BY <3>1, <3>6, StepCloses DEF Abstract!Next
    <3>7. CASE Join
      BY <3>1, <3>7, StepClosed DEF Abstract!Next
    <3>8. CASE \/ Launch \/ NotifyOne \/ Get \/ SetStop \/ NotifyAll
               \/ (Unwind /\ opc' = "open")
               \/ \E t \in Tasks : HandIn(t) \/ Await(t)
               \/ \E w \in Workers : \/ Acquire(w) \/ Doze(w) \/ Sleep(w) \/ Wake(w)
                                     \/ Exit(w)
      BY <3>1, <3>8, StepStutters
    <3>9. Destroy => opc' # "open"
      BY DEF Destroy, OwnerAt
    <3> QED
      BY <2>1, <3>2, <3>3, <3>4, <3>5, <3>6, <3>7, <3>8, <3>9, Steps
  <2> QED
    BY <2>1, <2>2
<1> QED
  BY <1>1, <1>2, PoolInvariant, PTL DEF Spec, Abstract!SafeSpec
=============================================================================
