\* Up to two threads, or none, four tasks of every kind, one spurious wake-up.
SPECIFICATION Spec
CONSTANTS
  a = a
  b = b
  c = c
  d = d
  w1 = w1
  w2 = w2
  Workers <- TwoWorkers
  Tasks <- AllTasks
  Packaged <- PackagedTasks
  Throwing <- ThrowingTasks
  Owner = Owner
  Nobody = Nobody
  MaxSpurious = 1
INVARIANTS EachTaskOnce StopReachesSleepers DestructorWaits
PROPERTY ImplementsTaskPool
\* The destructor has returned, or the program was terminated.
CHECK_DEADLOCK FALSE
