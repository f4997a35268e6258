\* Four tasks, slices of two ticks; the nesting bound is not reached without Reentrant.
SPECIFICATION FairSpec
CONSTANTS
  Tasks = {init, t1, t2, t3}
  InitTask = init
  DummyTask = dummy
  NoTask = null
  Slices = 2
  Reentrant = FALSE
  MaxNesting = 1
INVARIANTS
  TypeOK
  NoPanic
  NoTaskLostOrDuplicated
  MutualExclusion
  NoLostWakeup
PROPERTIES
  ImplementsLock
  ImplementsLifecycle
  ReadyEventuallyRuns
  WaiterEventuallyWoken
