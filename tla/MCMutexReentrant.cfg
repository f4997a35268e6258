\* The lock's holder may call acquire again, as the test of owner in acquire
\* invites it to do.
SPECIFICATION Spec
CONSTANTS
  Tasks = {init, t1}
  InitTask = init
  DummyTask = dummy
  NoTask = null
  Slices = 2
  Reentrant = TRUE
  MaxNesting = 2
INVARIANTS
  MutualExclusion
