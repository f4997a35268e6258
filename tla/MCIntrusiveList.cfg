\* Five nodes: a list can have three and be unlinked from between, while two more
\* come and go in another.
SPECIFICATION ListSpec
CONSTANTS
  Nodes = {n1, n2, n3, n4, n5}
  Lists = {rq, expired_q, wait_queue}
  Null = null
INVARIANTS
  ListsNoPanic
  ListsAreQueues
