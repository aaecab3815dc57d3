\* Three threads attach and exit while two threads look ids up; kmalloc
\* never hands out a record twice.
CONSTANTS
    t1 = t1  t2 = t2  t3 = t3  l1 = l1  l2 = l2  n1 = n1  n2 = n2  n3 = n3
    NULL = NULL
    Tasks <- MCTasks
    Lookers <- MCLookers
    Nodes <- MCNodes
    ReuseFreed = FALSE
SPECIFICATION Spec
INVARIANTS TypeOK ListIntact
PROPERTIES RegistrySpec
