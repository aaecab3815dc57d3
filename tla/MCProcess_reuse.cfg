\* kmalloc hands the record a thread's exit kfree'd to the next thread's
\* attach_pid, while a lookup still holds it.
CONSTANTS
    t1 = t1  t2 = t2  t3 = t3  l1 = l1  l2 = l2  n1 = n1  n2 = n2  n3 = n3
    NULL = NULL
    Tasks <- TwoTasks
    Lookers <- OneLooker
    Nodes <- TwoNodes
    ReuseFreed = TRUE
SPECIFICATION Spec
PROPERTIES RegistrySpec
