------------------------------ MODULE MCProcess ------------------------------
(* Process instantiated for TLC: three kernel threads come and go while    *)
(* two threads look ids up; one record of memory per thread, and a second  *)
(* instance where kmalloc hands a kfree'd record out again.                *)
EXTENDS Process

CONSTANTS t1, t2, t3, l1, l2, n1, n2, n3

MCTasks == {t1, t2, t3}
TwoTasks == {t1, t2}
MCLookers == {l1, l2}
OneLooker == {l1}
MCNodes == {n1, n2, n3}
TwoNodes == {n1, n2}

====
