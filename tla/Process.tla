------------------------------- MODULE Process -------------------------------
(***************************************************************************)
(* The PID registry and the kernel-thread life cycle of DDE Linux 2.6     *)
(* (src/src/lib/dde_linux26/arch/dde_kit/process.c).                       *)
(*                                                                         *)
(* _pid_task_list is a list of kmalloc'ed pid2task records {pid, ts}.     *)
(* A kernel thread made by kernel_thread runs __kthread_helper, which     *)
(* makes it a worker (dde_linux26_process_add_worker) and attaches its    *)
(* id; dde_linux26_process_from_dde_kit does the same for a dde_kit      *)
(* thread that already runs; do_exit detaches it.  attach_pid fills the  *)
(* record outside the lock and inserts it at the head under               *)
(* _pid_task_list_lock; detach_pid                                        *)
(* unlinks and kfrees the first record of the task under the lock;        *)
(* find_task_by_pid_type scans under the lock, unlocks and only then      *)
(* reads pt->ts.                                                          *)
(*                                                                         *)
(* Every list access is under the lock, so each critical section is one   *)
(* step; the read of pt->ts after the unlock is a step of its own.  A     *)
(* record's memory keeps its contents after kfree until kmalloc hands it  *)
(* out again.  A task's id is the task itself (dde_kit thread ids are     *)
(* unique).                                                               *)
(***************************************************************************)
EXTENDS Sequences, SequencesExt, FiniteSets

CONSTANTS
    Tasks,       \* kernel threads
    Lookers,     \* threads calling find_task_by_pid_type
    Nodes,       \* memory kmalloc can return for a struct pid2task
    NULL,
    ReuseFreed   \* kmalloc may hand out memory that was kfree'd

VARIABLES
    lst,         \* _pid_task_list, head first
    mem,         \* contents of each record's memory: [pid, ts]
    allocated,   \* records kmalloc'ed and not kfree'd
    used,        \* records ever kmalloc'ed
    tpc,         \* per task: where its thread is
    tnode,       \* per task: the record attach_pid kmalloc'ed
    lpc,         \* per looker: "idle" | "scan" | "read"
    lid,         \* per looker: the id nr looked up
    lpt,         \* per looker: the record found, or NULL
    lout,        \* per looker: the task returned
    lscan        \* history: pt->ts as it was under the lock

vars == <<lst, mem, allocated, used, tpc, tnode, lpc, lid, lpt, lout, lscan>>
taskVars == <<tpc, tnode>>
lookVars == <<lpc, lid, lpt, lout, lscan>>

Empty == [pid |-> NULL, ts |-> NULL]

Init ==
    /\ lst = <<>>
    /\ mem = [n \in Nodes |-> Empty]
    /\ allocated = {} /\ used = {}
    /\ tpc = [t \in Tasks |-> "none"]
    /\ tnode = [t \in Tasks |-> NULL]
    /\ lpc = [l \in Lookers |-> "idle"]
    /\ lid = [l \in Lookers |-> NULL]
    /\ lpt = [l \in Lookers |-> NULL]
    /\ lout = [l \in Lookers |-> NULL]
    /\ lscan = [l \in Lookers |-> NULL]

\* What kmalloc may return for a new record.
Allocatable == IF ReuseFreed THEN Nodes \ allocated ELSE Nodes \ used

\* Position of the first record of task t in the list, or 0 (the
\* list_for_each of detach_pid).
FirstOfTask(t) == SelectInSeq(lst, LAMBDA n : mem[n].ts = t)

\* Position of the first record with id nr in the list, or 0 (the
\* list_for_each of find_task_by_pid_type).
FirstWithPid(nr) == SelectInSeq(lst, LAMBDA n : mem[n].pid = nr)

-----------------------------------------------------------------------------
(* kernel_thread (143-157) creates the host thread with __kthread_helper  *)
(* as its entry; the thread has no task struct yet.                       *)
Spawn(t) ==
    /\ tpc[t] = "none"
    /\ tpc' = [tpc EXCEPT ![t] = "helper"]
    /\ UNCHANGED <<lst, mem, allocated, used, tnode, lookVars>>

\* __kthread_helper (130-138) runs dde_linux26_process_add_worker
\* (221-249): init_dde_linux26_thread gives the thread its task struct
\* and its sleep lock, dde_kit_thread_set_my_data makes it current; then
\* attach_pid follows.
AddWorker(t) ==
    /\ tpc[t] = "helper"
    /\ tpc' = [tpc EXCEPT ![t] = "alloc"]
    /\ UNCHANGED <<lst, mem, allocated, used, tnode, lookVars>>

\* dde_linux26_process_from_dde_kit (251-258): another thread turns a
\* dde_kit thread that already runs into a task and attaches its id.
Adopt(t) ==
    /\ tpc[t] = "none"
    /\ tpc' = [tpc EXCEPT ![t] = "alloc"]
    /\ UNCHANGED <<lst, mem, allocated, used, tnode, lookVars>>

\* attach_pid without filling the record.
AttachAllocNoInit(t) ==
    /\ tpc[t] = "alloc"
    /\ \E n \in Allocatable :
        /\ allocated' = allocated \cup {n}
        /\ used' = used \cup {n}
        /\ tnode' = [tnode EXCEPT ![t] = n]
    /\ tpc' = [tpc EXCEPT ![t] = "link"]
    /\ UNCHANGED <<lst, mem, lookVars>>

\* attach_pid lines 60-62: kmalloc and fill the record.
AttachAlloc(t) ==
    /\ tpc[t] = "alloc"
    /\ \E n \in Allocatable :
        /\ allocated' = allocated \cup {n}
        /\ used' = used \cup {n}
        /\ mem' = [mem EXCEPT ![n] = [pid |-> t, ts |-> t]]
        /\ tnode' = [tnode EXCEPT ![t] = n]
    /\ tpc' = [tpc EXCEPT ![t] = "link"]
    /\ UNCHANGED <<lst, lookVars>>

\* attach_pid lines 65-69: list_add at the head under the lock; the thread
\* then runs its function.
AttachLink(t) ==
    /\ tpc[t] = "link"
    /\ lst' = <<tnode[t]>> \o lst
    /\ tpc' = [tpc EXCEPT ![t] = "running"]
    /\ UNCHANGED <<mem, allocated, used, tnode, lookVars>>

\* detach_pid that kfrees the record but leaves it linked.
ExitNoUnlink(t) ==
    /\ tpc[t] = "running"
    /\ LET i == FirstOfTask(t)
       IN  allocated' = IF i = 0 THEN allocated ELSE allocated \ {lst[i]}
    /\ tpc' = [tpc EXCEPT ![t] = "dead"]
    /\ UNCHANGED <<lst, mem, used, tnode, lookVars>>

\* do_exit (162-174) with detach_pid (73-91): under the lock, unlink and
\* kfree the first record whose ts is the task; then the thread exits.
Exit(t) ==
    /\ tpc[t] = "running"
    /\ LET i == FirstOfTask(t)
       IN  /\ lst' = IF i = 0 THEN lst ELSE RemoveAt(lst, i)
           /\ allocated' = IF i = 0 THEN allocated ELSE allocated \ {lst[i]}
    /\ tpc' = [tpc EXCEPT ![t] = "dead"]
    /\ UNCHANGED <<mem, used, tnode, lookVars>>

-----------------------------------------------------------------------------
(* find_task_by_pid_type (93-109).                                         *)
Call(l, n) ==
    /\ lpc[l] = "idle"
    /\ lpc' = [lpc EXCEPT ![l] = "scan"]
    /\ lid' = [lid EXCEPT ![l] = n]
    /\ UNCHANGED <<lst, mem, allocated, used, taskVars, lpt, lout, lscan>>

\* A scan that gives up when the head record does not match.
ScanFirstOnly(l) ==
    /\ lpc[l] = "scan"
    /\ LET hit == lst # <<>> /\ mem[Head(lst)].pid = lid[l]
       IN  /\ lpt' = [lpt EXCEPT ![l] = IF hit THEN Head(lst) ELSE NULL]
           /\ lscan' = [lscan EXCEPT ![l] = IF hit THEN mem[Head(lst)].ts ELSE NULL]
    /\ lpc' = [lpc EXCEPT ![l] = "read"]
    /\ UNCHANGED <<lst, mem, allocated, used, taskVars, lid, lout>>

\* Lines 98-102 and 106: lock, walk the list for the first record with the
\* id, unlock.
Scan(l) ==
    /\ lpc[l] = "scan"
    /\ LET i == FirstWithPid(lid[l])
       IN  /\ lpt' = [lpt EXCEPT ![l] = IF i = 0 THEN NULL ELSE lst[i]]
           /\ lscan' = [lscan EXCEPT ![l] = IF i = 0 THEN NULL ELSE mem[lst[i]].ts]
    /\ lpc' = [lpc EXCEPT ![l] = "read"]
    /\ UNCHANGED <<lst, mem, allocated, used, taskVars, lid, lout>>

\* Line 103 (return pt->ts, read after the unlock) or line 108 (NULL).
Read(l) ==
    /\ lpc[l] = "read"
    /\ lout' = [lout EXCEPT ![l] = IF lpt[l] = NULL THEN NULL ELSE mem[lpt[l]].ts]
    /\ lpc' = [lpc EXCEPT ![l] = "idle"]
    /\ UNCHANGED <<lst, mem, allocated, used, taskVars, lid, lpt, lscan>>

Next ==
    \/ \E t \in Tasks : \/ Spawn(t) \/ AddWorker(t) \/ Adopt(t)
                        \/ AttachAlloc(t) \/ AttachLink(t) \/ Exit(t)
    \/ \E l \in Lookers : \/ \E n \in Tasks : Call(l, n)
                          \/ Scan(l) \/ Read(l)

Spec == Init /\ [][Next]_vars

-----------------------------------------------------------------------------
TypeOK ==
    /\ lst \in Seq(Nodes)
    /\ mem \in [Nodes -> [pid : Tasks \cup {NULL}, ts : Tasks \cup {NULL}]]
    /\ allocated \subseteq used /\ used \subseteq Nodes
    /\ \A n \in Nodes : (mem[n] = Empty) <=> (n \notin used)
    /\ tpc \in [Tasks -> {"none", "helper", "alloc", "link", "running", "dead"}]
    /\ tnode \in [Tasks -> Nodes \cup {NULL}]
    /\ lpc \in [Lookers -> {"idle", "scan", "read"}]
    /\ lid \in [Lookers -> Tasks \cup {NULL}]
    /\ lpt \in [Lookers -> Nodes \cup {NULL}]
    /\ lout \in [Lookers -> Tasks \cup {NULL}]

\* The list holds each record once, only records that are allocated, and
\* at most one record per task: detach_pid unlinks before it kfrees, and a
\* task's record is linked between its attach and its exit.
ListIntact ==
    /\ IsInjective(lst)
    /\ ToSet(lst) \subseteq allocated
    /\ \A t \in Tasks :
         Cardinality({i \in 1..Len(lst) : mem[lst[i]].ts = t})
            = IF tpc[t] = "running" THEN 1 ELSE 0

\* find_task_by_pid_type, attach_pid and detach_pid implement the
\* registry of spec sections 4.2 and 8: a lookup returns the task
\* registered for the id at one instant during the call.
Registry == INSTANCE PidRegistry WITH
    reg <- {<<mem[lst[i]].pid, mem[lst[i]].ts>> : i \in 1..Len(lst)},
    phase <- [l \in Lookers |-> CASE lpc[l] = "idle" -> "idle"
                                  [] lpc[l] = "scan" -> "called"
                                  [] lpc[l] = "read" -> "resolved"],
    arg <- lid,
    lin <- lscan,
    out <- lout

RegistrySpec == Registry!Spec

====
