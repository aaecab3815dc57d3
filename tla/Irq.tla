-------------------------------- MODULE Irq --------------------------------
(***************************************************************************)
(* Interrupt claim and dispatch of DDE Linux 2.6                           *)
(* (src/src/lib/dde_linux26/arch/dde_kit/irq.c).                           *)
(*                                                                         *)
(* Driver threads (the set Callers) call request_irq, which allocates an   *)
(* irqaction and hands it to claim_irq.  claim_irq looks the line up in    *)
(* the list used_irqs, creates and links a descriptor on first use and     *)
(* attaches a dde_kit interrupt thread to it, then checks exclusivity and  *)
(* head-inserts the action into the descriptor's chain.  Nothing locks     *)
(* used_irqs or the chain ("FIXME list locking"), so every read and every  *)
(* write of a shared pointer is a step of its own.  The interrupt thread   *)
(* of an attached descriptor runs irq_handler: it calls the handler of     *)
(* every action of the chain, head first.                                  *)
(***************************************************************************)
EXTENDS Naturals, SequencesExt

CONSTANTS
    Callers,        \* driver threads calling request_irq, disable_irq, enable_irq
    Lines,          \* interrupt numbers the drivers request
    Actions,        \* the irqactions request_irq can allocate (one per call)
    Descs,          \* memory for struct dde_linux26_irq descriptors
    AttachCanFail,  \* whether dde_kit_interrupt_attach may refuse a line
    NoDesc          \* the NULL descriptor pointer

ASSUME AttachCanFail \in BOOLEAN /\ NoDesc \notin Descs

VARIABLES
    used_irqs,   \* the list used_irqs, head first
    allocated,   \* descriptors currently allocated by dde_kit_simple_malloc
    irq,         \* [d -> line]: irq->irq
    shared,      \* [d -> BOOLEAN]: irq->shared
    dcount,      \* [d -> Nat]: irq->count
    action,      \* [d -> chain of actions, head first]: irq->action
    attached,    \* descriptors with a dde_kit interrupt thread
    enabled,     \* [line -> BOOLEAN]: delivery enabled in the dde_kit
    invoked,     \* [d -> the chain the last interrupt of d ran, in order]
    \* per caller: the request in progress
    pc,          \* [c -> program counter]
    act,         \* [c -> the irqaction being claimed]
    desc,        \* [c -> claim_irq's local irq]
    nextd,       \* [c -> used_irqs as read for irq->next]
    nexta,       \* [c -> the chain as read for action->next]
    \* per action: what became of its request
    aline,       \* [a -> line]: irq_action->irq
    aflags,      \* [a -> BOOLEAN]: SA_SHIRQ in irq_action->flags
    result,      \* [a -> "none" | "ok" | "EBUSY" | "ENOMEM"]
    seqno        \* [a -> position of its request_irq call among all calls]

descVars == <<used_irqs, allocated, irq, shared, dcount, action, attached>>
callerVars == <<pc, act, desc, nextd, nexta>>
actionVars == <<aline, aflags, result, seqno>>
vars == <<descVars, enabled, invoked, callerVars, actionVars>>

Results == {"none", "ok", "EBUSY", "ENOMEM"}
CallerPCs == {"idle", "search", "alloc", "link", "attach", "check", "add",
              "add_link"}

\* Descriptors reachable from used_irqs.
Listed == Range(used_irqs)

\* The action has been allocated by some request_irq call.
Requested(a) == seqno[a] > 0

Init ==
    /\ used_irqs = <<>>
    /\ allocated = {}
    /\ irq = [d \in Descs |-> CHOOSE l \in Lines : TRUE]
    /\ shared = [d \in Descs |-> FALSE]
    /\ dcount = [d \in Descs |-> 0]
    /\ action = [d \in Descs |-> <<>>]
    /\ attached = {}
    /\ enabled = [l \in Lines |-> TRUE]
    /\ invoked = [d \in Descs |-> <<>>]
    /\ pc = [c \in Callers |-> "idle"]
    /\ act = [c \in Callers |-> CHOOSE a \in Actions : TRUE]
    /\ desc = [c \in Callers |-> NoDesc]
    /\ nextd = [c \in Callers |-> <<>>]
    /\ nexta = [c \in Callers |-> <<>>]
    /\ aline = [a \in Actions |-> CHOOSE l \in Lines : TRUE]
    /\ aflags = [a \in Actions |-> FALSE]
    /\ result = [a \in Actions |-> "none"]
    /\ seqno = [a \in Actions |-> 0]

Goto(c, from, to) == pc[c] = from /\ pc' = [pc EXCEPT ![c] = to]

\* claim_irq returns an error; request_irq passes it on (irq.c 169).
Fail(c, err) ==
    /\ pc' = [pc EXCEPT ![c] = "idle"]
    /\ result' = [result EXCEPT ![act[c]] = err]
    /\ desc' = [desc EXCEPT ![c] = NoDesc]

-----------------------------------------------------------------------------
(* request_irq (irq.c 151-165): allocate and fill the irqaction.  The      *)
(* handler is never NULL here; the allocation may fail.                    *)
RequestIrq(c, a, l, sh) ==
    /\ pc[c] = "idle" /\ ~Requested(a)
    /\ seqno' = [seqno EXCEPT ![a] = 1 + Cardinality({b \in Actions : Requested(b)})]
    /\ act' = [act EXCEPT ![c] = a]
    /\ aline' = [aline EXCEPT ![a] = l]
    /\ aflags' = [aflags EXCEPT ![a] = sh]
    /\ \/ /\ pc' = [pc EXCEPT ![c] = "search"]
          /\ UNCHANGED result
       \/ /\ pc' = [pc EXCEPT ![c] = "idle"]
          /\ result' = [result EXCEPT ![a] = "ENOMEM"]
    /\ UNCHANGED <<descVars, enabled, invoked, desc, nextd, nexta>>

\* claim_irq lines 82-83 with a walk that never advances past the head.
ClaimSearchHeadOnly(c) ==
    /\ pc[c] = "search"
    /\ IF used_irqs = <<>> \/ irq[Head(used_irqs)] # aline[act[c]]
       THEN pc' = [pc EXCEPT ![c] = "alloc"] /\ UNCHANGED desc
       ELSE /\ pc' = [pc EXCEPT ![c] = "check"]
            /\ desc' = [desc EXCEPT ![c] = Head(used_irqs)]
    /\ UNCHANGED <<descVars, enabled, invoked, act, nextd, nexta,
                   result, aline, aflags, seqno>>

\* claim_irq lines 82-86 without the set-up branch for an unused line.
ClaimSearchNoSetup(c) ==
    /\ Goto(c, "search", "check")
    /\ LET hits == {i \in 1..Len(used_irqs) : irq[used_irqs[i]] = aline[act[c]]}
       IN  desc' = [desc EXCEPT ![c] = IF hits = {} THEN NoDesc
                                        ELSE used_irqs[Min(hits)]]
    /\ UNCHANGED <<descVars, enabled, invoked, act, nextd, nexta,
                   result, aline, aflags, seqno>>

\* claim_irq lines 82-83: the first descriptor of the line, if any.
ClaimSearch(c) ==
    /\ pc[c] = "search"
    /\ LET hits == {i \in 1..Len(used_irqs) : irq[used_irqs[i]] = aline[act[c]]}
       IN  IF hits = {}
           THEN pc' = [pc EXCEPT ![c] = "alloc"] /\ UNCHANGED desc
           ELSE /\ pc' = [pc EXCEPT ![c] = "check"]
                /\ desc' = [desc EXCEPT ![c] = used_irqs[Min(hits)]]
    /\ UNCHANGED <<descVars, enabled, invoked, act, nextd, nexta,
                   result, aline, aflags, seqno>>

\* claim_irq lines 88-94: allocate and initialise a descriptor, reading
\* used_irqs for its next pointer.  Allocation fails when no memory is left.
ClaimAlloc(c) ==
    /\ pc[c] = "alloc"
    /\ \/ \E d \in Descs \ allocated :
             /\ allocated' = allocated \cup {d}
             /\ irq' = [irq EXCEPT ![d] = aline[act[c]]]
             /\ shared' = [shared EXCEPT ![d] = aflags[act[c]]]
             /\ dcount' = [dcount EXCEPT ![d] = 0]
             /\ action' = [action EXCEPT ![d] = <<>>]
             /\ desc' = [desc EXCEPT ![c] = d]
             /\ nextd' = [nextd EXCEPT ![c] = used_irqs]
             /\ pc' = [pc EXCEPT ![c] = "link"]
             /\ UNCHANGED result
       \/ /\ Fail(c, "ENOMEM")
          /\ UNCHANGED <<allocated, irq, shared, dcount, action, nextd>>
    /\ UNCHANGED <<used_irqs, attached, enabled, invoked, act,
                   nexta, aline, aflags, seqno>>

\* claim_irq line 95: used_irqs = irq.
ClaimLink(c) ==
    /\ Goto(c, "link", "attach")
    /\ used_irqs' = <<desc[c]>> \o nextd[c]
    /\ UNCHANGED <<allocated, irq, shared, dcount, action, attached, enabled,
                   invoked, act, desc, nextd, nexta, result, aline, aflags, seqno>>

\* claim_irq lines 98-106: start the interrupt thread.  On failure the
\* descriptor is freed although line 95 has already linked it.
ClaimAttach(c) ==
    /\ pc[c] = "attach"
    /\ \/ /\ attached' = attached \cup {desc[c]}
          /\ pc' = [pc EXCEPT ![c] = "check"]
          /\ UNCHANGED <<allocated, desc, result>>
       \/ /\ AttachCanFail
          /\ allocated' = allocated \ {desc[c]}
          /\ Fail(c, "EBUSY")
          /\ UNCHANGED attached
    /\ UNCHANGED <<used_irqs, irq, shared, dcount, action, enabled, invoked,
                   act, nextd, nexta, aline, aflags, seqno>>

\* claim_irq line 110, with the || dropped: only the descriptor's flag counts.
ClaimCheckDescOnly(c) ==
    /\ pc[c] = "check"
    /\ LET d == desc[c]
       IN  IF ~shared[d] /\ action[d] # <<>>
           THEN Fail(c, "EBUSY")
           ELSE pc' = [pc EXCEPT ![c] = "add"] /\ UNCHANGED <<result, desc>>
    /\ UNCHANGED <<descVars, enabled, invoked, act, nextd, nexta,
                   aline, aflags, seqno>>

\* claim_irq line 110: an exclusive descriptor, or an exclusive request,
\* admits no second action.
ClaimCheck(c) ==
    /\ pc[c] = "check"
    /\ LET d == desc[c]
       IN  IF (~shared[d] \/ ~aflags[act[c]]) /\ action[d] # <<>>
           THEN Fail(c, "EBUSY")
           ELSE pc' = [pc EXCEPT ![c] = "add"] /\ UNCHANGED <<result, desc>>
    /\ UNCHANGED <<descVars, enabled, invoked, act, nextd, nexta,
                   aline, aflags, seqno>>

\* claim_irq lines 113-114: count the action and read the chain head.
ClaimAdd(c) ==
    /\ Goto(c, "add", "add_link")
    /\ dcount' = [dcount EXCEPT ![desc[c]] = @ + 1]
    /\ nexta' = [nexta EXCEPT ![c] = action[desc[c]]]
    /\ UNCHANGED <<used_irqs, allocated, irq, shared, action, attached,
                   enabled, invoked, act, desc, nextd, result,
                   aline, aflags, seqno>>

\* claim_irq line 115 and the return of lines 117 and 169-171.
ClaimAddLink(c) ==
    /\ Goto(c, "add_link", "idle")
    /\ action' = [action EXCEPT ![desc[c]] = <<act[c]>> \o nexta[c]]
    /\ result' = [result EXCEPT ![act[c]] = "ok"]
    /\ desc' = [desc EXCEPT ![c] = NoDesc]
    /\ UNCHANGED <<used_irqs, allocated, irq, shared, dcount, attached,
                   enabled, invoked, act, nextd, nexta, aline, aflags, seqno>>

\* disable_irq / disable_irq_nosync / enable_irq (irq.c 191-212).
SetIrqEnabled(c, l, on) ==
    /\ pc[c] = "idle"
    /\ enabled[l] # on
    /\ enabled' = [enabled EXCEPT ![l] = on]
    /\ UNCHANGED <<descVars, invoked, callerVars, actionVars>>

\* irq_handler lines 55-56 on the interrupt thread of d: one interrupt
\* runs every handler of the chain, head first.  The softirq check of
\* lines 59-60 belongs to the softirq engine (module Softirq).
IrqHandler(d) ==
    /\ d \in attached
    /\ enabled[irq[d]]
    /\ invoked' = [invoked EXCEPT ![d] = action[d]]
    /\ UNCHANGED <<descVars, enabled, callerVars, actionVars>>

Caller(c) ==
    \/ \E a \in Actions, l \in Lines, sh \in BOOLEAN : RequestIrq(c, a, l, sh)
    \/ ClaimSearch(c) \/ ClaimAlloc(c) \/ ClaimLink(c) \/ ClaimAttach(c)
    \/ ClaimCheck(c) \/ ClaimAdd(c) \/ ClaimAddLink(c)
    \/ \E l \in Lines, on \in BOOLEAN : SetIrqEnabled(c, l, on)

Next == (\E c \in Callers : Caller(c)) \/ (\E d \in Descs : IrqHandler(d))

Spec == Init /\ [][Next]_vars

-----------------------------------------------------------------------------
\* Types; claim_irq's local irq is a descriptor from the search on.
TypeOK ==
    /\ used_irqs \in Seq(Descs)
    /\ allocated \subseteq Descs /\ attached \subseteq Descs
    /\ irq \in [Descs -> Lines] /\ shared \in [Descs -> BOOLEAN]
    /\ dcount \in [Descs -> Nat]
    /\ action \in [Descs -> Seq(Actions)] /\ invoked \in [Descs -> Seq(Actions)]
    /\ enabled \in [Lines -> BOOLEAN]
    /\ pc \in [Callers -> CallerPCs] /\ act \in [Callers -> Actions]
    /\ desc \in [Callers -> Descs \cup {NoDesc}]
    /\ \A c \in Callers : desc[c] = NoDesc <=> pc[c] \in {"idle", "search", "alloc"}
    /\ nextd \in [Callers -> Seq(Descs)] /\ nexta \in [Callers -> Seq(Actions)]
    /\ aline \in [Actions -> Lines] /\ aflags \in [Actions -> BOOLEAN]
    /\ result \in [Actions -> Results] /\ seqno \in [Actions -> Nat]

\* claim_irq keeps one descriptor per interrupt line in used_irqs, so a line
\* is attached to one dde_kit interrupt thread: no two listed or attached
\* descriptors serve the same line.
OneDescriptorPerLine ==
    \A d1, d2 \in Listed \cup attached : irq[d1] = irq[d2] => d1 = d2

\* Exclusivity of claim_irq line 110: an action requested without SA_SHIRQ
\* is the only action on its line, over every descriptor whose interrupt
\* thread serves it.
ExclusiveClaim ==
    \A l \in Lines :
        LET on == {a \in Actions :
                     \E d \in attached :
                        irq[d] = l /\ a \in Range(action[d])}
        IN  \A a \in on : ~aflags[a] => on = {a}

\* Once request_irq has returned 0 for an action, the action is in the
\* chain of a listed descriptor of its line whose interrupt thread runs:
\* every later interrupt of the line reaches its handler.
HandlerReachable ==
    \A a \in Actions :
        result[a] = "ok" =>
            \E d \in Listed \cap attached : irq[d] = aline[a] /\ a \in Range(action[d])

====
