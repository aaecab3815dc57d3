\* dde_kit_interrupt_attach refuses the line after claim_irq has linked
\* the new descriptor into used_irqs.
CONSTANTS
    c1 = c1  c2 = c2  l1 = l1  l2 = l2  a1 = a1  a2 = a2  a3 = a3
    d1 = d1  d2 = d2  d3 = d3
    Callers <- OneCaller
    Lines <- OneLine
    Actions <- TwoActions
    Descs <- MCDescs
    AttachCanFail = TRUE
    NoDesc = NoDesc
SPECIFICATION Spec
INVARIANTS
    HandlerReachable
