\* request_irq from the driver's init thread, one call after the other, with
\* dde_kit_interrupt_attach free to refuse a line,
\* while the interrupt threads it starts deliver interrupts.
CONSTANTS
    c1 = c1  c2 = c2  l1 = l1  l2 = l2  a1 = a1  a2 = a2  a3 = a3
    d1 = d1  d2 = d2  d3 = d3
    Callers <- OneCaller
    Lines <- MCLines
    Actions <- ThreeActions
    Descs <- MCDescs
    AttachCanFail = TRUE
    NoDesc = NoDesc
SPECIFICATION Spec
INVARIANTS
    TypeOK
    OneDescriptorPerLine
    ExclusiveClaim
SYMMETRY Symmetry
