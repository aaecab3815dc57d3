------------------------------- MODULE MCIrq -------------------------------
(* Instances of Irq for TLC: model values for threads, interrupt lines,    *)
(* irqactions and descriptor memory.                                       *)
EXTENDS Irq, TLC

CONSTANTS c1, c2, l1, l2, a1, a2, a3, d1, d2, d3

OneCaller == {c1}
TwoCallers == {c1, c2}
MCLines == {l1, l2}
OneLine == {l1}
ThreeActions == {a1, a2, a3}
TwoActions == {a1, a2}
MCDescs == {d1, d2, d3}

Symmetry == Permutations(MCDescs) \cup Permutations(TwoCallers)
====
