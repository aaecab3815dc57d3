------------------------------ MODULE MCTimer ------------------------------
(* Instances of Timer for TLC.                                             *)
EXTENDS Timer, TLC

CONSTANTS p1, p2, tA, tB, h1, h2, h3, h4

OneThread == {p1}
TwoThreads == {p1, p2}
OneTimer == {tA}
TwoTimers == {tA, tB}
MCHandles == {h1, h2, h3, h4}
MCExpiries == {1, 2}

Symmetry == Permutations(MCHandles)
====
