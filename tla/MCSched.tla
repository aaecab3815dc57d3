------------------------------ MODULE MCSched ------------------------------
(* Sched instantiated for TLC: one driver task that makes up to three     *)
(* sleeps, so that a wait can be followed by a delay and a delay by a     *)
(* second one, and a waker that signals up to two events.                 *)
EXTENDS Sched

MCMaxEpisodes == 3
MCMaxWakes == 2
====
