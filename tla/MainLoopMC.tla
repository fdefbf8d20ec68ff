----------------------------- MODULE MainLoopMC -----------------------------
(* Instances of MainLoop for TLC. *)
EXTENDS MainLoop

TimerSymmetry == Permutations(Timers)
=============================================================================
