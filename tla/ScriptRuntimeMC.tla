-------------------------- MODULE ScriptRuntimeMC --------------------------
(* Instances of ScriptRuntime for TLC. *)
EXTENDS ScriptRuntime

CONSTANTS r1, r2, w1, w2, f1, k1, c1

OneRuntime == {r1}
TwoRuntimes == {r1, r2}
OneWorker == {w1}
TwoWorkers == {w1, w2}
=============================================================================
