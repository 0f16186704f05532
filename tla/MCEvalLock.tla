---------------------------- MODULE MCEvalLock ----------------------------
(* Small instances of EvalLock for TLC. *)
EXTENDS EvalLock, TLC

Symmetric == Permutations(Others)
===========================================================================
