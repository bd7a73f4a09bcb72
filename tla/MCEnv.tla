------------------------------- MODULE MCEnv -------------------------------
(* Instances of Env for TLC. *)
EXTENDS Env, TLC
=============================================================================
