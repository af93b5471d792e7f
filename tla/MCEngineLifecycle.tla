-------------------------- MODULE MCEngineLifecycle --------------------------
(* Model-checking instance of EngineLifecycle: profiles are interchangeable *)
(* for safety.                                                             *)
EXTENDS EngineLifecycle, TLC

ProfileSymmetry == Permutations(Profiles)
==============================================================================
