-------------------------- MODULE TriggerEngineMC --------------------------
(* A small instance of TriggerEngine for TLC.                               *)
EXTENDS TriggerEngine, TLC

PositionSymmetry == Permutations(Positions)
=============================================================================
