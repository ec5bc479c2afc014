--------------------------- MODULE NonceManagerMC ---------------------------
(* A small instance of NonceManager for TLC.                                *)
EXTENDS NonceManager, TLC

SenderSymmetry == Permutations(Senders)
=============================================================================
