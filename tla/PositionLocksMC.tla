-------------------------- MODULE PositionLocksMC --------------------------
(* Small instances of PositionLocks for TLC.                                *)
EXTENDS PositionLocks, TLC

OneChain  == [p \in Positions |-> CHOOSE c \in Chains : TRUE]
TwoChains == CHOOSE f \in [Positions -> Chains] : \A c \in Chains : \E p \in Positions : f[p] = c

WorkerSymmetry == Permutations(Workers)
=============================================================================
