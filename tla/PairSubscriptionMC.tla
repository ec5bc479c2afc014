------------------------- MODULE PairSubscriptionMC -------------------------
(* A small instance of PairSubscription for TLC.                            *)
EXTENDS PairSubscription

CONSTANTS p1, p2, p3, ab, cd

(* Two positions of one pair, and one of another.                           *)
TwoPairs == [p \in Positions |-> IF p = p3 THEN cd ELSE ab]
=============================================================================
