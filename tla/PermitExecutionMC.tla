------------------------- MODULE PermitExecutionMC -------------------------
(* A small instance of PermitExecution for TLC.                             *)
EXTENDS PermitExecution, TLC

(* A fee within the slippage, whose referrer's share is more than the       *)
(* whole, and a fee above the contract's limit.                             *)
Fees ==
    {[bps |-> 200, share |-> 20000, referrer |-> TRUE],
     [bps |-> 600, share |-> 3000, referrer |-> FALSE]}

(* Two permits for the size, one for less, and a forged one.                *)
Signed ==
    {[amount |-> 100, nonce |-> 0, deadline |-> 1, sound |-> TRUE],
     [amount |-> 100, nonce |-> 1, deadline |-> 2, sound |-> TRUE],
     [amount |-> 50,  nonce |-> 1, deadline |-> 2, sound |-> TRUE],
     [amount |-> 100, nonce |-> 1, deadline |-> 2, sound |-> FALSE]}

Symmetry == Permutations(Positions) \cup Permutations(Callers)
=============================================================================
