------------------------- MODULE DualPriceFeedMC -------------------------
(* A small instance of DualPriceFeed for TLC.                               *)
EXTENDS DualPriceFeed
=============================================================================
