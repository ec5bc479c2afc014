----------------------- MODULE UniswapV3PriceFeedMC -----------------------
(* A small instance of UniswapV3PriceFeed for TLC.                          *)
EXTENDS UniswapV3PriceFeed
=============================================================================
